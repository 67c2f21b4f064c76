--------------------------- MODULE ConsumersProofs ---------------------------
(***************************************************************************)
(* What holds of the consumers of the log for every value of the constants:  *)
(* the scheduler fires a schedule once per due time, a message that the       *)
(* platform delivers any number of times is recorded and submitted once,      *)
(* triage and outbox leave nothing behind their cursors undone, and the       *)
(* distiller passes nothing over and brings back nothing hidden or forgotten. *)
(***************************************************************************)
EXTENDS Consumers, FiniteSetTheorems, TLAPS

-----------------------------------------------------------------------------
(* SCHEDULES                                                                *)

(* Times *)

\* A quotient leaves less than the divisor.
LEMMA QuotientBound ==
  ASSUME NEW x \in Int, NEW y \in Nat \ {0}
  PROVE  x \div y \in Int /\ (x \div y) * y <= x /\ x < (x \div y + 1) * y
  BY Z3

\* A row, read or written: it has the fields of the table and exactly one of cron and an interval.
RowOK(r) ==
  /\ Fields \cup {"next"} \subseteq DOMAIN r
  /\ r.every \in Nat /\ r.cron \in BOOLEAN /\ r.enabled \in BOOLEAN /\ r.next \in Nat \cup {None}
  /\ ~r.cron => r.every > 0

\* The next time of a definition lies ahead.
LEMMA NextIsAhead ==
  ASSUME NEW d, d.every \in Nat, ~d.cron => d.every > 0, NEW t \in Nat
  PROVE  ComputeNextRun(d, t) \in Nat /\ ComputeNextRun(d, t) > t
<1>1. CASE d.cron
  <2> DEFINE q == t \div CronPeriod
  <2>1. CronPeriod \in Nat \ {0}
    BY SchedulesAssumption
  <2>2. q \in Int /\ t < (q + 1) * CronPeriod
    BY <2>1, QuotientBound
  <2>3. (q + 1) * CronPeriod \in Int
    BY <2>1, <2>2
  <2> HIDE DEF q
  <2>4. ComputeNextRun(d, t) = (q + 1) * CronPeriod
    BY <1>1 DEF ComputeNextRun, q
  <2> QED
    BY <2>2, <2>3, <2>4
<1>2. CASE ~d.cron
  BY <1>2 DEF ComputeNextRun
<1> QED
  BY <1>1, <1>2

\* So does the time after a firing, however late that was: missed periods are skipped.
LEMMA AfterRunIsAhead ==
  ASSUME NEW r, RowOK(r), NEW t \in Nat
  PROVE  NextAfterRun(r, t) \in Nat /\ NextAfterRun(r, t) > t
<1> DEFINE anchor == IF r.next = None THEN t ELSE r.next
           late == t - anchor + r.every - 1
           skipped == anchor + (late \div r.every) * r.every
<1>1. anchor \in Nat
  BY DEF RowOK
<1>2. CASE r.cron
  BY <1>2, NextIsAhead DEF RowOK, NextAfterRun
<1>3. CASE ~r.cron /\ anchor + r.every > t
  BY <1>1, <1>3 DEF RowOK, NextAfterRun
<1>4. CASE ~r.cron /\ ~(anchor + r.every > t)
  <2>1. r.every \in Nat \ {0} /\ late \in Int /\ late >= 0
    BY <1>1, <1>4 DEF RowOK
  <2>2. late \div r.every \in Int /\ late < (late \div r.every + 1) * r.every
    BY <2>1, QuotientBound
  <2>3. skipped \in Int /\ skipped + r.every > t
    BY <1>1, <2>1, <2>2, Z3
  <2>4. NextAfterRun(r, t) = IF skipped > t THEN skipped ELSE skipped + r.every
    BY <1>4 DEF NextAfterRun
  <2> QED
    BY <2>1, <2>3, <2>4
<1> QED
  BY <1>2, <1>3, <1>4

\* What MarkRun writes: nothing for a disabled schedule, and never a time that has passed.
LEMMA NextRunIsAhead ==
  ASSUME NEW r, RowOK(r), NEW t \in Nat
  PROVE  NextRun(r, t) \in Nat \cup {None} /\ (NextRun(r, t) # None => NextRun(r, t) > t)
  BY AfterRunIsAhead DEF NextRun, RowOK

(* Rows *)

LEMMA WithNext ==
  ASSUME NEW d, NEW n \in Nat \cup {None}, DOMAIN d = Fields, Typed(d), Valid(d)
  PROVE  LET r == Over([next |-> n], d) IN RowOK(r) /\ r.next = n
<1> DEFINE r == Over([next |-> n], d)
<1>1. DOMAIN r = Fields \cup {"next"}
  BY DEF Over, Fields
<1>2. \A x \in Fields : r[x] = d[x]
  BY DEF Over, Fields
<1>3. r["next"] = n
  BY DEF Over, Fields
<1>4. d.every \in Nat /\ d.cron \in BOOLEAN /\ d.enabled \in BOOLEAN
  BY DEF Typed, Fields
<1>5. ~d.cron => d.every > 0
  BY <1>4 DEF Valid
<1> HIDE DEF r
<1>6. r.every = d.every /\ r.cron = d.cron /\ r.enabled = d.enabled
  BY <1>2 DEF Fields
<1>7. RowOK(r)
  BY <1>1, <1>3, <1>4, <1>5, <1>6 DEF RowOK
<1> QED
  BY <1>3, <1>7 DEF r

\* A patched row keeps its shape; what is written with it is its next time or none.
LEMMA Patched ==
  ASSUME NEW r, RowOK(r), NEW patch \in Patches, NEW n \in Nat \cup {None}, Valid(Over(patch, r))
  PROVE  LET d == Over(patch, r) IN
         /\ d.every \in Nat /\ (~d.cron => d.every > 0)
         /\ RowOK([d EXCEPT !.next = n]) /\ [d EXCEPT !.next = n].next = n
<1> DEFINE d == Over(patch, r)
           w == [d EXCEPT !.next = n]
<1>1. DOMAIN patch \subseteq Fields /\ Typed(patch)
  BY SchedulesAssumption
<1>2. DOMAIN d = DOMAIN patch \cup DOMAIN r /\ Fields \cup {"next"} \subseteq DOMAIN d
  BY DEF Over, RowOK
<1>3. \A x \in DOMAIN d : d[x] = IF x \in DOMAIN patch THEN patch[x] ELSE r[x]
  BY DEF Over
<1>4. Valid(d)
  OBVIOUS
<1> HIDE DEF d
<1>5. d["every"] \in Nat
  BY <1>1, <1>2, <1>3 DEF RowOK, Typed, Fields
<1>6. d["cron"] \in BOOLEAN /\ d["enabled"] \in BOOLEAN
  <2>1. "cron" \in DOMAIN d /\ "enabled" \in DOMAIN d
    BY <1>2 DEF Fields
  <2>2. "cron" \in DOMAIN patch => patch["cron"] \in BOOLEAN
    BY <1>1 DEF Typed
  <2>3. "enabled" \in DOMAIN patch => patch["enabled"] \in BOOLEAN
    BY <1>1 DEF Typed
  <2>4. r["cron"] \in BOOLEAN /\ r["enabled"] \in BOOLEAN
    BY DEF RowOK
  <2> QED
    BY <1>3, <2>1, <2>2, <2>3, <2>4
<1>7. ~d.cron => d.every > 0
  BY <1>4, <1>5, <1>6 DEF Valid
<1>8. DOMAIN w = DOMAIN d /\ w["next"] = n /\ \A x \in Fields : w[x] = d[x]
  BY <1>2 DEF Fields
<1> HIDE DEF w
<1>9. w.every = d.every /\ w.cron = d.cron /\ w.enabled = d.enabled
  BY <1>8 DEF Fields
<1>10. RowOK(w)
  BY <1>2, <1>5, <1>6, <1>7, <1>8, <1>9 DEF RowOK
<1> QED
  BY <1>5, <1>7, <1>8, <1>10 DEF d, w

-----------------------------------------------------------------------------
(* The invariant *)

\* A time is ahead of t, or none.
Ahead(n, t) == n \in Nat \cup {None} /\ (n # None => n > t)

\* What a firer is at.
JobOK(j) ==
  /\ "at" \in DOMAIN j /\ j.at \in {"idle", "fire", "run", "mark", "put", "save"}
  /\ j.at # "idle" => {"id", "row"} \subseteq DOMAIN j /\ j.id \in Sched
  /\ j.at = "put" => Ahead(j.next, now)
  /\ j.at = "save" => RowOK(j.row) /\ Ahead(j.row.next, now)

\* No time in a row is one at which its schedule has been fired already.
RowsAhead ==
  /\ DOMAIN rows = Sched
  /\ \A s \in Sched : Exists(s) => RowOK(rows[s]) /\ Ahead(rows[s].next, marked[s])

\* Neither is one in what the scheduler has read and not fired, where no schedule is twice.
DueAhead ==
  /\ \A d \in due : d.id \in Sched /\ d.row.next \in Nat /\ d.row.next > marked[d.id]
  /\ \A d, e \in due : d.id = e.id => d = e
  /\ job[Ticker].at # "idle" =>
       /\ job[Ticker].at # "save"
       /\ job[Ticker].row.next \in Nat /\ job[Ticker].row.next > marked[job[Ticker].id]
       /\ \A d \in due : d.id # job[Ticker].id

SchedInv ==
  /\ now \in Nat
  /\ marked \in [Sched -> Int] /\ \A s \in Sched : marked[s] <= now
  /\ DOMAIN job = Firer /\ \A f \in Firer : JobOK(job[f])
  /\ RowsAhead /\ DueAhead

LEMMA SchedInvInit == Init => SchedInv
<1> SUFFICES ASSUME NEW scene \in Scenes, SchedInit(scene.start)
             PROVE  SchedInv
  BY DEF Init
<1> DEFINE start == scene.start
<1>1. now = 0 /\ due = {} /\ job = [f \in Firer |-> Idle] /\ marked = [s \in Sched |-> -1]
  BY DEF SchedInit
<1>2. \A s \in DOMAIN start : DOMAIN start[s] = Fields /\ Typed(start[s]) /\ Valid(start[s])
  BY ConsumersAssumption
<1>3. \A f \in Firer : JobOK(job[f])
  BY <1>1 DEF JobOK, Idle
<1>4. RowsAhead
  <2>1. DOMAIN rows = Sched
    BY DEF SchedInit
  <2>2. ASSUME NEW s \in Sched, Exists(s)
        PROVE  RowOK(rows[s]) /\ Ahead(rows[s].next, marked[s])
    <3> DEFINE n == ComputeNextRun(start[s], 0)
    <3>1. s \in DOMAIN start /\ rows[s] = Over([next |-> n], start[s])
      BY <2>2 DEF SchedInit, Exists
    <3>2. start[s].every \in Nat /\ (~start[s].cron => start[s].every > 0)
      <4>1. start[s].every \in Nat /\ start[s].cron \in BOOLEAN
        BY <1>2, <3>1 DEF Typed, Fields
      <4> QED
        BY <1>2, <3>1, <4>1 DEF Valid
    <3>3. n \in Nat /\ n > 0
      BY <3>2, NextIsAhead
    <3> HIDE DEF n
    <3>4. RowOK(rows[s]) /\ rows[s].next = n
      BY <1>2, <3>1, <3>3, WithNext
    <3> QED
      BY <1>1, <3>3, <3>4 DEF Ahead
  <2> QED
    BY <2>1, <2>2 DEF RowsAhead
<1>5. DueAhead
  BY <1>1 DEF DueAhead, Idle, Firer
<1> QED
  BY <1>1, <1>3, <1>4, <1>5 DEF SchedInv

-----------------------------------------------------------------------------
(* Steps *)

LEMMA SchedInvStays == SchedInv /\ UNCHANGED schedVars => SchedInv'
  BY DEF SchedInv, RowsAhead, DueAhead, JobOK, Ahead, RowOK, Exists, schedVars

\* The state of a firer, moved on.
LEMMA MovedOn ==
  ASSUME NEW j, "at" \in DOMAIN j, NEW at
  PROVE  LET k == [j EXCEPT !.at = at] IN
         /\ DOMAIN k = DOMAIN j /\ k.at = at
         /\ k.id = j.id \/ "id" \notin DOMAIN j
         /\ k.row = j.row \/ "row" \notin DOMAIN j
  OBVIOUS

\* A firer moves on and nothing else changes; the scheduler stays at the schedule it is at.
LEMMA SchedInvMoves ==
  ASSUME SchedInv, NEW f \in Firer, NEW k, Does(f, k), JobOK(k),
         UNCHANGED <<now, rows, due, marked>>,
         f = Ticker /\ k.at # "idle" =>
           /\ job[Ticker].at # "idle" /\ k.at # "save"
           /\ k.id = job[Ticker].id /\ k.row = job[Ticker].row
  PROVE  SchedInv'
<1>1. DOMAIN job' = Firer /\ job'[f] = k /\ \A g \in Firer : g # f => job'[g] = job[g]
  BY DEF SchedInv, Does
<1>2. \A g \in Firer : JobOK(job[g])'
  BY <1>1 DEF SchedInv, JobOK, Ahead, RowOK
<1>3. RowsAhead'
  BY DEF SchedInv, RowsAhead, Ahead, RowOK, Exists
<1>4. DueAhead'
  <2>1. CASE f = Ticker
    BY <1>1, <2>1 DEF SchedInv, DueAhead
  <2>2. CASE f # Ticker
    <3>1. job'[Ticker] = job[Ticker]
      BY <1>1, <2>2 DEF Firer
    <3> QED
      BY <3>1 DEF SchedInv, DueAhead
  <2> QED
    BY <2>1, <2>2
<1> QED
  BY <1>1, <1>2, <1>3, <1>4 DEF SchedInv

LEMMA IdleIsOK == JobOK(Idle)
  BY DEF JobOK, Idle

LEMMA SchedInvTick == SchedInv /\ Tick => SchedInv'
<1> SUFFICES ASSUME SchedInv, Tick  PROVE SchedInv'
  OBVIOUS
<1>1. due' = {[id |-> s, row |-> rows[s]] : s \in DueSchedules}
  BY DEF Tick
<1>2. UNCHANGED <<now, rows, job, marked>> /\ job[Ticker].at = "idle"
  BY DEF Tick, Is
<1>3. \A s \in DueSchedules : s \in Sched /\ rows[s].next \in Nat /\ rows[s].next > marked[s]
  BY DEF SchedInv, RowsAhead, DueSchedules, Ahead
<1>4. DueAhead'
  BY <1>1, <1>2, <1>3 DEF DueAhead
<1>5. \A f \in Firer : JobOK(job[f])'
  BY <1>2 DEF SchedInv, JobOK, Ahead, RowOK
<1>6. RowsAhead'
  BY <1>2 DEF SchedInv, RowsAhead, Ahead, RowOK, Exists
<1> QED
  BY <1>2, <1>4, <1>5, <1>6 DEF SchedInv

LEMMA SchedInvTickTakes ==
  ASSUME SchedInv, NEW d \in due, TickTakes(d)
  PROVE  SchedInv'
<1> DEFINE k == [at |-> "fire", id |-> d.id, row |-> d.row]
<1>1. due' = due \ {d} /\ UNCHANGED <<now, rows, marked>> /\ Does(Ticker, k)
  BY DEF TickTakes
<1>2. Ticker \in Firer /\ DOMAIN job' = Firer /\ job'[Ticker] = k /\ \A g \in Firer : g # Ticker => job'[g] = job[g]
  BY <1>1 DEF SchedInv, Does, Firer
<1>3. d.id \in Sched /\ d.row.next \in Nat /\ d.row.next > marked[d.id]
  BY DEF SchedInv, DueAhead
<1>4. \A f \in Firer : JobOK(job[f])'
  <2>1. JobOK(k)'
    BY <1>3 DEF JobOK
  <2> QED
    BY <1>1, <1>2, <2>1 DEF SchedInv, JobOK, Ahead, RowOK
<1>5. DueAhead'
  BY <1>1, <1>2, <1>3 DEF SchedInv, DueAhead
<1>6. RowsAhead'
  BY <1>1 DEF SchedInv, RowsAhead, Ahead, RowOK, Exists
<1> QED
  BY <1>1, <1>2, <1>4, <1>5, <1>6 DEF SchedInv

LEMMA SchedInvFires ==
  ASSUME SchedInv, NEW f \in Firer, Fires(f) \/ Runs(f) \/ MarkReads(f)
  PROVE  SchedInv'
<1> DEFINE k(at) == [job[f] EXCEPT !.at = at]
<1>1. JobOK(job[f]) /\ job[f].at \in {"fire", "run", "mark"} /\ UNCHANGED <<now, rows, due, marked>>
  BY DEF SchedInv, Fires, Runs, MarkReads, Is
<1>2. {"at", "id", "row"} \subseteq DOMAIN job[f] /\ job[f].id \in Sched
  BY <1>1 DEF JobOK
<1>3. ASSUME Does(f, Idle)  PROVE SchedInv'
  BY <1>1, <1>3, IdleIsOK, SchedInvMoves DEF Idle
<1>4. ASSUME NEW at \in {"run", "mark"}, Then(f, at)  PROVE SchedInv'
  <2>1. DOMAIN k(at) = DOMAIN job[f] /\ k(at).at = at /\ k(at).id = job[f].id /\ k(at).row = job[f].row
    BY <1>2, MovedOn
  <2>2. Does(f, k(at))
    BY <1>4 DEF Then
  <2> HIDE DEF k
  <2>3. JobOK(k(at))
    BY <1>2, <2>1 DEF JobOK
  <2> QED
    BY <1>1, <2>1, <2>2, <2>3, SchedInvMoves
<1>5. ASSUME Exists(job[f].id),
             Does(f, [at |-> "put", id |-> job[f].id, row |-> job[f].row, next |-> NextRun(rows[job[f].id], now)])
      PROVE  SchedInv'
  <2> DEFINE n == NextRun(rows[job[f].id], now)
             p == [at |-> "put", id |-> job[f].id, row |-> job[f].row, next |-> n]
  <2>1. RowOK(rows[job[f].id]) /\ now \in Nat
    BY <1>2, <1>5 DEF SchedInv, RowsAhead
  <2>2. Ahead(n, now)
    BY <2>1, NextRunIsAhead DEF Ahead
  <2>3. Does(f, p)
    BY <1>5
  <2> HIDE DEF n
  <2>4. JobOK(p)
    BY <1>2, <2>2 DEF JobOK
  <2>5. p.at = "put" /\ p.id = job[f].id /\ p.row = job[f].row
    OBVIOUS
  <2> HIDE DEF p
  <2> QED
    BY <1>1, <2>3, <2>4, <2>5, SchedInvMoves
<1> QED
  BY <1>3, <1>4, <1>5 DEF Fires, Runs, MarkReads

\* A row is written: its next time is ahead of the clock, so of every mark.
LEMMA RowWritten ==
  ASSUME SchedInv, NEW s \in Sched, NEW r, RowOK(r), Ahead(r.next, now),
         rows' = [rows EXCEPT ![s] = r], marked' = marked
  PROVE  RowsAhead'
<1>1. now \in Nat /\ marked[s] \in Int /\ marked[s] <= now
  BY DEF SchedInv
<1>2. RowOK(r)' /\ Ahead(r.next, marked[s])
  BY <1>1 DEF RowOK, Ahead
<1>3. DOMAIN rows' = Sched /\ rows'[s] = r /\ \A z \in Sched : z # s => rows'[z] = rows[z]
  BY DEF SchedInv, RowsAhead
<1> QED
  BY <1>2, <1>3 DEF SchedInv, RowsAhead, Ahead, RowOK, Exists

\* A firer becomes idle, the rows change and keep ahead.
LEMMA SchedInvEnds ==
  ASSUME SchedInv, NEW f \in Firer, Does(f, Idle), UNCHANGED <<now, due, marked>>, RowsAhead'
  PROVE  SchedInv'
<1>1. DOMAIN job' = Firer /\ job'[f] = Idle /\ \A g \in Firer : g # f => job'[g] = job[g]
  BY DEF SchedInv, Does
<1>2. \A g \in Firer : JobOK(job[g])'
  BY <1>1, IdleIsOK DEF SchedInv, JobOK, Ahead, RowOK, Idle
<1>3. DueAhead'
  <2>1. CASE f = Ticker
    BY <1>1, <2>1 DEF SchedInv, DueAhead, Idle
  <2>2. CASE f # Ticker
    <3>1. job'[Ticker] = job[Ticker]
      BY <1>1, <2>2 DEF Firer
    <3> QED
      BY <3>1 DEF SchedInv, DueAhead
  <2> QED
    BY <2>1, <2>2
<1> QED
  BY <1>1, <1>2, <1>3 DEF SchedInv

LEMMA SchedInvMarkWrites ==
  ASSUME SchedInv, NEW f \in Firer, MarkWrites(f)
  PROVE  SchedInv'
<1> DEFINE s == job[f].id
           n == job[f].next
<1>1. job[f].at = "put" /\ JobOK(job[f]) /\ Does(f, Idle) /\ UNCHANGED <<now, due>>
  BY DEF SchedInv, MarkWrites, Is
<1>2. s \in Sched /\ Ahead(n, now)
  BY <1>1 DEF JobOK
<1>3. CASE UNCHANGED <<rows, marked>>
  <2>1. RowsAhead'
    BY <1>3 DEF SchedInv, RowsAhead, Ahead, RowOK, Exists
  <2> QED
    BY <1>1, <1>3, <2>1, SchedInvEnds
<1>4. ASSUME IF Exists(s) THEN rows' = [rows EXCEPT ![s].next = n] ELSE UNCHANGED rows,
             marked' = IF f = Ticker THEN [marked EXCEPT ![s] = now] ELSE marked
      PROVE  SchedInv'
  <2> DEFINE w == [rows[s] EXCEPT !.next = n]
  <2>1. ASSUME Exists(s)
        PROVE  RowOK(w) /\ w.next = n /\ rows' = [rows EXCEPT ![s] = w]
    <3>1. RowOK(rows[s])
      BY <1>2, <2>1 DEF SchedInv, RowsAhead
    <3>2. DOMAIN w = DOMAIN rows[s] /\ w["next"] = n /\ \A x \in Fields : w[x] = rows[s][x]
      BY <3>1 DEF RowOK, Fields
    <3>3. rows' = [rows EXCEPT ![s] = w]
      BY <1>4, <2>1
    <3> HIDE DEF w
    <3>4. w.every = rows[s].every /\ w.cron = rows[s].cron /\ w.enabled = rows[s].enabled
      BY <3>2 DEF Fields
    <3>5. n \in Nat \cup {None}
      BY <1>2 DEF Ahead
    <3> HIDE DEF n
    <3>6. RowOK(w)
      BY <3>1, <3>2, <3>4, <3>5 DEF RowOK
    <3> QED
      BY <3>2, <3>3, <3>6
  <2> HIDE DEF w
  <2>2. DOMAIN rows' = Sched /\ \A z \in Sched : z # s => rows'[z] = rows[z]
    BY <1>4, <2>1 DEF SchedInv, RowsAhead
  <2>3. Exists(s) => rows'[s] = w
    BY <1>2, <2>1 DEF SchedInv, RowsAhead
  <2>4. ~Exists(s) => rows' = rows
    BY <1>4
  <2>5. marked' \in [Sched -> Int] /\ (\A z \in Sched : z # s => marked'[z] = marked[z]) /\ marked'[s] \in Int /\ marked'[s] <= now
    BY <1>2, <1>4 DEF SchedInv
  <2>6. now \in Nat
    BY DEF SchedInv
  <2>7. RowsAhead'
    <3>1. ASSUME NEW z \in Sched, Exists(z)'
          PROVE  RowOK(rows[z])' /\ Ahead(rows[z].next, marked[z])'
      <4>1. CASE z # s
        BY <2>2, <2>5, <3>1, <4>1 DEF SchedInv, RowsAhead, Ahead, RowOK, Exists
      <4>2. CASE z = s
        <5>1. Exists(s)
          BY <2>4, <3>1, <4>2 DEF Exists
        <5>2. rows'[z] = w /\ RowOK(w) /\ w.next = n /\ marked'[z] \in Int /\ marked'[z] <= now
          BY <2>1, <2>3, <2>5, <4>2, <5>1
        <5> HIDE DEF n
        <5>3. RowOK(rows[z])'
          BY <5>2 DEF RowOK
        <5>4. Ahead(rows[z].next, marked[z])'
          BY <1>2, <2>6, <5>2 DEF Ahead
        <5> QED
          BY <5>3, <5>4
      <4> QED
        BY <4>1, <4>2
    <3> QED
      BY <2>2, <3>1 DEF RowsAhead
  <2>8. DOMAIN job' = Firer /\ job'[f] = Idle /\ \A g \in Firer : g # f => job'[g] = job[g]
    BY <1>1 DEF SchedInv, Does
  <2>9. \A g \in Firer : JobOK(job[g])'
    BY <1>1, <2>8, IdleIsOK DEF SchedInv, JobOK, Ahead, RowOK, Idle
  <2>10. DueAhead'
    <3>1. CASE f = Ticker
      <4>1. \A d \in due : d.id # s
        BY <1>1, <3>1 DEF SchedInv, DueAhead
      <4> QED
        BY <1>1, <2>5, <2>8, <3>1, <4>1 DEF SchedInv, DueAhead, Idle
    <3>2. CASE f # Ticker
      <4>1. job'[Ticker] = job[Ticker] /\ marked' = marked
        BY <1>4, <2>8, <3>2 DEF Firer
      <4> QED
        BY <1>1, <4>1 DEF SchedInv, DueAhead
    <3> QED
      BY <3>1, <3>2
  <2>11. \A z \in Sched : marked'[z] <= now'
    BY <1>1, <2>5 DEF SchedInv
  <2> QED
    BY <1>1, <2>5, <2>7, <2>8, <2>9, <2>10, <2>11 DEF SchedInv
<1> QED
  BY <1>3, <1>4 DEF MarkWrites

LEMMA SchedInvCreate ==
  ASSUME SchedInv, NEW c \in Caller, NEW s \in Sched, NEW d \in Definitions, CreateSchedule(c, s, d)
  PROVE  SchedInv'
<1> DEFINE n == ComputeNextRun(d, now)
           r == Over([next |-> n], d)
<1>1. now \in Nat /\ Valid(d) /\ rows' = [rows EXCEPT ![s] = r] /\ UNCHANGED <<now, due, job, marked>>
  BY DEF SchedInv, CreateSchedule
<1>2. DOMAIN d = Fields /\ Typed(d)
  BY SchedulesAssumption
<1>3. d.every \in Nat /\ (~d.cron => d.every > 0)
  <2>1. d.every \in Nat /\ d.cron \in BOOLEAN
    BY <1>2 DEF Typed, Fields
  <2> QED
    BY <1>1, <2>1 DEF Valid
<1>4. n \in Nat /\ n > now
  BY <1>1, <1>3, NextIsAhead
<1> HIDE DEF n
<1>5. RowOK(r) /\ r.next = n
  BY <1>1, <1>2, <1>4, WithNext
<1> HIDE DEF r
<1>6. RowsAhead'
  BY <1>1, <1>4, <1>5, RowWritten DEF Ahead
<1>7. \A g \in Firer : JobOK(job[g])'
  BY <1>1 DEF SchedInv, JobOK, Ahead, RowOK
<1>8. DueAhead'
  BY <1>1 DEF SchedInv, DueAhead
<1> QED
  BY <1>1, <1>6, <1>7, <1>8 DEF SchedInv

LEMMA SchedInvUpdateReads ==
  ASSUME SchedInv, NEW c \in Caller, NEW s \in Sched, NEW patch \in Patches, UpdateReads(c, s, patch)
  PROVE  SchedInv'
<1> DEFINE d == Over(patch, rows[s])
           n == IF d.enabled THEN ComputeNextRun(d, now) ELSE None
           w == [d EXCEPT !.next = n]
           k == [at |-> "save", id |-> s, row |-> w]
<1>1. Exists(s) /\ Valid(d) /\ Does(c, k) /\ UNCHANGED <<now, rows, due, marked>>
  BY DEF UpdateReads
<1>2. now \in Nat /\ RowOK(rows[s])
  BY <1>1 DEF SchedInv, RowsAhead
<1>3. d.every \in Nat /\ (~d.cron => d.every > 0)
  BY <1>1, <1>2, Patched
<1>4. Ahead(n, now)
  BY <1>2, <1>3, NextIsAhead DEF Ahead
<1>5. RowOK(w) /\ w.next = n
  <2>1. n \in Nat \cup {None}
    BY <1>4 DEF Ahead
  <2> HIDE DEF n
  <2> QED
    BY <1>1, <1>2, <2>1, Patched
<1> HIDE DEF w
<1>6. JobOK(k)
  BY <1>4, <1>5 DEF JobOK
<1>7. c \in Firer /\ c # Ticker
  BY SchedulesAssumption DEF Firer
<1> HIDE DEF k
<1> QED
  BY <1>1, <1>6, <1>7, SchedInvMoves

LEMMA SchedInvUpdateWrites ==
  ASSUME SchedInv, NEW c \in Caller, UpdateWrites(c)
  PROVE  SchedInv'
<1>1. c \in Firer /\ job[c].at = "save" /\ JobOK(job[c]) /\ Does(c, Idle) /\ UNCHANGED <<now, due, marked>>
  BY DEF SchedInv, UpdateWrites, Is, Firer
<1>2. job[c].id \in Sched /\ RowOK(job[c].row) /\ Ahead(job[c].row.next, now)
  BY <1>1 DEF JobOK
<1>3. RowsAhead'
  <2>1. CASE rows' = [rows EXCEPT ![job[c].id] = job[c].row]
    BY <1>1, <1>2, <2>1, RowWritten
  <2>2. CASE rows' = rows
    BY <1>1, <2>2 DEF SchedInv, RowsAhead, Ahead, RowOK, Exists
  <2> QED
    BY <2>1, <2>2 DEF UpdateWrites
<1> QED
  BY <1>1, <1>3, SchedInvEnds

LEMMA SchedInvCalls ==
  ASSUME SchedInv, NEW c \in Caller, NEW s \in Sched, RunNow(c, s) \/ DeleteSchedule(c, s)
  PROVE  SchedInv'
<1>1. CASE RunNow(c, s)
  <2> DEFINE k == [at |-> "fire", id |-> s, row |-> rows[s]]
  <2>1. c \in Firer /\ c # Ticker /\ Does(c, k) /\ UNCHANGED <<now, rows, due, marked>>
    BY <1>1, SchedulesAssumption DEF RunNow, Firer
  <2>2. JobOK(k)
    BY DEF JobOK
  <2> HIDE DEF k
  <2> QED
    BY <2>1, <2>2, SchedInvMoves
<1>2. CASE DeleteSchedule(c, s)
  <2>1. rows' = [rows EXCEPT ![s] = Gone] /\ UNCHANGED <<now, due, job, marked>>
    BY <1>2 DEF DeleteSchedule
  <2>2. RowsAhead'
    BY <2>1 DEF SchedInv, RowsAhead, Ahead, RowOK, Exists
  <2>3. \A g \in Firer : JobOK(job[g])'
    BY <2>1 DEF SchedInv, JobOK, Ahead, RowOK
  <2>4. DueAhead'
    BY <2>1 DEF SchedInv, DueAhead
  <2> QED
    BY <2>1, <2>2, <2>3, <2>4 DEF SchedInv
<1> QED
  BY <1>1, <1>2

\* The clock stands still while a time it was read for is being written.
LEMMA SchedInvPasses == SchedInv /\ Passes => SchedInv'
<1> SUFFICES ASSUME SchedInv, Passes  PROVE SchedInv'
  OBVIOUS
<1>1. now' = now + 1 /\ UNCHANGED <<rows, due, job, marked>> /\ \A f \in Firer : job[f].at \notin {"put", "save"}
  BY DEF Passes
<1>2. \A f \in Firer : JobOK(job[f])'
  BY <1>1 DEF SchedInv, JobOK
<1>3. RowsAhead'
  BY <1>1 DEF SchedInv, RowsAhead, Ahead, RowOK, Exists
<1>4. DueAhead'
  BY <1>1 DEF SchedInv, DueAhead
<1>5. now' \in Nat /\ \A s \in Sched : marked'[s] <= now'
  BY <1>1 DEF SchedInv
<1> QED
  BY <1>1, <1>2, <1>3, <1>4, <1>5 DEF SchedInv

LEMMA SchedInvForgets == SchedInv /\ SchedForgets => SchedInv'
<1> SUFFICES ASSUME SchedInv, SchedForgets  PROVE SchedInv'
  OBVIOUS
<1>1. due' = {} /\ job' = [f \in Firer |-> Idle] /\ UNCHANGED <<now, rows, marked>>
  BY DEF SchedForgets
<1>2. \A f \in Firer : JobOK(job[f])'
  BY <1>1 DEF JobOK, Idle
<1>3. RowsAhead'
  BY <1>1 DEF SchedInv, RowsAhead, Ahead, RowOK, Exists
<1>4. DueAhead'
  BY <1>1 DEF DueAhead, Idle, Firer
<1> QED
  BY <1>1, <1>2, <1>3, <1>4 DEF SchedInv

LEMMA SchedInvStep == SchedInv /\ [Next]_vars => SchedInv'
<1> SUFFICES ASSUME SchedInv, [Next]_vars  PROVE SchedInv'
  OBVIOUS
<1>1. CASE SchedNext
  <2>1. CASE Tick \/ \E d \in due : TickTakes(d)
    BY <2>1, SchedInvTick, SchedInvTickTakes
  <2>2. CASE \E f \in Firer : Fires(f) \/ Runs(f) \/ MarkReads(f) \/ MarkWrites(f)
    BY <2>2, SchedInvFires, SchedInvMarkWrites
  <2>3. CASE \E c \in Caller, s \in Sched : RunNow(c, s) \/ DeleteSchedule(c, s)
    BY <2>3, SchedInvCalls
  <2>4. CASE \E c \in Caller, s \in Sched, d \in Definitions : CreateSchedule(c, s, d)
    BY <2>4, SchedInvCreate
  <2>5. CASE \E c \in Caller, s \in Sched, patch \in Patches : UpdateReads(c, s, patch)
    BY <2>5, SchedInvUpdateReads
  <2>6. CASE \E c \in Caller : UpdateWrites(c)
    BY <2>6, SchedInvUpdateWrites
  <2>7. CASE Passes
    BY <2>7, SchedInvPasses
  <2> QED
    BY <1>1, <2>1, <2>2, <2>3, <2>4, <2>5, <2>6, <2>7 DEF SchedNext
<1>2. CASE Crash
  BY <1>2, SchedInvForgets DEF Crash
<1>3. CASE UNCHANGED schedVars
  BY <1>3, SchedInvStays
<1> QED
  <2>1. CASE TriageReads \/ TriageDecides \/ TriageCommits
    BY <1>3, <2>1 DEF TriageReads, TriageDecides, TriageCommits
  <2>2. CASE Heartbeat \/ Webhook
    BY <1>3, <2>2 DEF Heartbeat, Webhook, Captures
  <2>3. CASE \E n \in DOMAIN log, i \in Item \cup {None}, parts \in 1..MaxParts : Answers(n, i, parts)
    BY <1>3, <2>3 DEF Answers
  <2>4. CASE Start
    BY <1>3, <2>4 DEF Start
  <2>5. CASE UNCHANGED vars
    BY <1>3, <2>5 DEF vars
  <2> QED
    BY <1>1, <1>2, <1>3, <2>1, <2>2, <2>3, <2>4, <2>5 DEF Next

\* No due time of a schedule is fired twice by the scheduler (schedules.go:323-363), whoever
\* else runs it, patches it or deletes it meanwhile, and whenever the program stops.
THEOREM SchedulesFireOnce == Spec => []FiresOncePerSlot
<1>1. SchedInv => FiresOncePerSlot
  BY DEF SchedInv, DueAhead, FiresOncePerSlot
<1> QED
  BY <1>1, SchedInvInit, SchedInvStep, PTL DEF Spec

-----------------------------------------------------------------------------
(* MESSAGES OF PEOPLE                                                       *)

(* The log *)

IsLog == \E S : log \in Seq(S)

\* What is recorded comes after everything else, which stays.
LEMMA Recorded ==
  ASSUME IsLog, NEW e, Record(e)
  PROVE  LET last == Len(log) + 1
         IN /\ IsLog'
            /\ last \in Nat /\ DOMAIN log' = DOMAIN log \cup {last}
            /\ \A n \in DOMAIN log : n \in Nat /\ n < last /\ log'[n] = log[n]
            /\ log'[last] = e
<1>1. PICK S : log \in Seq(S)
  BY DEF IsLog
<1>2. log \in Seq(S \cup {e})
  BY <1>1
<1>3. log' = Append(log, e)
  BY DEF Record
<1>4. log' \in Seq(S \cup {e})
  BY <1>2, <1>3
<1>5. IsLog'
  BY <1>4 DEF IsLog
<1>6. Len(log) \in Nat /\ DOMAIN log = 1..Len(log)
  BY <1>1
<1>7. DOMAIN log' = 1..(Len(log) + 1) /\ log'[Len(log) + 1] = e /\ \A n \in 1..Len(log) : log'[n] = log[n]
  BY <1>2, <1>3, <1>6
<1>8. 1..(Len(log) + 1) = 1..Len(log) \cup {Len(log) + 1}
  BY <1>6
<1>9. \A n \in 1..Len(log) : n \in Nat /\ n < Len(log) + 1
  BY <1>6
<1> QED
  BY <1>5, <1>6, <1>7, <1>8, <1>9

\* What a message has left in the log, after one more event.
LEMMA MoreKept ==
  ASSUME IsLog, NEW e, Record(e), NEW m
  PROVE  /\ Kept(m)' = IF e.kind = "feishu" /\ e.of = m THEN Kept(m) \cup {Len(log) + 1} ELSE Kept(m)
         /\ Taken(m)' = IF e.kind \in {"user", "ignored"} /\ e.of = m THEN Taken(m) \cup {Len(log) + 1} ELSE Taken(m)
<1> DEFINE last == Len(log) + 1
<1>1. DOMAIN log' = DOMAIN log \cup {last} /\ log'[last] = e /\ \A n \in DOMAIN log : log'[n] = log[n]
  BY Recorded
<1> HIDE DEF last
<1>2. Kept(m)' = {n \in DOMAIN log' : log'[n].kind = "feishu" /\ log'[n].of = m}
  BY DEF Kept, Kind
<1>3. Taken(m)' = {n \in DOMAIN log' : log'[n].kind \in {"user", "ignored"} /\ log'[n].of = m}
  BY DEF Taken, Kind
<1>4. Kept(m) = {n \in DOMAIN log : log[n].kind = "feishu" /\ log[n].of = m}
  BY DEF Kept, Kind
<1>5. Taken(m) = {n \in DOMAIN log : log[n].kind \in {"user", "ignored"} /\ log[n].of = m}
  BY DEF Taken, Kind
<1>6. Kept(m)' = IF e.kind = "feishu" /\ e.of = m THEN Kept(m) \cup {last} ELSE Kept(m)
  BY <1>1, <1>2, <1>4
<1>7. Taken(m)' = IF e.kind \in {"user", "ignored"} /\ e.of = m THEN Taken(m) \cup {last} ELSE Taken(m)
  BY <1>1, <1>3, <1>5
<1> QED
  BY <1>6, <1>7 DEF last

\* What was there is older than the last event.
LEMMA KeptIsOld ==
  ASSUME IsLog, NEW m, NEW n \in Kept(m) \cup Taken(m)
  PROVE  n \in Nat /\ n < Len(log) + 1
<1>1. n \in DOMAIN log
  BY DEF Kept, Taken, Kind
<1>2. PICK S : log \in Seq(S)
  BY DEF IsLog
<1> QED
  BY <1>1, <1>2

-----------------------------------------------------------------------------
(* The invariant *)

\* A goroutine at work has a message that this life remembers.
HandOK(j) ==
  /\ "at" \in DOMAIN j /\ j.at \in {"idle", "look", "judge", "record", "act", "bind", "submit"}
  /\ j.at # "idle" => "msg" \in DOMAIN j /\ j.msg \in Msg /\ j.msg \in Remembered

\* The two places a delivery can be at, before it is recorded and after.
Before == {"judge", "record"}
After == {"act", "bind", "submit"}

Found ==
  \A h \in Handler : /\ hand[h].at \in Before => Kept(hand[h].msg) = {}
                     /\ hand[h].at \in After => Kept(hand[h].msg) # {} /\ Taken(hand[h].msg) = {}

\* No two goroutines have the same message: what one finds in the log of it stays so.
HandsInv ==
  /\ DOMAIN hand = Handler
  /\ \A h \in Handler : HandOK(hand[h])
  /\ \A g, h \in Handler : hand[g].at # "idle" /\ hand[h].at # "idle" /\ hand[g].msg = hand[h].msg => g = h
  /\ Found

\* A message is recorded once, then submitted or ignored once.
LogInv ==
  \A m \in Msg :
    /\ \A n, k \in Kept(m) : n = k
    /\ \A n, k \in Taken(m) : n = k
    /\ \A n \in Taken(m) : \E k \in Kept(m) : k < n
    /\ Kept(m) # {} /\ Taken(m) = {} /\ m \notin Wordless \cup cut
         => \E h \in Handler : hand[h].at \in After /\ hand[h].msg = m

RingInv == ring \in Seq(Msg) /\ Len(ring) <= SeenMax

\* What a writer of a memory file is about to record is no message of a person.
EditOK(j) ==
  /\ "at" \in DOMAIN j
  /\ j.at \in {"write", "log"} => "record" \in DOMAIN j /\ j.record.kind \in {"promoted", "forgotten"}
EditInv == DOMAIN edit = Writer /\ \A w \in Writer : EditOK(edit[w])

GateInv == IsLog /\ RingInv /\ HandsInv /\ LogInv /\ EditInv

LEMMA GateInvInit == Init => GateInv
<1> SUFFICES ASSUME NEW scene \in Scenes, log = scene.log, FeishuInit(scene.outbox), MemoryInit
             PROVE  GateInv
  BY DEF Init
<1>1. IsLog
  BY ConsumersAssumption DEF IsLog
<1>2. RingInv
  BY FeishuAssumption DEF FeishuInit, RingInv
<1>3. DOMAIN hand = Handler /\ \A h \in Handler : hand[h] = Free
  BY DEF FeishuInit
<1>4. HandsInv
  BY <1>3 DEF HandsInv, Found, HandOK, Free, Before, After
<1>5. LogInv
  <2> SUFFICES ASSUME NEW m \in Msg
               PROVE  /\ \A n, k \in Kept(m) : n = k
                      /\ \A n, k \in Taken(m) : n = k
                      /\ \A n \in Taken(m) : \E k \in Kept(m) : k < n
                      /\ Kept(m) # {} /\ Taken(m) = {} => m \in Wordless
    BY DEF LogInv
  <2> DEFINE said == {n \in DOMAIN log : log[n].of = m /\ log[n].kind \in {"feishu", "user", "ignored"}}
  <2>1. said # {} => \E k, n \in said : /\ said = {k, n} /\ log[k].kind = "feishu"
                                        /\ IF k = n THEN m \in Wordless ELSE k < n /\ log[n].kind # "feishu"
    BY ConsumersAssumption
  <2>2. Kept(m) = {n \in said : log[n].kind = "feishu"}
    BY DEF Kept, Kind
  <2>3. Taken(m) = {n \in said : log[n].kind # "feishu"}
    BY DEF Taken, Kind
  <2> HIDE DEF said
  <2> QED
    BY <2>1, <2>2, <2>3
<1>6. EditInv
  BY DEF MemoryInit, EditInv, EditOK, Rests
<1> QED
  BY <1>1, <1>2, <1>4, <1>5, <1>6 DEF GateInv

LEMMA GateInvStays ==
  ASSUME GateInv, UNCHANGED <<log, ring, hand>>, cut \subseteq cut', EditInv'
  PROVE  GateInv'
<1>1. \A m : Kept(m)' = Kept(m) /\ Taken(m)' = Taken(m)
  BY DEF GateInv, Kept, Taken, Kind
<1>2. IsLog' /\ RingInv'
  BY DEF GateInv, IsLog, RingInv
<1>3. HandsInv'
  BY <1>1 DEF GateInv, HandsInv, Found, HandOK, Remembered
<1>4. LogInv'
  BY <1>1 DEF GateInv, LogInv
<1> QED
  BY <1>2, <1>3, <1>4 DEF GateInv

\* What others record is no message of a person.
LEMMA GateInvOthers ==
  ASSUME GateInv, NEW e, Record(e), e.kind \notin {"feishu", "user", "ignored"},
         UNCHANGED <<ring, hand>>, cut \subseteq cut', EditInv'
  PROVE  GateInv'
<1>1. \A m : Kept(m)' = Kept(m) /\ Taken(m)' = Taken(m)
  BY MoreKept DEF GateInv
<1>2. IsLog' /\ RingInv'
  BY Recorded DEF GateInv, RingInv
<1>3. HandsInv'
  BY <1>1 DEF GateInv, HandsInv, Found, HandOK, Remembered
<1>4. LogInv'
  BY <1>1 DEF GateInv, LogInv
<1> QED
  BY <1>2, <1>3, <1>4 DEF GateInv

\* A goroutine goes on to another place with its message, or is done.
LEMMA HandMoved ==
  ASSUME GateInv, NEW h \in Handler, NEW j, Hands(h, j), HandOK(j), ring' = ring,
         j.at # "idle" => hand[h].at # "idle" /\ j.msg = hand[h].msg
  PROVE  /\ DOMAIN hand' = Handler /\ hand'[h] = j /\ \A g \in Handler : g # h => hand'[g] = hand[g]
         /\ \A g \in Handler : HandOK(hand[g])'
         /\ \A f, g \in Handler : hand'[f].at # "idle" /\ hand'[g].at # "idle" /\ hand'[f].msg = hand'[g].msg => f = g
<1>1. DOMAIN hand' = Handler /\ hand'[h] = j /\ \A g \in Handler : g # h => hand'[g] = hand[g]
  BY DEF GateInv, HandsInv, Hands
<1>2. \A g \in Handler : HandOK(hand[g])'
  BY <1>1 DEF GateInv, HandsInv, Found, HandOK, Remembered
<1>3. \A f, g \in Handler : hand'[f].at # "idle" /\ hand'[g].at # "idle" /\ hand'[f].msg = hand'[g].msg => f = g
  BY <1>1 DEF GateInv, HandsInv
<1> QED
  BY <1>1, <1>2, <1>3

\* Without a record: it may enter a place its message allows, and leaves after the record only by a cut.
LEMMA GateInvMoves ==
  ASSUME GateInv, NEW h \in Handler, NEW j, Hands(h, j), HandOK(j), UNCHANGED <<log, ring>>, cut \subseteq cut', EditInv',
         j.at # "idle" => hand[h].at # "idle" /\ j.msg = hand[h].msg,
         j.at \in Before => Kept(j.msg) = {},
         j.at \in After => hand[h].at \in After,
         hand[h].at \in After /\ j.at \notin After => hand[h].msg \in cut'
  PROVE  GateInv'
<1>1. \A m : Kept(m)' = Kept(m) /\ Taken(m)' = Taken(m)
  BY DEF GateInv, Kept, Taken, Kind
<1>2. IsLog' /\ RingInv'
  BY DEF GateInv, IsLog, RingInv
<1>3. HandsInv'
  <2>1. \A g \in Handler : /\ hand'[g].at \in Before => Kept(hand'[g].msg) = {}
                           /\ hand'[g].at \in After => Kept(hand'[g].msg) # {} /\ Taken(hand'[g].msg) = {}
    <3>1. hand'[h] = j /\ \A g \in Handler : g # h => hand'[g] = hand[g]
      BY HandMoved
    <3>2. Found
      BY DEF GateInv, HandsInv
    <3>3. j.at \in After => Kept(j.msg) # {} /\ Taken(j.msg) = {}
      BY <3>2 DEF Found, After
    <3> QED
      BY <3>1, <3>2, <3>3 DEF Found
  <2> QED
    BY <1>1, <2>1, HandMoved DEF HandsInv, Found
<1>4. LogInv'
  <2>1. ASSUME NEW m \in Msg, m \notin cut', NEW g \in Handler, hand[g].at \in After, hand[g].msg = m
        PROVE  hand'[g].at \in After /\ hand'[g].msg = m
    BY <2>1, HandMoved DEF After
  <2> QED
    BY <1>1, <2>1 DEF GateInv, LogInv
<1> QED
  BY <1>2, <1>3, <1>4 DEF GateInv

LEMMA FreeIsOK == HandOK(Free)
  BY DEF HandOK, Free

-----------------------------------------------------------------------------
(* Steps *)

\* What is remembered last stays remembered.
LEMMA RingKeepsLast ==
  ASSUME RingInv, NEW m \in Msg, Remembers(m)
  PROVE  RingInv' /\ m \in Remembered'
<1> DEFINE more == Append(ring, m)
<1>1. SeenMax \in Nat /\ SeenDrop \in 1..SeenMax
  BY FeishuAssumption
<1>2. ring \in Seq(Msg) /\ Len(ring) \in Nat /\ Len(ring) <= SeenMax
  BY DEF RingInv
<1>3. more \in Seq(Msg) /\ Len(more) = Len(ring) + 1 /\ more[Len(ring) + 1] = m
  BY <1>2
<1> HIDE DEF more
<1>4. CASE Len(ring) < SeenMax
  <2>1. ring' = more
    BY <1>4 DEF Remembers, more
  <2>2. Len(ring) + 1 \in DOMAIN ring'
    BY <1>2, <1>3, <2>1
  <2> QED
    BY <1>1, <1>2, <1>3, <1>4, <2>1, <2>2 DEF RingInv, Remembered, ToSet
<1>5. CASE ~(Len(ring) < SeenMax)
  <2>0. ring' = SubSeq(more, SeenDrop + 1, SeenMax + 1)
    BY <1>5, Zenon DEF Remembers, more
  <2>1. Len(ring) = SeenMax /\ ring' = SubSeq(more, SeenDrop + 1, SeenMax + 1)
    BY <1>1, <1>2, <1>5, <2>0
  <2>2. ring' \in Seq(Msg) /\ Len(ring') = SeenMax - SeenDrop + 1 /\ ring'[SeenMax - SeenDrop + 1] = more[SeenMax + 1]
    BY <1>1, <1>3, <2>1
  <2>3. SeenMax - SeenDrop + 1 \in DOMAIN ring' /\ Len(ring') <= SeenMax
    BY <1>1, <2>2
  <2> QED
    BY <1>3, <2>1, <2>2, <2>3 DEF RingInv, Remembered, ToSet
<1> QED
  BY <1>4, <1>5

LEMMA GateInvDelivers ==
  ASSUME GateInv, EditInv', NEW h \in Handler, NEW m \in Msg, Delivers(h, m)
  PROVE  GateInv'
<1> DEFINE j == [at |-> "look", msg |-> m]
<1>1. /\ hand[h].at = "idle" /\ m \notin Remembered /\ Remembers(m) /\ Hands(h, j) /\ UNCHANGED <<log, cut>>
      /\ \A g \in Handler : hand[g].at # "idle" => hand[g].msg \in Remembered'
  BY DEF Delivers, Handling, Remembered
<1>2. RingInv' /\ m \in Remembered' /\ IsLog'
  BY <1>1, RingKeepsLast DEF GateInv, IsLog
<1>3. DOMAIN hand' = Handler /\ hand'[h] = j /\ \A g \in Handler : g # h => hand'[g] = hand[g]
  BY <1>1 DEF GateInv, HandsInv, Found, Hands
<1>4. \A n : Kept(n)' = Kept(n) /\ Taken(n)' = Taken(n)
  BY <1>1 DEF Kept, Taken, Kind
<1>5. \A g \in Handler : HandOK(hand[g])'
  BY <1>1, <1>2, <1>3 DEF GateInv, HandsInv, Found, HandOK
<1>6. \A f, g \in Handler : hand'[f].at # "idle" /\ hand'[g].at # "idle" /\ hand'[f].msg = hand'[g].msg => f = g
  BY <1>1, <1>3 DEF GateInv, HandsInv, Found, HandOK
<1>7. HandsInv'
  BY <1>3, <1>4, <1>5, <1>6 DEF GateInv, HandsInv, Found, Before, After
<1>8. LogInv'
  BY <1>1, <1>3, <1>4 DEF GateInv, LogInv, After
<1> QED
  BY <1>2, <1>7, <1>8 DEF GateInv

LEMMA GateInvGoesOn ==
  ASSUME GateInv, EditInv', NEW h \in Handler, Looks(h) \/ Judges(h) \/ Binds(h)
  PROVE  GateInv'
<1> DEFINE to(at) == [hand[h] EXCEPT !.at = at]
<1>1. /\ hand[h].at \in {"look", "judge", "bind"} /\ HandOK(hand[h]) /\ DOMAIN hand = Handler
      /\ UNCHANGED <<log, ring>> /\ cut \subseteq cut'
  BY DEF GateInv, HandsInv, Found, Looks, Judges, Binds, Handling, shared
<1>2. {"at", "msg"} \subseteq DOMAIN hand[h] /\ hand[h].msg \in Msg \cap Remembered
  BY <1>1 DEF HandOK
<1>3. ASSUME NEW at \in {"judge", "submit"}
      PROVE  to(at).at = at /\ to(at).msg = hand[h].msg /\ HandOK(to(at))
  BY <1>2 DEF HandOK
<1> HIDE DEF to
<1>4. CASE Looks(h)
  <2>1. hand[h].at = "look"
    BY <1>4 DEF Looks, Handling
  <2>2. CASE Hands(h, Free)
    BY <1>1, <2>1, <2>2, FreeIsOK, GateInvMoves DEF Free, Before, After
  <2>3. CASE ~Has("feishu", hand[h].msg) /\ Goes(h, "judge")
    <3>1. Kept(hand[h].msg) = {}
      BY <2>3 DEF Has, Kept
    <3>2. Hands(h, to("judge"))
      BY <2>3 DEF Goes, to
    <3> QED
      BY <1>1, <1>3, <2>1, <3>1, <3>2, GateInvMoves DEF Before, After
  <2> QED
    BY <1>4, <2>2, <2>3 DEF Looks
<1>5. CASE Judges(h)
  <2> DEFINE j == [at |-> "record", msg |-> hand[h].msg, ok |-> Allowed(hand[h].msg)]
  <2>1. hand[h].at = "judge" /\ Hands(h, j)
    BY <1>5 DEF Judges, Handling
  <2>2. j.at = "record" /\ j.msg = hand[h].msg /\ HandOK(j)
    BY <1>2 DEF HandOK
  <2>3. Kept(hand[h].msg) = {}
    BY <2>1 DEF GateInv, HandsInv, Found, Before
  <2> HIDE DEF j
  <2> QED
    BY <1>1, <2>1, <2>2, <2>3, GateInvMoves DEF Before, After
<1>6. CASE Binds(h)
  <2>1. hand[h].at = "bind"
    BY <1>6 DEF Binds, Handling
  <2>2. CASE Goes(h, "submit")
    <3>1. Hands(h, to("submit"))
      BY <2>2 DEF Goes, to
    <3> QED
      BY <1>1, <1>3, <2>1, <3>1, GateInvMoves DEF Before, After
  <2>3. CASE Hands(h, Free) /\ cut' = cut \cup {hand[h].msg}
    BY <1>1, <2>1, <2>3, FreeIsOK, GateInvMoves DEF Free, Before, After
  <2> QED
    BY <1>6, <2>2, <2>3 DEF Binds
<1> QED
  BY <1>4, <1>5, <1>6

\* The message is recorded: nobody else has it, and its record is its first.
LEMMA GateInvRecords ==
  ASSUME GateInv, EditInv', NEW h \in Handler, Records(h)
  PROVE  GateInv'
<1>0. PICK m : m = hand[h].msg
  OBVIOUS
<1> DEFINE e == [kind |-> "feishu", of |-> m]
           last == Len(log) + 1
<1>1. hand[h].at = "record" /\ HandOK(hand[h]) /\ DOMAIN hand = Handler /\ UNCHANGED <<ring, cut>>
  BY DEF GateInv, HandsInv, Found, Records, Handling
<1>2. {"at", "msg"} \subseteq DOMAIN hand[h] /\ m \in Msg /\ m \in Remembered /\ Kept(m) = {}
  BY <1>0, <1>1 DEF GateInv, HandsInv, Found, HandOK, Before
<1>3. CASE Hands(h, Free) /\ UNCHANGED log
  BY <1>1, <1>3, FreeIsOK, GateInvMoves DEF Free, Before, After
<1>4. ASSUME Record(e), NEW j, Hands(h, j), HandOK(j), j.at \in {"idle", "act"},
             j.at = "act" => j.msg = m, j.at = "idle" => m \in Wordless
      PROVE  GateInv'
  <2>1. IsLog' /\ RingInv'
    BY <1>1, <1>4, Recorded DEF GateInv, RingInv
  <2>2. /\ Kept(m)' = {last} /\ Taken(m)' = Taken(m)
        /\ \A n : n # m => Kept(n)' = Kept(n) /\ Taken(n)' = Taken(n)
    BY <1>2, <1>4, MoreKept DEF GateInv
  <2>3. Taken(m) = {}
    BY <1>2 DEF GateInv, LogInv
  <2>4. \A g \in Handler : g # h /\ hand[g].at # "idle" => hand[g].msg # m
    BY <1>0, <1>1 DEF GateInv, HandsInv, Found
  <2> HIDE DEF e, last
  <2>5. HandsInv'
    <3>1. j.at # "idle" => hand[h].at # "idle" /\ j.msg = hand[h].msg
      BY <1>0, <1>1, <1>4
    <3>2. /\ DOMAIN hand' = Handler /\ hand'[h] = j /\ \A g \in Handler : g # h => hand'[g] = hand[g]
          /\ \A g \in Handler : HandOK(hand[g])'
          /\ \A f, g \in Handler : hand'[f].at # "idle" /\ hand'[g].at # "idle" /\ hand'[f].msg = hand'[g].msg => f = g
      BY <1>1, <1>4, <3>1, HandMoved
    <3>3. Found'
      BY <1>4, <2>2, <2>3, <2>4, <3>2 DEF GateInv, HandsInv, Found, Before, After
    <3> QED
      BY <3>2, <3>3 DEF HandsInv
  <2>6. LogInv'
    <3>1. hand'[h] = j /\ \A g \in Handler : g # h => hand'[g] = hand[g]
      BY <1>1, <1>4 DEF Hands
    <3>2. ASSUME NEW n \in Msg, n # m, NEW g \in Handler, hand[g].at \in After, hand[g].msg = n
          PROVE  hand'[g].at \in After /\ hand'[g].msg = n
      BY <1>0, <1>1, <3>1, <3>2 DEF After
    <3>3. ASSUME NEW n \in Msg, n # m
          PROVE  /\ \A i, k \in Kept(n)' : i = k
                 /\ \A i, k \in Taken(n)' : i = k
                 /\ \A i \in Taken(n)' : \E k \in Kept(n)' : k < i
                 /\ Kept(n)' # {} /\ Taken(n)' = {} /\ n \notin Wordless \cup cut'
                      => \E g \in Handler : hand'[g].at \in After /\ hand'[g].msg = n
      BY <1>1, <2>2, <3>2, <3>3 DEF GateInv, LogInv
    <3>4. m \notin Wordless => hand'[h].at \in After /\ hand'[h].msg = m
      BY <1>4, <3>1 DEF After
    <3> QED
      BY <2>2, <2>3, <3>3, <3>4 DEF LogInv
  <2> QED
    BY <2>1, <2>5, <2>6 DEF GateInv
<1>5. CASE Record(e) /\ m \in Wordless /\ Hands(h, Free)
  <2>1. HandOK(Free) /\ Free.at = "idle"
    BY FreeIsOK DEF Free
  <2> QED
    BY <1>4, <1>5, <2>1
<1>6. CASE Record(e) /\ m \notin Wordless /\ Goes(h, "act")
  <2> DEFINE j == [hand[h] EXCEPT !.at = "act"]
  <2>1. HandOK(j) /\ j.at = "act" /\ j.msg = m
    BY <1>0, <1>2 DEF HandOK
  <2>2. Hands(h, j)
    BY <1>6 DEF Goes
  <2> HIDE DEF j
  <2> QED
    BY <1>4, <1>6, <2>1, <2>2
<1> QED
  BY <1>0, <1>3, <1>5, <1>6 DEF Records

\* The message is submitted or recorded as ignored, and its goroutine is done.
LEMMA GateInvTakes ==
  ASSUME GateInv, EditInv', NEW h \in Handler, hand[h].at \in After, Hands(h, Free),
         NEW e, Record(e), e.kind \in {"user", "ignored"}, e.of = hand[h].msg, UNCHANGED <<ring, cut>>
  PROVE  GateInv'
<1>0. PICK m : m = hand[h].msg
  OBVIOUS
<1> DEFINE last == Len(log) + 1
<1>1. IsLog' /\ RingInv'
  BY Recorded DEF GateInv, RingInv
<1>2. m \in Msg /\ Kept(m) # {} /\ Taken(m) = {}
  BY <1>0 DEF GateInv, HandsInv, Found, HandOK, After
<1>3. /\ Kept(m)' = Kept(m) /\ Taken(m)' = {last}
      /\ \A n : n # m => Kept(n)' = Kept(n) /\ Taken(n)' = Taken(n)
  BY <1>0, <1>2, MoreKept DEF GateInv
<1>4. \A k \in Kept(m) : k < last
  BY KeptIsOld DEF GateInv
<1>5. \A g \in Handler : g # h /\ hand[g].at # "idle" => hand[g].msg # m
  BY <1>0 DEF GateInv, HandsInv, Found, After
<1>6. /\ DOMAIN hand' = Handler /\ hand'[h] = Free /\ \A g \in Handler : g # h => hand'[g] = hand[g]
      /\ \A g \in Handler : HandOK(hand[g])'
      /\ \A f, g \in Handler : hand'[f].at # "idle" /\ hand'[g].at # "idle" /\ hand'[f].msg = hand'[g].msg => f = g
  BY FreeIsOK, HandMoved DEF Free
<1> HIDE DEF last
<1>7. HandsInv'
  <2>1. Found'
    BY <1>3, <1>5, <1>6 DEF GateInv, HandsInv, Found, Before, After, Free
  <2> QED
    BY <1>6, <2>1 DEF HandsInv
<1>8. LogInv'
  <2>1. ASSUME NEW n \in Msg, n # m, NEW g \in Handler, hand[g].at \in After, hand[g].msg = n
        PROVE  hand'[g].at \in After /\ hand'[g].msg = n
    BY <1>0, <1>6, <2>1
  <2>2. ASSUME NEW n \in Msg, n # m
        PROVE  /\ \A i, k \in Kept(n)' : i = k
               /\ \A i, k \in Taken(n)' : i = k
               /\ \A i \in Taken(n)' : \E k \in Kept(n)' : k < i
               /\ Kept(n)' # {} /\ Taken(n)' = {} /\ n \notin Wordless \cup cut'
                    => \E g \in Handler : hand'[g].at \in After /\ hand'[g].msg = n
    BY <1>3, <2>1, <2>2 DEF GateInv, LogInv
  <2>3. /\ \A i, k \in Kept(m)' : i = k
        /\ \A i, k \in Taken(m)' : i = k
        /\ \A i \in Taken(m)' : \E k \in Kept(m)' : k < i
        /\ Taken(m)' # {}
    BY <1>2, <1>3, <1>4 DEF GateInv, LogInv
  <2> QED
    BY <2>2, <2>3 DEF LogInv
<1> QED
  BY <1>1, <1>7, <1>8 DEF GateInv

LEMMA GateInvActs ==
  ASSUME GateInv, EditInv', NEW h \in Handler, Acts(h) \/ Submits(h)
  PROVE  GateInv'
<1> DEFINE m == hand[h].msg
           to(at) == [hand[h] EXCEPT !.at = at]
<1>1. hand[h].at \in {"act", "submit"} /\ hand[h].at \in After /\ HandOK(hand[h]) /\ ring' = ring
  BY DEF GateInv, HandsInv, Found, Acts, Submits, Handling, After
<1>2. {"at", "msg"} \subseteq DOMAIN hand[h] /\ m \in Msg /\ m \in Remembered
  BY <1>1 DEF HandOK
<1>3. CASE Acts(h) /\ ~hand[h].ok
  <2> DEFINE e == [kind |-> "ignored", of |-> m]
  <2>1. Record(e) /\ Hands(h, Free) /\ cut' = cut /\ e.kind = "ignored" /\ e.of = m
    BY <1>3 DEF Acts
  <2> HIDE DEF e
  <2> QED
    BY <1>1, <2>1, GateInvTakes
<1>4. CASE Acts(h) /\ hand[h].ok
  <2>1. PICK at \in {"bind", "submit"} : Goes(h, at)
    BY <1>4 DEF Acts
  <2>2. Hands(h, to(at)) /\ UNCHANGED <<log, cut>>
    BY <1>4, <2>1 DEF Goes, Acts
  <2>3. to(at).at = at /\ to(at).msg = m /\ HandOK(to(at))
    BY <1>2 DEF HandOK
  <2> HIDE DEF to
  <2> QED
    BY <1>1, <2>2, <2>3, GateInvMoves DEF Before, After
<1>5. CASE Submits(h)
  <2> DEFINE e == [kind |-> "user", of |-> m, item |-> Target(m)]
  <2>1. e.kind = "user" /\ e.of = m /\ Hands(h, Free)
    BY <1>5 DEF Submits
  <2>2. (Record(e) /\ cut' = cut) \/ (cut' = cut \cup {m} /\ log' = log)
    BY <1>5 DEF Submits
  <2> HIDE DEF e
  <2>3. CASE Record(e) /\ cut' = cut
    BY <1>1, <2>1, <2>3, GateInvTakes
  <2>4. CASE cut' = cut \cup {m} /\ log' = log
    BY <1>1, <2>1, <2>4, FreeIsOK, GateInvMoves DEF Free, Before, After
  <2> QED
    BY <2>2, <2>3, <2>4
<1> QED
  BY <1>3, <1>4, <1>5

\* The outbox records nothing but errors.
LEMMA GateInvOutbox ==
  ASSUME GateInv, EditInv',
         OutboxStarts \/ OutboxTail \/ OutboxReads \/ OutboxRoutes \/ OutboxOpens \/ OutboxBinds
           \/ OutboxSends \/ OutboxFails \/ OutboxCommits
  PROVE  GateInv'
<1>1. CASE OutboxFails
  <2> DEFINE e == [kind |-> "error", of |-> Head(out.batch)]
  <2>1. e.kind = "error" /\ UNCHANGED <<ring, hand>> /\ cut \subseteq cut' /\ (Record(e) \/ log' = log)
    BY <1>1 DEF OutboxFails
  <2> HIDE DEF e
  <2> QED
    BY <2>1, GateInvStays, GateInvOthers
<1>2. CASE UNCHANGED <<log, ring, hand, cut>>
  BY <1>2, GateInvStays
<1> QED
  BY <1>1, <1>2 DEF OutboxStarts, OutboxTail, OutboxReads, OutboxRoutes, OutboxOpens, OutboxBinds,
                    OutboxSends, OutboxCommits, shared

LEMMA GateInvFeishu == GateInv /\ FeishuNext /\ UNCHANGED memoryVars => GateInv'
<1> SUFFICES ASSUME GateInv, FeishuNext, UNCHANGED memoryVars  PROVE GateInv'
  OBVIOUS
<1>1. EditInv'
  BY DEF GateInv, EditInv, EditOK, memoryVars
<1>2. ASSUME NEW h \in Handler, Looks(h) \/ Judges(h) \/ Binds(h)  PROVE GateInv'
  BY <1>1, <1>2, GateInvGoesOn
<1>3. ASSUME NEW h \in Handler, Acts(h) \/ Submits(h)  PROVE GateInv'
  BY <1>1, <1>3, GateInvActs
<1>4. ASSUME NEW h \in Handler, Records(h)  PROVE GateInv'
  BY <1>1, <1>4, GateInvRecords
<1>5. ASSUME NEW h \in Handler, NEW m \in Msg, Delivers(h, m)  PROVE GateInv'
  BY <1>1, <1>5, GateInvDelivers
<1> QED
  BY <1>1, <1>2, <1>3, <1>4, <1>5, GateInvOutbox DEF FeishuNext

\* The writers of the memory files record their changes, the distiller's reconciliation what it lists.
LEMMA EditInvStep ==
  ASSUME EditInv, MemoryNext
  PROVE  EditInv'
<1>1. DOMAIN edit = Writer /\ \A w \in Writer : EditOK(edit[w])
  BY DEF EditInv
<1>2. ASSUME NEW w \in Writer, NEW j, edit' = [edit EXCEPT ![w] = j], EditOK(j)
      PROVE  EditInv'
  BY <1>1, <1>2 DEF EditInv, EditOK
<1>3. CASE edit' = edit
  BY <1>3 DEF EditInv, EditOK
<1>4. ASSUME NEW w \in Writer, NEW how \in {"done", "failed"}, Ends(w, how)
      PROVE  EditInv'
  <2> DEFINE j == [at |-> IF w = Distiller THEN how ELSE "idle"]
  <2>1. EditOK(j)
    BY DEF EditOK
  <2>2. edit' = [edit EXCEPT ![w] = j]
    BY <1>4 DEF Ends
  <2> HIDE DEF j
  <2> QED
    BY <1>2, <2>1, <2>2
<1>5. ASSUME NEW w \in Writer, NEW layer, NEW to, NEW e, Begins(w, layer, to, e), e.kind \in {"promoted", "forgotten"}
      PROVE  EditInv'
  <2> DEFINE j == [at |-> "write", layer |-> layer, base |-> file[layer], to |-> to, record |-> e]
  <2>1. EditOK(j)
    BY <1>5 DEF EditOK
  <2>2. edit' = [edit EXCEPT ![w] = j]
    BY <1>5 DEF Begins
  <2> HIDE DEF j
  <2> QED
    BY <1>2, <2>1, <2>2
<1>6. ASSUME NEW w \in Writer, NEW layer, NEW what, BeginsEntry(w, layer, what)
      PROVE  EditInv'
  <2> DEFINE e == [kind |-> "promoted", of |-> issued + 1]
  <2>1. Begins(w, layer, file[layer] \cup {Entry(what, w)}, e) /\ e.kind = "promoted"
    BY <1>6 DEF BeginsEntry
  <2> HIDE DEF e
  <2> QED
    BY <1>5, <2>1
<1>7. ASSUME NEW w \in Writer, WritesFile(w)
      PROVE  EditInv'
  <2>1. edit[w].at = "write" /\ EditOK(edit[w])
    BY <1>1, <1>7 DEF WritesFile, Editing
  <2>2. CASE edit' = [edit EXCEPT ![w].at = "log"]
    <3> DEFINE j == [edit[w] EXCEPT !.at = "log"]
    <3>1. EditOK(j)
      BY <2>1 DEF EditOK
    <3>2. edit' = [edit EXCEPT ![w] = j]
      BY <2>2
    <3> HIDE DEF j
    <3> QED
      BY <1>2, <3>1, <3>2
  <2> QED
    BY <1>4, <1>7, <2>2 DEF WritesFile
<1>8. ASSUME NEW w \in Writer, LogsChange(w)
      PROVE  EditInv'
  BY <1>4, <1>8 DEF LogsChange
<1>9. ASSUME NEW w \in Editor, NEW what, Adds(w, what)
      PROVE  EditInv'
  BY <1>6, <1>9 DEF Adds, Writer
<1>10. ASSUME NEW w \in Editor, NEW layer, NEW f, Forgets(w, layer, f)
       PROVE  EditInv'
  <2> DEFINE e == [kind |-> "forgotten", of |-> f.id]
  <2>1. Begins(w, layer, file[layer] \ {f}, e) /\ e.kind = "forgotten" /\ w \in Writer
    BY <1>10 DEF Forgets, Writer
  <2> HIDE DEF e
  <2> QED
    BY <1>5, <2>1
<1>11. CASE DistillCopies
  BY <1>6, <1>11 DEF DistillCopies, Writer
<1>12. CASE DistillPromoted
  <2>1. EditOK(Rests)
    BY DEF EditOK, Rests
  <2> QED
    BY <1>2, <1>12, <2>1 DEF DistillPromoted, Writer
<1>13. CASE \E n \in DOMAIN log : RedactMessage(n)
  BY <1>3, <1>13 DEF RedactMessage, memoryVars
<1>14. CASE DistillReads \/ DistillLooks \/ DistillLists \/ DistillReconciles \/ DistillThinks \/ DistillWeighs
              \/ DistillSkips \/ DistillChecks \/ DistillCommits
  BY <1>3, <1>14 DEF DistillReads, DistillLooks, DistillLists, DistillReconciles, DistillThinks, DistillWeighs,
                     DistillSkips, DistillChecks, DistillCommits
<1> QED
  BY <1>7, <1>8, <1>9, <1>10, <1>11, <1>12, <1>13, <1>14 DEF MemoryNext

LEMMA MemoryRecords ==
  ASSUME EditInv, MemoryNext
  PROVE  log' = log \/ \E e : Record(e) /\ e.kind \in {"promoted", "forgotten", "redacted"}
<1>1. ASSUME NEW w \in Writer, LogsChange(w)
      PROVE  log' = log \/ \E e : Record(e) /\ e.kind \in {"promoted", "forgotten", "redacted"}
  BY <1>1 DEF EditInv, EditOK, LogsChange, Editing
<1>2. ASSUME NEW n, RedactMessage(n)
      PROVE  \E e : Record(e) /\ e.kind \in {"promoted", "forgotten", "redacted"}
  <2> DEFINE e == [kind |-> "redacted", of |-> n]
  <2>1. Record(e) /\ e.kind = "redacted"
    BY <1>2 DEF RedactMessage
  <2> HIDE DEF e
  <2> QED
    BY <2>1
<1>3. CASE DistillReconciles
  <2> DEFINE e == [kind |-> "promoted", of |-> Head(dist.todo)]
  <2>1. e.kind = "promoted" /\ (log' = log \/ Record(e))
    BY <1>3 DEF DistillReconciles
  <2> HIDE DEF e
  <2> QED
    BY <2>1
<1>4. CASE \E w \in Writer : WritesFile(w)
  BY <1>4 DEF WritesFile
<1>5. CASE \E w \in Editor : \/ \E what \in What : Adds(w, what)
                             \/ \E layer \in Layer : \E f \in file[layer] : Forgets(w, layer, f)
  BY <1>5 DEF Adds, Forgets
<1>6. CASE DistillReads \/ DistillLooks \/ DistillLists \/ DistillThinks \/ DistillWeighs
             \/ DistillSkips \/ DistillChecks \/ DistillCopies \/ DistillPromoted \/ DistillCommits
  BY <1>6 DEF DistillReads, DistillLooks, DistillLists, DistillThinks, DistillWeighs,
              DistillSkips, DistillChecks, DistillCopies, DistillPromoted, DistillCommits, shared
<1> QED
  BY <1>1, <1>2, <1>3, <1>4, <1>5, <1>6 DEF MemoryNext

LEMMA SchedRecords ==
  ASSUME SchedNext
  PROVE  log' = log \/ \E e : Record(e) /\ e.kind \in {"prompt", "http"}
<1>1. ASSUME NEW f \in Firer, Runs(f)
      PROVE  log' = log \/ \E e : Record(e) /\ e.kind \in {"prompt", "http"}
  <2> DEFINE p == [kind |-> "prompt", of |-> job[f].id]
             h == [kind |-> "http", of |-> job[f].id, wake |-> job[f].row.action = "wake"]
  <2>1. p.kind = "prompt" /\ h.kind = "http" /\ (log' = log \/ Record(p) \/ Record(h))
    BY <1>1 DEF Runs
  <2> HIDE DEF p, h
  <2> QED
    BY <2>1
<1>2. CASE \E f \in Firer : Fires(f) \/ MarkReads(f) \/ MarkWrites(f)
  BY <1>2 DEF Fires, MarkReads, MarkWrites
<1>3. CASE \E c \in Caller, s \in Sched : RunNow(c, s) \/ DeleteSchedule(c, s)
                                    \/ (\E d \in Definitions : CreateSchedule(c, s, d))
                                    \/ (\E patch \in Patches : UpdateReads(c, s, patch))
  BY <1>3 DEF RunNow, DeleteSchedule, CreateSchedule, UpdateReads
<1>4. CASE Tick \/ (\E d \in due : TickTakes(d)) \/ (\E c \in Caller : UpdateWrites(c)) \/ Passes
  BY <1>4 DEF Tick, TickTakes, UpdateWrites, Passes, shared
<1> QED
  BY <1>1, <1>2, <1>3, <1>4 DEF SchedNext

\* What a crash takes is remembered as cut short.
LEMMA GateInvCrash == GateInv /\ Crash => GateInv'
<1> SUFFICES ASSUME GateInv, Crash  PROVE GateInv'
  OBVIOUS
<1>1. log' = log /\ ring' = <<>> /\ hand' = [h \in Handler |-> Free] /\ edit' = [w \in Writer |-> Rests]
  BY DEF Crash, FeishuForgets, MemoryForgets
<1>2. cut' = cut \cup {hand[h].msg : h \in {g \in Handler : hand[g].at \in After}}
  BY DEF Crash, FeishuForgets, After
<1>3. \A m : Kept(m)' = Kept(m) /\ Taken(m)' = Taken(m)
  BY <1>1 DEF Kept, Taken, Kind
<1>4. IsLog' /\ RingInv' /\ EditInv'
  BY <1>1, FeishuAssumption DEF GateInv, IsLog, RingInv, EditInv, EditOK, Rests
<1>5. HandsInv'
  BY <1>1 DEF HandsInv, Found, HandOK, Free, Before, After
<1>6. \A h \in Handler : hand[h].at \in After => hand[h].msg \in cut'
  BY <1>2
<1>7. cut \subseteq cut'
  BY <1>2
<1>8. LogInv'
  BY <1>3, <1>6, <1>7 DEF GateInv, LogInv
<1> QED
  BY <1>4, <1>5, <1>8 DEF GateInv

LEMMA GateInvStep == GateInv /\ [Next]_vars => GateInv'
<1> SUFFICES ASSUME GateInv, [Next]_vars  PROVE GateInv'
  OBVIOUS
<1>1. ASSUME UNCHANGED feishuVars, EditInv',
             log' = log \/ \E e : Record(e) /\ e.kind \notin {"feishu", "user", "ignored"}
      PROVE  GateInv'
  BY <1>1, GateInvStays, GateInvOthers DEF feishuVars
<1>2. UNCHANGED memoryVars => EditInv'
  BY DEF GateInv, EditInv, EditOK, memoryVars
<1>3. CASE SchedNext /\ UNCHANGED <<feishuVars, memoryVars, tri>>
  BY <1>1, <1>2, <1>3, SchedRecords
<1>4. CASE FeishuNext /\ UNCHANGED <<schedVars, memoryVars, tri>>
  BY <1>4, GateInvFeishu
<1>5. CASE MemoryNext /\ UNCHANGED <<schedVars, feishuVars, tri>>
  BY <1>1, <1>5, MemoryRecords, EditInvStep DEF GateInv
<1>6. CASE TriageReads \/ TriageDecides \/ TriageCommits
  <2>1. UNCHANGED <<feishuVars, memoryVars>>
    BY <1>6 DEF TriageReads, TriageDecides, TriageCommits
  <2>2. Decision.kind = "decision"
    BY DEF Decision
  <2>3. log' = log \/ Record(Decision)
    BY <1>6 DEF TriageReads, TriageDecides, TriageCommits
  <2> QED
    BY <1>1, <1>2, <2>1, <2>2, <2>3
<1>7. CASE Heartbeat \/ Webhook
  <2>1. PICK kind \in {"heartbeat", "webhook"} : Captures(kind)
    BY <1>7 DEF Heartbeat, Webhook
  <2> DEFINE e == [kind |-> kind, of |-> None]
  <2>2. Record(e) /\ e.kind = kind /\ UNCHANGED <<feishuVars, memoryVars>>
    BY <2>1 DEF Captures
  <2> HIDE DEF e
  <2> QED
    BY <1>1, <1>2, <2>2
<1>8. ASSUME NEW n, NEW i, NEW parts, Answers(n, i, parts)
      PROVE  GateInv'
  <2> DEFINE e == [kind |-> "reply", of |-> n, item |-> i, parts |-> parts]
  <2>1. Record(e) /\ e.kind = "reply" /\ UNCHANGED <<feishuVars, memoryVars>>
    BY <1>8 DEF Answers
  <2> HIDE DEF e
  <2> QED
    BY <1>1, <1>2, <2>1
<1>9. CASE Crash
  BY <1>9, GateInvCrash
<1>10. CASE Start
  BY <1>1, <1>2, <1>10 DEF Start
<1>11. CASE UNCHANGED vars
  BY <1>1, <1>2, <1>11 DEF vars, shared
<1> QED
  BY <1>3, <1>4, <1>5, <1>6, <1>7, <1>8, <1>9, <1>10, <1>11 DEF Next

LEMMA AtMostOne ==
  ASSUME NEW S, \A n, k \in S : n = k
  PROVE  Cardinality(S) <= 1
<1>1. CASE S = {}
  BY <1>1, FS_EmptySet
<1>2. CASE S # {}
  <2>1. PICK n : S = {n}
    BY <1>2
  <2>2. Cardinality({n}) = 1
    BY FS_Singleton
  <2> QED
    BY <2>1, <2>2
<1> QED
  BY <1>1, <1>2

\* A message of the person is recorded once and submitted at most once, after it is recorded, and
\* only a failure or a crash keeps it from being submitted or ignored (feishu.go:254-288), however
\* often it is delivered, by however many goroutines and in however many lives of the program.
THEOREM MessagesTakenOnce == Spec => []TakenOnce
<1>1. GateInv => TakenOnce
  <2> SUFFICES ASSUME GateInv, NEW m \in Msg
               PROVE  /\ Cardinality(Kept(m)) <= 1 /\ Cardinality(Taken(m)) <= 1
                      /\ \A n \in Taken(m) : \E k \in Kept(m) : k < n
                      /\ Kept(m) # {} /\ Taken(m) = {} /\ m \notin Wordless \cup cut
                           => \E h \in Handler : hand[h].at # "idle" /\ hand[h].msg = m
    BY DEF TakenOnce
  <2>1. Cardinality(Kept(m)) <= 1 /\ Cardinality(Taken(m)) <= 1
    BY AtMostOne DEF GateInv, LogInv
  <2> QED
    BY <2>1 DEF GateInv, LogInv, After
<1> QED
  BY <1>1, GateInvInit, GateInvStep, PTL DEF Spec

-----------------------------------------------------------------------------
(* CONSUMERS THAT KEEP UP                                                   *)

(* The invariant *)

\* Triage: what it is at, what is decided up to there, and where the last decision can stand.
TriDecided ==
  \A n \in DOMAIN log :
    n <= cursor.triage \/ (n = cursor.triage + 1 /\ tri.at = "commit") => (NeedsTriage(log[n]) => Decided(n))
TriOrder ==
  /\ \A d \in Kind("decision") :
       /\ log[d].of \in Nat /\ log[d].of <= cursor.triage + 1 /\ log[d].breaks \in Nat /\ log[d].breaks <= breaks
       /\ log[d].of = cursor.triage + 1 /\ tri.at # "commit" => log[d].breaks < breaks
  /\ \A d, e \in Kind("decision") :
       d < e => log[d].of < log[e].of \/ (log[d].of = log[e].of /\ log[d].breaks < log[e].breaks)
TriInv ==
  /\ breaks \in Nat /\ cursor.triage \in Nat /\ cursor.triage <= Len(log)
  /\ tri.at \in {"idle", "decide", "commit"}
  /\ tri.at # "idle" => /\ DOMAIN tri = {"at", "batch"} /\ tri.batch \subseteq DOMAIN log
                        /\ cursor.triage + 1 \in tri.batch
  /\ TriDecided /\ TriOrder

\* The outbox is at an answer in these places.
Busy == {"route", "open", "bind", "send", "fail", "commit"}
Personal(n) == log[log[n].of].kind = "user"
Settled(n) == SentWhole(n) \/ Has("error", n) \/ n \in cut

\* What has been sent of the answer it is at, in this stretch without an interruption.
Past(o, part) ==
  \/ o.at \in {"fail", "commit"}
  \/ o.at = "bind" /\ part = 0
  \/ o.at = "send" /\ part < o.part

\* Its batch holds every answer from the cursor on, in order.
BatchOK ==
  /\ DOMAIN out = {"at", "batch", "part", "to"} /\ out.batch \in Seq(Nat) /\ out.batch # <<>> /\ out.part \in Nat
  /\ \A i \in DOMAIN out.batch : out.batch[i] \in Kind("reply") /\ cursor.outbox < out.batch[i]
  /\ \A i, j \in DOMAIN out.batch : i < j => out.batch[i] < out.batch[j]
  /\ \A n \in Kind("reply"), i \in DOMAIN out.batch :
       cursor.outbox < n /\ n <= out.batch[i] => \E j \in DOMAIN out.batch : out.batch[j] = n
AnswerOK ==
  /\ out.at \in {"route", "open", "bind"} => out.part = 1
  /\ out.at = "commit" /\ Personal(Head(out.batch)) => Settled(Head(out.batch))

\* What was sent is of answers up to the one it is at.
SentOK ==
  /\ \E S : sent \in Seq(S)
  /\ \A k \in DOMAIN sent : sent[k].of \in DOMAIN log /\ sent[k].part \in Nat /\ sent[k].breaks \in Nat /\ sent[k].breaks <= breaks
  /\ InOrder(sent)
SentTo ==
  \A k \in DOMAIN sent :
    /\ \A n \in Kind("reply") : cursor.outbox < n => sent[k].of <= n
    /\ cursor.outbox < sent[k].of => sent[k].breaks < breaks \/ Past(out, sent[k].part)

OutSettled == \A n \in Kind("reply") : tail < n /\ n <= cursor.outbox /\ Personal(n) => Settled(n)

OutInv ==
  /\ breaks \in Nat /\ tail \in Nat /\ cursor.outbox \in Nat \cup {None}
  /\ "at" \in DOMAIN out /\ out.at \in {"idle", "tail"} \cup Busy
  /\ cursor.outbox # None => cursor.outbox <= Len(log)
  /\ out.at = "tail" => cursor.outbox = None /\ out.last \in Nat /\ out.last <= Len(log)
  /\ cursor.outbox = None => sent = <<>> /\ out.at \notin Busy
  /\ \A n \in Kind("reply") : log[n].of \in DOMAIN log
  /\ \A n \in Kind("user") : log[n].of \in Msg
  /\ out.at \in Busy => BatchOK /\ AnswerOK
  /\ SentOK /\ (cursor.outbox # None => SentTo /\ OutSettled)
CursorInv == DOMAIN cursor = {"triage", "outbox", "distiller"}

KeepInv == CursorInv /\ TriInv /\ OutInv

-----------------------------------------------------------------------------
(* The log, and what is picked from it *)

\* A finite set of places in order: by rank, every one of them once (EventLog.Ordered).
LEMMA Ranked ==
  ASSUME NEW S, S \in SUBSET Nat, IsFiniteSet(S)
  PROVE  /\ Ordered(S) \in Seq(S) /\ Cardinality(S) \in Nat /\ Len(Ordered(S)) = Cardinality(S)
         /\ DOMAIN Ordered(S) = 1..Cardinality(S)
         /\ \A k \in 1..Cardinality(S) : Ordered(S)[k] \in S /\ Cardinality({m \in S : m <= Ordered(S)[k]}) = k
         /\ \A n \in S : \E k \in 1..Cardinality(S) : Ordered(S)[k] = n
         /\ \A j, k \in 1..Cardinality(S) : j < k => Ordered(S)[j] < Ordered(S)[k]
<1> DEFINE rank == [n \in S |-> Cardinality({m \in S : m <= n})]
<1>1. \A n \in S : n \in Nat
  OBVIOUS
<1>2. Cardinality(S) \in Nat
  BY FS_CardinalityType
<1>3. \A n \in S : /\ IsFiniteSet({m \in S : m <= n})
                   /\ rank[n] \in 1..Cardinality(S)
  <2> TAKE n \in S
  <2>1. {m \in S : m <= n} \in SUBSET S /\ n \in {m \in S : m <= n}
    OBVIOUS
  <2>2. /\ IsFiniteSet({m \in S : m <= n})
        /\ Cardinality({m \in S : m <= n}) <= Cardinality(S)
        /\ Cardinality({m \in S : m <= n}) \in Nat
    BY <1>2, <2>1, FS_Subset, FS_CardinalityType
  <2>3. Cardinality({m \in S : m <= n}) # 0
    BY <2>1, <2>2, FS_EmptySet
  <2> QED
    BY <1>2, <2>2, <2>3
<1>4. \A m, n \in S : m < n => rank[m] < rank[n]
  <2> TAKE m, n \in S
  <2> HAVE m < n
  <2>1. {x \in S : x <= m} \in SUBSET {x \in S : x <= n}
    <3>1. \A x \in S : x <= m => x <= n
      BY <1>1
    <3> QED
      BY <3>1
  <2>2. n \in {x \in S : x <= n} /\ n \notin {x \in S : x <= m}
    BY <1>1
  <2>3. {x \in S : x <= m} # {x \in S : x <= n}
    BY <2>2
  <2>4. rank[m] \in Nat /\ rank[n] \in Nat /\ rank[m] <= rank[n] /\ rank[m] # rank[n]
    BY <1>2, <1>3, <2>1, <2>3, FS_Subset
  <2> QED
    BY <2>4
<1>5. rank \in Injection(S, 1..Cardinality(S))
  <2>1. rank \in [S -> 1..Cardinality(S)]
    BY <1>3
  <2>2. \A m, n \in S : rank[m] = rank[n] => m = n
    <3>1. \A n \in S : rank[n] \in Nat
      BY <1>2, <1>3
    <3> HIDE DEF rank
    <3> QED
      BY <1>4, <3>1
  <2> HIDE DEF rank
  <2> QED
    BY <2>1, <2>2 DEF Injection, IsInjective
<1>6. rank \in Surjection(S, 1..Cardinality(S))
  <2>1. IsFiniteSet(1..Cardinality(S)) /\ Cardinality(1..Cardinality(S)) = Cardinality(S)
    BY <1>2, FS_Interval
  <2> HIDE DEF rank
  <2> QED
    BY <1>5, <2>1, FS_Injection
<1>7. \A k \in 1..Cardinality(S) : \E n \in S : rank[n] = k
  <2> HIDE DEF rank
  <2> QED
    BY <1>6 DEF Surjection
<1> DEFINE at(k) == CHOOSE n \in S : Cardinality({m \in S : m <= n}) = k
           o == [k \in 1..Cardinality(S) |-> at(k)]
<1>8. \A k \in 1..Cardinality(S) : at(k) \in S /\ rank[at(k)] = k
  BY <1>7
<1>9. \A k \in 1..Cardinality(S) : at(k) \in S /\ Cardinality({m \in S : m <= at(k)}) = k
  BY <1>7
<1>10. Ordered(S) = o
  BY DEF Ordered
<1> HIDE DEF at
<1>11. \A j, k \in 1..Cardinality(S) : j < k => at(j) < at(k)
  <2> TAKE j, k \in 1..Cardinality(S)
  <2> HAVE j < k
  <2>1. PICK a \in Nat, b \in Nat : a = at(j) /\ b = at(k) /\ a \in S /\ b \in S /\ rank[a] = j /\ rank[b] = k
    BY <1>8
  <2>2. ~(b < a) /\ a # b
    <3> HIDE DEF rank
    <3>1. b < a => k < j
      BY <1>4, <2>1
    <3> QED
      BY <1>2, <2>1, <3>1
  <2> QED
    BY <2>1, <2>2
<1>12. \A n \in S : \E k \in 1..Cardinality(S) : at(k) = n
  <2> TAKE n \in S
  <2>1. PICK k \in 1..Cardinality(S) : k = rank[n]
    BY <1>3
  <2>2. at(k) \in S /\ rank[at(k)] = rank[n]
    BY <1>8, <2>1
  <2>3. at(k) = n
    <3>1. at(k) \in Nat /\ n \in Nat /\ at(k) \in S
      BY <1>1, <2>2
    <3>2. \A m, x \in S : m < x => rank[m] # rank[x]
      <4>1. \A x \in S : rank[x] \in Nat
        BY <1>2, <1>3
      <4> HIDE DEF rank
      <4> QED
        BY <1>4, <4>1
    <3> HIDE DEF rank
    <3>3. ~(at(k) < n) /\ ~(n < at(k))
      BY <2>2, <3>2
    <3> QED
      BY <2>2, <3>1, <3>3
  <2> QED
    BY <2>3
<1>13. o \in Seq(S) /\ Len(o) = Cardinality(S) /\ DOMAIN o = 1..Cardinality(S)
  <2>1. \A k \in 1..Cardinality(S) : at(k) \in S
    BY <1>8
  <2>2. o \in [1..Cardinality(S) -> S]
    BY <2>1
  <2> HIDE DEF o
  <2> QED
    BY <1>2, <2>2
<1>14. \A k \in 1..Cardinality(S) : o[k] = at(k)
  OBVIOUS
<1> HIDE DEF o
<1> QED
  BY <1>2, <1>9, <1>10, <1>11, <1>12, <1>13, <1>14

\* One of them is first.
LEMMA FirstRank ==
  ASSUME NEW S, S \in SUBSET Nat, IsFiniteSet(S), S # {}
  PROVE  \E n \in S : Cardinality({m \in S : m <= n}) = 1
<1>1. Cardinality(S) \in Nat /\ Cardinality(S) # 0
  BY FS_CardinalityType, FS_EmptySet
<1>2. 1 \in 1..Cardinality(S)
  BY <1>1
<1>3. Ordered(S)[1] \in S /\ Cardinality({m \in S : m <= Ordered(S)[1]}) = 1
  BY <1>2, Ranked
<1> QED
  BY <1>3

\* What was in the log stays, and what is recorded comes after it.
LEMMA Older ==
  ASSUME IsLog, log' = log \/ \E e : Record(e)
  PROVE  /\ IsLog' /\ Len(log) \in Nat /\ Len(log') \in Nat /\ Len(log) <= Len(log')
         /\ DOMAIN log = 1..Len(log) /\ DOMAIN log' = 1..Len(log')
         /\ \A n \in DOMAIN log : n \in Nat /\ n \in DOMAIN log' /\ log'[n] = log[n]
         /\ \A n \in DOMAIN log' : n \in Nat /\ (n \notin DOMAIN log => \A m \in DOMAIN log : m < n)
         /\ \A kind, n : n \in Kind(kind) => n \in Kind(kind)'
         /\ \A kind, n : n \in Kind(kind)' /\ n \in DOMAIN log => n \in Kind(kind)
         /\ \A kind, of : Has(kind, of) => Has(kind, of)'
<1>0. Len(log) \in Nat /\ DOMAIN log = 1..Len(log)
  BY DEF IsLog
<1>1. /\ IsLog'
      /\ \A n \in DOMAIN log : n \in Nat /\ n \in DOMAIN log' /\ log'[n] = log[n]
      /\ \A n \in DOMAIN log' : n \in Nat /\ (n \notin DOMAIN log => \A m \in DOMAIN log : m < n)
  <2>1. CASE log' = log
    BY <1>0, <2>1 DEF IsLog
  <2>2. CASE \E e : Record(e)
    <3>1. PICK e : Record(e)
      BY <2>2
    <3>2. /\ IsLog'
          /\ Len(log) + 1 \in Nat /\ DOMAIN log' = DOMAIN log \cup {Len(log) + 1}
          /\ \A n \in DOMAIN log : n \in Nat /\ n < Len(log) + 1 /\ log'[n] = log[n]
      BY <3>1, Recorded
    <3> QED
      BY <3>2
  <2> QED
    BY <2>1, <2>2
<1>2. Len(log') \in Nat /\ DOMAIN log' = 1..Len(log')
  BY <1>1 DEF IsLog
<1>3. Len(log) <= Len(log')
  BY <1>0, <1>1, <1>2
<1>4. \A kind, n : n \in Kind(kind) => n \in Kind(kind)'
  BY <1>1 DEF Kind
<1>5. \A kind, n : n \in Kind(kind)' /\ n \in DOMAIN log => n \in Kind(kind)
  BY <1>1 DEF Kind
<1>6. \A kind, of : Has(kind, of) => Has(kind, of)'
  BY <1>1, <1>4 DEF Has, Kind
<1> QED
  BY <1>0, <1>1, <1>2, <1>3, <1>4, <1>5, <1>6

\* What others record leaves a kind as it is.
LEMMA SameKind ==
  ASSUME IsLog, NEW kind, log' = log \/ \E e : Record(e) /\ e.kind # kind
  PROVE  Kind(kind)' = Kind(kind) /\ \A of : Has(kind, of)' <=> Has(kind, of)
<1>1. CASE log' = log
  BY <1>1 DEF Kind, Has
<1>2. CASE \E e : Record(e) /\ e.kind # kind
  <2>1. PICK e : Record(e) /\ e.kind # kind
    BY <1>2
  <2>2. PICK last : last = Len(log) + 1
    OBVIOUS
  <2>3. DOMAIN log' = DOMAIN log \cup {last} /\ log'[last] = e /\ \A n \in DOMAIN log : log'[n] = log[n]
    BY <2>1, <2>2, Recorded
  <2>4. Kind(kind)' = Kind(kind)
    BY <2>1, <2>3 DEF Kind
  <2> QED
    BY <2>3, <2>4 DEF Has, Kind
<1> QED
  BY <1>1, <1>2

\* One more event of a kind.
LEMMA MoreOfKind ==
  ASSUME IsLog, NEW e, Record(e)
  PROVE  Kind(e.kind)' = Kind(e.kind) \cup {Len(log) + 1} /\ Has(e.kind, e.of)'
<1>1. PICK last : last = Len(log) + 1
  OBVIOUS
<1>2. DOMAIN log' = DOMAIN log \cup {last} /\ log'[last] = e /\ \A n \in DOMAIN log : log'[n] = log[n]
  BY <1>1, Recorded
<1>3. Kind(e.kind)' = Kind(e.kind) \cup {last}
  BY <1>2 DEF Kind
<1> QED
  BY <1>1, <1>2, <1>3 DEF Has

-----------------------------------------------------------------------------
(* Triage *)

\* Whatever else happens leaves triage where it is.
LEMMA TriKeeps ==
  ASSUME IsLog, TriInv, tri' = tri, cursor'.triage = cursor.triage, breaks' \in Nat, breaks <= breaks',
         log' = log \/ \E e : Record(e) /\ e.kind # "decision"
  PROVE  TriInv'
<1>1. log' = log \/ \E e : Record(e)
  OBVIOUS
<1>2. /\ Len(log) \in Nat /\ Len(log') \in Nat /\ Len(log) <= Len(log')
      /\ DOMAIN log = 1..Len(log) /\ DOMAIN log' = 1..Len(log')
      /\ \A n \in DOMAIN log : n \in DOMAIN log' /\ log'[n] = log[n]
  BY <1>1, Older
<1>3. Kind("decision")' = Kind("decision") /\ \A of : Has("decision", of)' <=> Has("decision", of)
  BY SameKind
<1>4. TriDecided'
  <2>1. ASSUME NEW n \in DOMAIN log', n <= cursor.triage \/ (n = cursor.triage + 1 /\ tri.at = "commit")
        PROVE  n \in DOMAIN log
    BY <1>2, <2>1 DEF TriInv
  <2>2. \A n \in DOMAIN log : NeedsTriage(log'[n]) => NeedsTriage(log[n])
    BY <1>2
  <2>3. ASSUME NEW n \in DOMAIN log', n <= cursor'.triage \/ (n = cursor'.triage + 1 /\ tri'.at = "commit"), NeedsTriage(log'[n])
        PROVE  Decided(n)
    BY <2>1, <2>2, <2>3 DEF TriInv, TriDecided
  <2> QED
    BY <1>3, <2>3 DEF TriDecided, Decided, NeedsTriage
<1>5. TriOrder'
  <2>1. \A d \in Kind("decision") : d \in DOMAIN log /\ log'[d] = log[d]
    BY <1>2 DEF Kind
  <2>2. \A d \in Kind("decision") :
          /\ log'[d].of \in Nat /\ log'[d].of <= cursor'.triage + 1 /\ log'[d].breaks \in Nat
          /\ log'[d].breaks <= breaks'
          /\ log'[d].of = cursor'.triage + 1 /\ tri'.at # "commit" => log'[d].breaks < breaks'
    BY <2>1 DEF TriInv, TriOrder
  <2>3. \A d, e \in Kind("decision") :
          d < e => log'[d].of < log'[e].of \/ (log'[d].of = log'[e].of /\ log'[d].breaks < log'[e].breaks)
    BY <2>1 DEF TriInv, TriOrder
  <2> QED
    BY <1>3, <2>2, <2>3 DEF TriOrder
<1>6. cursor'.triage <= Len(log')
  BY <1>2 DEF TriInv
<1> QED
  BY <1>2, <1>4, <1>5, <1>6 DEF TriInv

\* It moves without a record: to its next event, or it ends after an interruption.
LEMMA TriMoves ==
  ASSUME IsLog, TriInv, log' = log, cursor'.triage \in {cursor.triage, cursor.triage + 1},
         breaks' \in Nat, breaks <= breaks',
         tri'.at \in {"idle", "decide", "commit"},
         tri'.at # "idle" => /\ DOMAIN tri' = {"at", "batch"} /\ tri'.batch \subseteq DOMAIN log
                             /\ cursor'.triage + 1 \in tri'.batch,
         cursor'.triage = cursor.triage + 1 => tri.at = "commit" /\ tri'.at # "commit",
         cursor'.triage = cursor.triage /\ tri'.at # "commit" => tri.at # "commit" \/ breaks < breaks',
         tri'.at = "commit" => cursor'.triage = cursor.triage /\ ~NeedsTriage(log[cursor.triage + 1])
  PROVE  TriInv'
<1>1. Len(log) \in Nat /\ DOMAIN log = 1..Len(log) /\ log' = log
  BY DEF IsLog
<1>2. Kind("decision")' = Kind("decision") /\ \A of : Has("decision", of)' <=> Has("decision", of)
  BY DEF Kind, Has
<1>3. TriDecided'
  <2>1. ASSUME NEW n \in DOMAIN log, n <= cursor'.triage \/ (n = cursor'.triage + 1 /\ tri'.at = "commit"), NeedsTriage(log[n])
        PROVE  Decided(n)
    <3>1. n \in Nat /\ cursor.triage \in Nat
      BY <1>1 DEF TriInv
    <3>2. n <= cursor.triage \/ (n = cursor.triage + 1 /\ tri.at = "commit")
      BY <2>1, <3>1
    <3> QED
      BY <2>1, <3>2 DEF TriInv, TriDecided
  <2>2. \A n \in DOMAIN log : NeedsTriage(log[n])' <=> NeedsTriage(log[n])
    BY DEF NeedsTriage
  <2> QED
    BY <1>2, <2>1, <2>2 DEF TriDecided, Decided
<1>4. TriOrder'
  <2>1. ASSUME NEW d \in Kind("decision")
        PROVE  /\ log[d].of <= cursor'.triage + 1 /\ log[d].breaks <= breaks'
               /\ log[d].of = cursor'.triage + 1 /\ tri'.at # "commit" => log[d].breaks < breaks'
    <3>1. /\ log[d].of \in Nat /\ log[d].of <= cursor.triage + 1 /\ log[d].breaks \in Nat
          /\ log[d].breaks <= breaks
          /\ log[d].of = cursor.triage + 1 /\ tri.at # "commit" => log[d].breaks < breaks
      BY <2>1 DEF TriInv, TriOrder
    <3>2. breaks \in Nat /\ cursor.triage \in Nat
      BY DEF TriInv
    <3>3. CASE cursor'.triage = cursor.triage + 1
      BY <3>1, <3>2, <3>3
    <3>4. CASE cursor'.triage = cursor.triage
      BY <3>1, <3>2, <3>4
    <3> QED
      BY <3>3, <3>4
  <2>2. \A d, e \in Kind("decision") :
          d < e => log[d].of < log[e].of \/ (log[d].of = log[e].of /\ log[d].breaks < log[e].breaks)
    BY DEF TriInv, TriOrder
  <2>3. \A d \in Kind("decision") : log[d].of \in Nat /\ log[d].breaks \in Nat
    BY DEF TriInv, TriOrder
  <2> QED
    BY <1>1, <1>2, <2>1, <2>2, <2>3 DEF TriOrder
<1>5. cursor'.triage \in Nat /\ cursor'.triage <= Len(log')
  BY <1>1 DEF TriInv
<1> QED
  BY <1>1, <1>3, <1>4, <1>5 DEF TriInv

\* It decides: what it decided before is of earlier events, or was decided before an interruption.
LEMMA TriRecords ==
  ASSUME IsLog, TriInv, tri.at = "decide", tri' = [tri EXCEPT !.at = "commit"], Record(Decision), UNCHANGED <<cursor, breaks>>
  PROVE  TriInv'
<1> DEFINE c == cursor.triage + 1
           w == TriageEvent(log[c])
<1>0. PICK e : e = Decision
  OBVIOUS
<1>1. DOMAIN e = {"kind", "of", "wake", "breaks"} /\ e.kind = "decision" /\ e.of = c /\ e.breaks = breaks
  BY <1>0 DEF Decision
<1>2. PICK last : last = Len(log) + 1
  OBVIOUS
<1>3. /\ IsLog' /\ last \in Nat /\ DOMAIN log' = DOMAIN log \cup {last}
      /\ (\A n \in DOMAIN log : n \in Nat /\ n < last /\ log'[n] = log[n]) /\ log'[last] = e
  BY <1>0, <1>2, Recorded
<1>4. Kind("decision")' = Kind("decision") \cup {last} /\ Has("decision", c)'
  BY <1>0, <1>1, <1>2, MoreOfKind
<1>5. /\ Len(log) \in Nat /\ Len(log') \in Nat /\ Len(log) <= Len(log')
      /\ \A of : Has("decision", of) => Has("decision", of)'
  BY Older
<1>6. /\ breaks \in Nat /\ cursor.triage \in Nat /\ c \in DOMAIN log /\ DOMAIN tri = {"at", "batch"}
      /\ c \in tri.batch /\ tri.batch \subseteq DOMAIN log
  BY DEF TriInv
<1>7. tri'.at = "commit" /\ DOMAIN tri' = {"at", "batch"} /\ tri'.batch = tri.batch
  BY <1>6
<1>8. TriDecided'
  <2>1. ASSUME NEW n \in DOMAIN log', n <= cursor.triage \/ n = c, NeedsTriage(log'[n])
        PROVE  Has("decision", n)'
    <3>1. n \in DOMAIN log /\ log'[n] = log[n]
      BY <1>3, <1>6, <2>1
    <3>2. CASE n = c
      BY <1>4, <3>2
    <3>3. CASE n <= cursor.triage
      BY <1>5, <2>1, <3>1, <3>3 DEF TriInv, TriDecided, Decided
    <3> QED
      BY <2>1, <3>2, <3>3
  <2> QED
    BY <2>1 DEF TriDecided, Decided, NeedsTriage
<1>9. TriOrder'
  <2>1. \A d \in Kind("decision") : d \in DOMAIN log /\ d < last /\ log'[d] = log[d]
    BY <1>3 DEF Kind
  <2>2. \A d \in Kind("decision") : /\ log[d].of \in Nat /\ log[d].of <= c /\ log[d].breaks \in Nat /\ log[d].breaks <= breaks
                                    /\ (log[d].of = c => log[d].breaks < breaks)
    BY DEF TriInv, TriOrder
  <2>3. \A d, f \in Kind("decision") :
          d < f => log[d].of < log[f].of \/ (log[d].of = log[f].of /\ log[d].breaks < log[f].breaks)
    BY DEF TriInv, TriOrder
  <2>4. ASSUME NEW d \in Kind("decision")'
        PROVE  /\ log'[d].of \in Nat /\ log'[d].of <= c /\ log'[d].breaks \in Nat /\ log'[d].breaks <= breaks
    BY <1>1, <1>3, <1>4, <1>6, <2>1, <2>2
  <2>5. ASSUME NEW d \in Kind("decision")', NEW f \in Kind("decision")', d < f
        PROVE  log'[d].of < log'[f].of \/ (log'[d].of = log'[f].of /\ log'[d].breaks < log'[f].breaks)
    <3>1. d \in Kind("decision")
      BY <1>3, <1>4, <2>1, <2>5
    <3>2. CASE f \in Kind("decision")
      BY <2>1, <2>3, <2>5, <3>1, <3>2
    <3>3. CASE f = last
      BY <1>1, <1>3, <1>6, <2>1, <2>2, <3>1, <3>3
    <3> QED
      BY <1>4, <3>2, <3>3
  <2> QED
    BY <1>7, <2>4, <2>5 DEF TriOrder
<1> QED
  BY <1>3, <1>5, <1>6, <1>7, <1>8, <1>9 DEF TriInv

LEMMA TriInvStep ==
  ASSUME IsLog, CursorInv, TriInv, TriageReads \/ TriageDecides \/ TriageCommits
  PROVE  TriInv'
<1>0. breaks \in Nat /\ cursor.triage \in Nat /\ cursor.triage <= Len(log) /\ Len(log) \in Nat /\ DOMAIN log = 1..Len(log)
  BY DEF TriInv, IsLog
<1>1. CASE TriageReads
  <2>1. /\ UNCHANGED <<log, cursor, breaks>> /\ tri.at = "idle" /\ NextBatch(cursor.triage, TriageBatch) # {}
        /\ tri' = [at |-> "decide", batch |-> NextBatch(cursor.triage, TriageBatch)]
    BY <1>1 DEF TriageReads, Triage
  <2>2. DOMAIN tri' = {"at", "batch"} /\ tri'.at = "decide" /\ tri'.batch = NextBatch(cursor.triage, TriageBatch)
    BY <2>1
  <2>3. tri'.batch \subseteq DOMAIN log /\ cursor.triage + 1 \in tri'.batch
    <3>1. TriageBatch \in Nat \ {0}
      BY ConsumersAssumption
    <3>2. PICK n \in DOMAIN log : cursor.triage < n
      BY <2>1 DEF NextBatch
    <3>3. cursor.triage + 1 \in DOMAIN log
      BY <1>0, <3>2
    <3> QED
      BY <1>0, <2>2, <3>1, <3>3 DEF NextBatch
  <2> QED
    BY <1>0, <2>1, <2>2, <2>3, TriMoves
<1>2. CASE TriageDecides
  <2>1. tri.at = "decide" /\ UNCHANGED <<cursor, breaks>> /\ DOMAIN tri = {"at", "batch"} /\ cursor.triage + 1 \in tri.batch
    BY <1>2 DEF TriageDecides, Triage, TriInv
  <2>2. CASE Record(Decision) /\ Triages("commit")
    BY <2>1, <2>2, TriRecords DEF Triages
  <2>3. CASE ~NeedsTriage(log[cursor.triage + 1]) /\ Triages("commit") /\ log' = log
    <3>1. DOMAIN tri' = {"at", "batch"} /\ tri'.at = "commit" /\ tri'.batch = tri.batch
      BY <2>1, <2>3 DEF Triages
    <3> QED
      BY <1>0, <2>1, <2>3, <3>1, TriMoves DEF TriInv
  <2>4. CASE tri' = Free /\ log' = log
    BY <1>0, <2>1, <2>4, TriMoves DEF Free
  <2> QED
    BY <1>2, <2>2, <2>3, <2>4 DEF TriageDecides
<1>3. CASE TriageCommits
  <2>1. tri.at = "commit" /\ log' = log /\ DOMAIN tri = {"at", "batch"} /\ tri.batch \subseteq DOMAIN log
    BY <1>3 DEF TriageCommits, Triage, TriInv
  <2>2. CASE CommitCursor("triage", cursor.triage + 1) /\ breaks' = breaks
    <3>1. cursor'.triage = cursor.triage + 1
      BY <2>2 DEF CommitCursor, CursorInv
    <3>2. tri' = IF cursor.triage + 2 \in tri.batch THEN [tri EXCEPT !.at = "decide"] ELSE Free
      <4>1. ~(breaks' = breaks + 1)
        BY <1>0, <2>2
      <4> QED
        BY <1>3, <4>1 DEF TriageCommits
    <3>3. CASE tri' = Free
      BY <1>0, <2>1, <2>2, <3>1, <3>3, TriMoves DEF Free
    <3>4. CASE cursor.triage + 2 \in tri.batch /\ tri' = [tri EXCEPT !.at = "decide"]
      <4>1. DOMAIN tri' = {"at", "batch"} /\ tri'.at = "decide" /\ tri'.batch = tri.batch
        BY <2>1, <3>4
      <4>2. cursor'.triage + 1 = cursor.triage + 2
        BY <1>0, <3>1
      <4> QED
        BY <1>0, <2>1, <2>2, <3>1, <3>4, <4>1, <4>2, TriMoves
    <3> QED
      BY <3>2, <3>3, <3>4
  <2>3. CASE breaks' = breaks + 1 /\ tri' = Free /\ cursor' = cursor
    BY <1>0, <2>1, <2>3, TriMoves DEF Free
  <2> QED
    BY <1>3, <2>2, <2>3 DEF TriageCommits
<1> QED
  BY <1>1, <1>2, <1>3

-----------------------------------------------------------------------------
(* The outbox *)

\* An answer that is settled stays settled.
LEMMA SettledStays ==
  ASSUME IsLog, log' = log \/ \E e : Record(e), cut \subseteq cut',
         \A k \in DOMAIN sent : k \in DOMAIN sent' /\ sent'[k] = sent[k],
         NEW n \in Kind("reply"), log[n].of \in DOMAIN log
  PROVE  (Personal(n)' <=> Personal(n)) /\ (Settled(n) => Settled(n)')
<1>1. /\ \A k \in DOMAIN log : k \in DOMAIN log' /\ log'[k] = log[k]
      /\ \A of : Has("error", of) => Has("error", of)'
  BY Older
<1>2. n \in DOMAIN log
  BY DEF Kind
<1>3. log'[n] = log[n] /\ log'[log[n].of] = log[log[n].of]
  BY <1>1, <1>2
<1>4. SentWhole(n) => SentWhole(n)'
  BY <1>3 DEF SentWhole
<1> QED
  BY <1>1, <1>3, <1>4 DEF Personal, Settled

\* The answer it is at is the first after its cursor.
LEMMA FirstOfBatch ==
  ASSUME OutInv, out.at \in Busy, IsLog
  PROVE  /\ cursor.outbox \in Nat /\ cursor.outbox # None
         /\ out.batch \in Seq(Nat) /\ Len(out.batch) \in Nat /\ Len(out.batch) > 0 /\ DOMAIN out.batch = 1..Len(out.batch)
         /\ Head(out.batch) = out.batch[1] /\ 1 \in DOMAIN out.batch /\ \A i \in DOMAIN out.batch : out.batch[i] \in Nat
         /\ Head(out.batch) \in Kind("reply") /\ Head(out.batch) \in Nat /\ cursor.outbox < Head(out.batch)
         /\ Head(out.batch) \in DOMAIN log /\ log[Head(out.batch)].of \in DOMAIN log
         /\ \A n \in Kind("reply") : cursor.outbox < n => n \in Nat /\ Head(out.batch) <= n
<1>1. cursor.outbox \in Nat /\ cursor.outbox # None /\ BatchOK
  BY SchedulesAssumption DEF OutInv
<1>2. PICK b \in Seq(Nat) : b = out.batch /\ b # <<>>
  BY <1>1 DEF BatchOK
<1>3. Len(b) \in Nat /\ DOMAIN b = 1..Len(b) /\ Len(b) > 0 /\ 1 \in DOMAIN b /\ Head(b) = b[1] /\ \A i \in DOMAIN b : b[i] \in Nat
  BY <1>2
<1>4. b[1] \in Kind("reply") /\ cursor.outbox < b[1]
  BY <1>1, <1>2, <1>3 DEF BatchOK
<1>5. \A n \in Kind("reply") : n \in Nat
  BY DEF Kind, IsLog
<1>6. \A n \in Kind("reply") : cursor.outbox < n => b[1] <= n
  <2> SUFFICES ASSUME NEW n \in Kind("reply"), cursor.outbox < n, n < b[1]
               PROVE  FALSE
    BY <1>3, <1>5
  <2>1. PICK j \in DOMAIN b : b[j] = n
    BY <1>1, <1>2, <1>3, <1>5 DEF BatchOK
  <2>2. j # 1 /\ 1 < j
    BY <1>3, <2>1
  <2>3. b[1] < b[j]
    BY <1>1, <1>2, <1>3, <2>1, <2>2 DEF BatchOK
  <2> QED
    BY <1>3, <1>5, <2>1, <2>3
<1> QED
  BY <1>1, <1>2, <1>3, <1>4, <1>5, <1>6 DEF OutInv, Kind

\* Whatever else happens leaves the outbox where it is: new answers come after all it has.
LEMMA OutKeeps ==
  ASSUME IsLog, OutInv, UNCHANGED <<out, sent, tail>>, cursor'.outbox = cursor.outbox,
         breaks' \in Nat, breaks <= breaks', cut \subseteq cut',
         log' = log \/ \E e : Record(e) /\ (e.kind = "reply" => e.of \in DOMAIN log) /\ (e.kind = "user" => e.of \in Msg)
  PROVE  OutInv'
<1>0. log' = log \/ \E e : Record(e)
  OBVIOUS
<1>1. /\ IsLog' /\ Len(log) \in Nat /\ DOMAIN log = 1..Len(log)
      /\ \A n \in DOMAIN log : n \in Nat /\ n \in DOMAIN log' /\ log'[n] = log[n]
      /\ \A n \in DOMAIN log' : n \in Nat /\ (n \notin DOMAIN log => \A m \in DOMAIN log : m < n)
      /\ \A n : n \in Kind("reply") => n \in Kind("reply")'
      /\ \A n : n \in Kind("reply")' /\ n \in DOMAIN log => n \in Kind("reply")
  BY <1>0, Older
<1>2. \A n \in Kind("reply") : n \in DOMAIN log /\ n \in Nat
  BY <1>1 DEF Kind
<1>3. \A n \in Kind("reply")' : n \in DOMAIN log' /\ n \in Nat
  BY <1>1 DEF Kind
<1>4. /\ \A n \in Kind("reply")' : log'[n].of \in DOMAIN log'
      /\ \A n \in Kind("user")' : log'[n].of \in Msg
  <2>1. CASE log' = log
    BY <2>1 DEF OutInv, Kind
  <2>2. CASE \E e : Record(e) /\ (e.kind = "reply" => e.of \in DOMAIN log) /\ (e.kind = "user" => e.of \in Msg)
    <3>1. PICK e : Record(e) /\ (e.kind = "reply" => e.of \in DOMAIN log) /\ (e.kind = "user" => e.of \in Msg)
      BY <2>2
    <3>2. PICK last : last = Len(log) + 1
      OBVIOUS
    <3>3. DOMAIN log' = DOMAIN log \cup {last} /\ log'[last] = e /\ \A n \in DOMAIN log : log'[n] = log[n]
      BY <3>1, <3>2, Recorded
    <3> QED
      BY <3>1, <3>3 DEF OutInv, Kind
  <2> QED
    BY <2>1, <2>2
<1>5. \A n \in Kind("reply") : (Personal(n)' <=> Personal(n)) /\ (Settled(n) => Settled(n)')
  BY <1>0, SettledStays DEF OutInv
<1>6. ASSUME out.at \in Busy
      PROVE  BatchOK' /\ AnswerOK'
  <2>1. BatchOK /\ AnswerOK
    BY <1>6 DEF OutInv
  <2>2. Head(out.batch) \in Kind("reply")
    BY <1>6, FirstOfBatch
  <2>3. AnswerOK'
    BY <1>5, <2>1, <2>2 DEF AnswerOK
  <2>4. \A n \in Kind("reply")', i \in DOMAIN out.batch :
          cursor.outbox < n /\ n <= out.batch[i] => n \in Kind("reply")
    <3> SUFFICES ASSUME NEW n \in Kind("reply")', NEW i \in DOMAIN out.batch, n <= out.batch[i]
                 PROVE  n \in Kind("reply")
      OBVIOUS
    <3>1. out.batch[i] \in DOMAIN log /\ out.batch[i] \in Nat
      BY <1>2, <2>1 DEF BatchOK
    <3> QED
      BY <1>1, <1>3, <3>1
  <2>5. BatchOK'
    BY <1>1, <2>1, <2>4 DEF BatchOK
  <2> QED
    BY <2>3, <2>5
<1>7. SentOK'
  BY <1>1 DEF OutInv, SentOK, InOrder
<1>8. ASSUME cursor.outbox # None
      PROVE  SentTo' /\ OutSettled'
  <2>1. SentTo /\ OutSettled /\ cursor.outbox \in Nat
    BY <1>8 DEF OutInv
  <2>2. ASSUME NEW k \in DOMAIN sent, NEW n \in Kind("reply")', cursor.outbox < n
        PROVE  sent[k].of <= n
    <3>1. sent[k].of \in DOMAIN log /\ sent[k].of \in Nat
      BY <1>1 DEF OutInv, SentOK
    <3>2. CASE n \in DOMAIN log
      BY <1>1, <2>1, <2>2, <3>2 DEF SentTo
    <3>3. CASE n \notin DOMAIN log
      BY <1>1, <1>3, <3>1, <3>3
    <3> QED
      BY <3>2, <3>3
  <2>3. \A k \in DOMAIN sent : sent[k].breaks \in Nat /\ breaks \in Nat
    BY DEF OutInv, SentOK
  <2>4. \A k \in DOMAIN sent : cursor.outbox < sent[k].of => sent[k].breaks < breaks' \/ Past(out, sent[k].part)
    BY <2>1, <2>3 DEF SentTo
  <2>5. SentTo'
    BY <2>2, <2>4 DEF SentTo
  <2>6. ASSUME NEW n \in Kind("reply")', n <= cursor.outbox, tail < n, Personal(n)'
        PROVE  Settled(n)'
    <3>1. CASE n \in DOMAIN log
      BY <1>1, <1>5, <2>1, <2>6, <3>1 DEF OutSettled
    <3>2. CASE n \notin DOMAIN log
      <4>1. cursor.outbox <= Len(log)
        BY <1>8 DEF OutInv
      <4>2. n \in Nat /\ n > Len(log)
        BY <1>1, <1>3, <3>2
      <4> QED
        BY <1>1, <2>1, <2>6, <4>1, <4>2
    <3> QED
      BY <3>1, <3>2
  <2> QED
    BY <2>5, <2>6 DEF OutSettled
<1>9. /\ cursor.outbox # None => cursor.outbox <= Len(log')
      /\ out.at = "tail" => out.last <= Len(log')
  BY <1>1 DEF OutInv
<1> QED
  BY <1>1, <1>4, <1>6, <1>7, <1>8, <1>9 DEF OutInv

\* It moves on with the answer it is at: what it sends now comes after all it sent.
LEMMA OutMoves ==
  ASSUME IsLog, OutInv, out.at \in Busy, UNCHANGED <<breaks, tail>>, cursor'.outbox = cursor.outbox, cut \subseteq cut',
         log' = log \/ \E e : Record(e) /\ e.kind = "error",
         out'.at \in Busy, DOMAIN out' = DOMAIN out, out'.batch = out.batch, out'.part \in Nat, AnswerOK',
         \A k \in DOMAIN sent : Past(out, sent[k].part) => Past(out', sent[k].part),
         \/ sent' = sent
         \/ \E part \in Nat : \E to : /\ Sends(part, to) /\ Past(out', part)
                                      /\ \A k \in DOMAIN sent : Past(out, sent[k].part) => sent[k].part < part
  PROVE  OutInv'
<1>0. /\ UNCHANGED <<breaks, tail>> /\ cursor'.outbox = cursor.outbox /\ breaks \in Nat /\ out.at \in Busy /\ out'.at \in Busy
      /\ out'.batch = out.batch
  BY DEF OutInv
<1> DEFINE b == Head(out.batch)
<1>1. /\ cursor.outbox \in Nat /\ cursor.outbox # None
      /\ b \in Kind("reply") /\ b \in Nat /\ cursor.outbox < b /\ b \in DOMAIN log
      /\ \A n \in Kind("reply") : cursor.outbox < n => n \in Nat /\ b <= n
  BY FirstOfBatch
<1> HIDE DEF b
<1>2. log' = log \/ \E e : Record(e)
  OBVIOUS
<1>3. /\ IsLog' /\ Len(log) <= Len(log') /\ Len(log) \in Nat /\ Len(log') \in Nat
      /\ \A n \in DOMAIN log : n \in Nat /\ n \in DOMAIN log' /\ log'[n] = log[n]
  BY <1>2, Older
<1>4. Kind("reply")' = Kind("reply") /\ Kind("user")' = Kind("user")
  <2>1. log' = log \/ \E e : Record(e) /\ e.kind # "reply"
    OBVIOUS
  <2>2. log' = log \/ \E e : Record(e) /\ e.kind # "user"
    OBVIOUS
  <2> QED
    BY <2>1, <2>2, SameKind
<1>5. \A n \in Kind("reply") \cup Kind("user") : n \in DOMAIN log
  BY DEF Kind
<1>6. \A k \in DOMAIN sent : sent[k].of \in Nat /\ sent[k].of \in DOMAIN log
  BY <1>3 DEF OutInv, SentOK
<1>7. PICK S : sent \in Seq(S)
  BY DEF OutInv, SentOK
<1>8. Len(sent) \in Nat /\ DOMAIN sent = 1..Len(sent) /\ \A k \in DOMAIN sent : k \in Nat /\ k < Len(sent) + 1
  BY <1>7
<1>9. SentOK /\ SentTo /\ OutSettled /\ BatchOK
  BY <1>0, <1>1 DEF OutInv
<1>10. ASSUME NEW part \in Nat, NEW to, Sends(part, to), \A k \in DOMAIN sent : Past(out, sent[k].part) => sent[k].part < part,
              Past(out', part)
       PROVE  SentOK' /\ SentTo' /\ \A k \in DOMAIN sent : k \in DOMAIN sent' /\ sent'[k] = sent[k]
  <2> DEFINE new == [of |-> b, part |-> part, to |-> to, breaks |-> breaks]
  <2>0. PICK e : e = new
    OBVIOUS
  <2>1. e.of = b /\ e.part = part /\ e.breaks = breaks /\ sent' = Append(sent, e)
    BY <1>10, <2>0 DEF Sends, b
  <2> HIDE DEF new
  <2>2. PICK last : last = Len(sent) + 1
    OBVIOUS
  <2>3. /\ sent' \in Seq(S \cup {e}) /\ DOMAIN sent' = DOMAIN sent \cup {last} /\ sent'[last] = e
        /\ \A k \in DOMAIN sent : sent'[k] = sent[k] /\ k \in Nat /\ k < last
    <3>1. sent \in Seq(S \cup {e})
      BY <1>7
    <3>2. sent' \in Seq(S \cup {e}) /\ Len(sent') = last
      BY <2>1, <2>2, <3>1
    <3>3. DOMAIN sent' = 1..last
      BY <3>2
    <3>4. DOMAIN sent' = DOMAIN sent \cup {last}
      BY <1>8, <2>2, <3>3
    <3>5. sent'[last] = e /\ \A k \in DOMAIN sent : sent'[k] = sent[k]
      <4>1. Append(sent, e)[Len(sent) + 1] = e
        BY <3>1
      <4>2. ASSUME NEW k \in 1..Len(sent)
            PROVE  Append(sent, e)[k] = sent[k]
        BY <3>1
      <4> QED
        BY <1>8, <2>1, <2>2, <4>1, <4>2
    <3> QED
      BY <1>8, <2>2, <3>2, <3>4, <3>5
  <2>4. last \in Nat
    BY <1>8, <2>2
  <2>5. ASSUME NEW k \in DOMAIN sent
        PROVE  sent[k].of < b \/ (sent[k].of = b /\ (sent[k].breaks < breaks \/ sent[k].part < part))
    <3>1. sent[k].of \in Nat /\ sent[k].of <= b
      BY <1>1, <1>6, <1>9, <2>5 DEF SentTo
    <3>2. cursor.outbox < sent[k].of => sent[k].breaks < breaks \/ sent[k].part < part
      BY <1>9, <1>10, <2>5 DEF SentTo
    <3> QED
      BY <1>1, <3>1, <3>2
  <2>6. InOrder(sent')
    <3> SUFFICES ASSUME NEW j \in DOMAIN sent', NEW k \in DOMAIN sent', j < k
                 PROVE  \/ sent'[j].of < sent'[k].of
                        \/ sent'[j].of = sent'[k].of /\ (sent'[j].breaks < sent'[k].breaks \/ sent'[j].part < sent'[k].part)
      BY DEF InOrder
    <3>1. j \in DOMAIN sent
      BY <2>3, <2>4
    <3>2. CASE k \in DOMAIN sent
      <4>1. \/ sent[j].of < sent[k].of
            \/ sent[j].of = sent[k].of /\ (sent[j].breaks < sent[k].breaks \/ sent[j].part < sent[k].part)
        BY <1>9, <3>1, <3>2 DEF SentOK, InOrder
      <4>2. sent'[j] = sent[j] /\ sent'[k] = sent[k]
        BY <2>3, <3>1, <3>2
      <4> QED
        BY <4>1, <4>2
    <3>3. CASE k = last
      BY <2>1, <2>3, <2>5, <3>1, <3>3
    <3> QED
      BY <2>3, <3>2, <3>3
  <2>7. SentOK'
    <3>1. ASSUME NEW k \in DOMAIN sent'
          PROVE  /\ sent'[k].of \in DOMAIN log' /\ sent'[k].part \in Nat /\ sent'[k].breaks \in Nat /\ sent'[k].breaks <= breaks'
      <4>1. CASE k \in DOMAIN sent
        BY <1>0, <1>3, <1>9, <2>3, <4>1 DEF SentOK
      <4>2. CASE k = last
        BY <1>0, <1>1, <1>3, <2>1, <2>3, <4>2
      <4> QED
        BY <2>3, <4>1, <4>2
    <3> QED
      BY <2>3, <2>6, <3>1 DEF SentOK
  <2>8. SentTo'
    <3>1. ASSUME NEW k \in DOMAIN sent', NEW n \in Kind("reply")', cursor'.outbox < n
          PROVE  sent'[k].of <= n
      <4>1. CASE k \in DOMAIN sent
        BY <1>0, <1>4, <1>9, <2>3, <3>1, <4>1 DEF SentTo
      <4>2. CASE k = last
        BY <1>0, <1>1, <1>4, <2>1, <2>3, <3>1, <4>2
      <4> QED
        BY <2>3, <4>1, <4>2
    <3>2. ASSUME NEW k \in DOMAIN sent', cursor'.outbox < sent'[k].of
          PROVE  sent'[k].breaks < breaks' \/ Past(out', sent'[k].part)
      <4>1. CASE k \in DOMAIN sent
        BY <1>0, <1>9, <2>3, <3>2, <4>1 DEF SentTo
      <4>2. CASE k = last
        BY <1>10, <2>1, <2>3, <4>2
      <4> QED
        BY <2>3, <4>1, <4>2
    <3> QED
      BY <3>1, <3>2 DEF SentTo
  <2> QED
    BY <2>3, <2>7, <2>8
<1>11. ASSUME sent' = sent
       PROVE  SentOK' /\ SentTo' /\ \A k \in DOMAIN sent : k \in DOMAIN sent' /\ sent'[k] = sent[k]
  <2>1. SentOK'
    BY <1>0, <1>3, <1>9, <1>11 DEF SentOK, InOrder
  <2>2. SentTo'
    BY <1>0, <1>4, <1>9, <1>11 DEF SentTo
  <2> QED
    BY <2>1, <2>2, <1>11
<1>12. SentOK' /\ SentTo' /\ \A k \in DOMAIN sent : k \in DOMAIN sent' /\ sent'[k] = sent[k]
  <2>1. CASE sent' = sent
    BY <1>11, <2>1
  <2>2. ASSUME NEW part \in Nat, NEW to, Sends(part, to), \A k \in DOMAIN sent : Past(out, sent[k].part) => sent[k].part < part,
              Past(out', part)
       PROVE  SentOK' /\ SentTo' /\ \A k \in DOMAIN sent : k \in DOMAIN sent' /\ sent'[k] = sent[k]
    BY <1>10, <2>2
  <2> QED
    BY <2>1, <2>2
<1>13. \A n \in Kind("reply") : (Personal(n)' <=> Personal(n)) /\ (Settled(n) => Settled(n)')
  <2>1. \A n \in Kind("reply") : log[n].of \in DOMAIN log
    BY DEF OutInv
  <2>2. \A k \in DOMAIN sent : k \in DOMAIN sent' /\ sent'[k] = sent[k]
    BY <1>12
  <2> QED
    BY <1>2, <2>1, <2>2, SettledStays
<1>14. OutSettled'
  BY <1>0, <1>4, <1>9, <1>13 DEF OutSettled
<1>15. BatchOK'
  <2>1. DOMAIN out' = DOMAIN out /\ out'.part \in Nat
    OBVIOUS
  <2> QED
    BY <1>0, <1>4, <1>9, <2>1 DEF BatchOK
<1>16. /\ \A n \in Kind("reply")' : log'[n].of \in DOMAIN log'
       /\ \A n \in Kind("user")' : log'[n].of \in Msg
  BY <1>3, <1>4, <1>5 DEF OutInv
<1>17. /\ "at" \in DOMAIN out' /\ out'.at # "tail" /\ tail \in Nat /\ cursor.outbox <= Len(log')
  <2>1. cursor.outbox <= Len(log) /\ "at" \in DOMAIN out /\ tail \in Nat
    BY <1>1 DEF OutInv
  <2> QED
    BY <1>0, <1>1, <1>3, <2>1 DEF Busy
<1> QED
  BY <1>0, <1>1, <1>12, <1>14, <1>15, <1>16, <1>17 DEF OutInv

\* From one place to the next with the answer it is at.
LEMMA OutGoes ==
  ASSUME IsLog, OutInv, OutboxRoutes \/ OutboxOpens \/ OutboxBinds \/ OutboxSends \/ OutboxFails
  PROVE  OutInv'
<1>b. PICK b : b = Head(out.batch)
  OBVIOUS
<1>0. out.at \in Busy /\ cut \subseteq cut' /\ UNCHANGED <<breaks, tail, cursor>>
  BY DEF OutboxRoutes, OutboxOpens, OutboxBinds, OutboxSends, OutboxFails, Outbox, Busy, shared
<1>1. BatchOK /\ AnswerOK
  BY <1>0 DEF OutInv
<1>2. /\ b \in Kind("reply") /\ b \in Nat /\ b \in DOMAIN log /\ log[b].of \in DOMAIN log
  BY <1>0, <1>b, FirstOfBatch
<1>3. DOMAIN out = {"at", "batch", "part", "to"} /\ out.part \in Nat
  BY <1>1 DEF BatchOK
<1>4. ASSUME NEW at \in Busy, NEW o, DOMAIN o = DOMAIN out, o.at = at, o.batch = out.batch, o.part \in Nat, out' = o,
             at \in {"open", "bind"} => o.part = 1, at # "route",
             at = "commit" => (Personal(b)' => Settled(b)'),
             log' = log \/ \E e : Record(e) /\ e.kind = "error",
             \A k \in DOMAIN sent : Past(out, sent[k].part) => Past(o, sent[k].part),
             \/ sent' = sent
             \/ \E part \in Nat : \E to : /\ Sends(part, to) /\ Past(o, part)
                                          /\ \A k \in DOMAIN sent : Past(out, sent[k].part) => sent[k].part < part
      PROVE  OutInv'
  <2>1. out'.at \in Busy /\ DOMAIN out' = DOMAIN out /\ out'.batch = out.batch /\ out'.part \in Nat
    BY <1>4
  <2>2. AnswerOK'
    BY <1>b, <1>4 DEF AnswerOK
  <2>3. \A k \in DOMAIN sent : Past(out, sent[k].part) => Past(out', sent[k].part)
    BY <1>4
  <2>4. \/ sent' = sent
        \/ \E part \in Nat : \E to : /\ Sends(part, to) /\ Past(out', part)
                                     /\ \A k \in DOMAIN sent : Past(out, sent[k].part) => sent[k].part < part
    BY <1>4
  <2>5. log' = log \/ \E e : Record(e) /\ e.kind = "error"
    BY <1>4
  <2>6. cursor'.outbox = cursor.outbox /\ UNCHANGED <<breaks, tail>> /\ cut \subseteq cut'
    BY <1>0
  <2> HIDE DEF OutInv
  <2> QED
    BY <1>0, <2>1, <2>2, <2>3, <2>4, <2>5, <2>6, OutMoves
<1>5. \A k \in DOMAIN sent : sent[k].part \in Nat
  BY DEF OutInv, SentOK
<1>7. CASE OutboxRoutes
  <2>1. out.at = "route" /\ out.part = 1 /\ UNCHANGED <<log, sent>> /\ \A p : ~Past(out, p)
    BY <1>1, <1>7 DEF OutboxRoutes, Outbox, AnswerOK, Past, shared
  <2>a. PICK at \in {"commit", "send", "open"} : \E to : out' = [out EXCEPT !.at = at, !.to = to] /\ (at = "commit" => Origin = None)
    <3>1. CASE out' = [out EXCEPT !.at = "commit"] /\ Origin = None
      <4>1. out' = [out EXCEPT !.at = "commit", !.to = out.to]
        BY <1>3, <3>1
      <4> QED
        BY <3>1, <4>1
    <3>2. CASE out' = [out EXCEPT !.at = "open"]
      <4>1. out' = [out EXCEPT !.at = "open", !.to = out.to]
        BY <1>3, <3>2
      <4> QED
        BY <4>1
    <3>3. CASE \E to : out' = [out EXCEPT !.at = "send", !.to = to]
      BY <3>3
    <3> QED
      BY <1>7, <3>1, <3>2, <3>3 DEF OutboxRoutes, Out
  <2>2. PICK to : out' = [out EXCEPT !.at = at, !.to = to] /\ (at = "commit" => Origin = None)
    BY <2>a
  <2>3. at = "commit" => ~Personal(b)
    <3> SUFFICES ASSUME Origin = None, Personal(b)
                 PROVE  FALSE
      BY <2>2
    <3>1. Root = log[log[b].of] /\ Root.kind = "user"
      BY <1>b DEF Root, Answer, Personal
    <3>2. Root.of \in Msg
      BY <1>2, <3>1 DEF OutInv, Kind
    <3>3. Origin = ChatOf[Root.of]
      BY <3>1 DEF Origin
    <3> QED
      BY <3>2, <3>3, FeishuAssumption
  <2>4. Personal(b)' <=> Personal(b)
    BY <2>1, <2>2 DEF Personal
  <2> DEFINE o == [out EXCEPT !.at = at, !.to = to]
  <2>5. DOMAIN o = DOMAIN out /\ o.at = at /\ o.batch = out.batch /\ o.part = 1 /\ out' = o
    BY <1>3, <2>1, <2>2
  <2> HIDE DEF o
  <2> QED
    BY <1>4, <2>1, <2>2, <2>3, <2>4, <2>5 DEF Busy
<1>8. CASE OutboxOpens
  <2>1. out.at = "open" /\ out.part = 1 /\ log' = log /\ \A p : ~Past(out, p)
    BY <1>1, <1>8 DEF OutboxOpens, Outbox, AnswerOK, Past
  <2>2. PICK at \in {"bind", "fail"} : out' = [out EXCEPT !.at = at] /\ (IF at = "bind" THEN Sends(0, Origin) ELSE sent' = sent)
    BY <1>8 DEF OutboxOpens, Out
  <2> DEFINE o == [out EXCEPT !.at = at]
  <2>3. DOMAIN o = DOMAIN out /\ o.at = at /\ o.batch = out.batch /\ o.part = 1 /\ out' = o
    BY <1>3, <2>1, <2>2
  <2> HIDE DEF o
  <2>4. at = "bind" => Past(o, 0)
    BY <2>3 DEF Past
  <2>5. \/ sent' = sent
        \/ \E part \in Nat : \E to : /\ Sends(part, to) /\ Past(o, part)
                                     /\ \A k \in DOMAIN sent : Past(out, sent[k].part) => sent[k].part < part
    BY <2>1, <2>2, <2>4
  <2> QED
    BY <1>4, <2>1, <2>2, <2>3, <2>5 DEF Busy
<1>9. CASE OutboxBinds
  <2>1. out.at = "bind" /\ out.part = 1 /\ UNCHANGED <<log, sent>>
    BY <1>1, <1>9 DEF OutboxBinds, Outbox, AnswerOK
  <2>a. PICK at \in {"send", "fail"} : \E to : out' = [out EXCEPT !.at = at, !.to = to]
    <3>1. CASE out' = [out EXCEPT !.at = "fail"]
      <4>1. out' = [out EXCEPT !.at = "fail", !.to = out.to]
        BY <1>3, <3>1
      <4> QED
        BY <4>1
    <3> QED
      BY <1>9, <3>1 DEF OutboxBinds, Out
  <2>2. PICK to : out' = [out EXCEPT !.at = at, !.to = to]
    BY <2>a
  <2> DEFINE o == [out EXCEPT !.at = at, !.to = to]
  <2>3. DOMAIN o = DOMAIN out /\ o.at = at /\ o.batch = out.batch /\ o.part = 1 /\ out' = o
    BY <1>3, <2>1, <2>2
  <2> HIDE DEF o
  <2>4. \A p \in Nat : Past(out, p) => Past(o, p)
    BY <2>1, <2>2, <2>3 DEF Past
  <2> QED
    BY <1>4, <1>5, <2>1, <2>2, <2>3, <2>4 DEF Busy
<1>10. CASE OutboxSends
  <2>1. out.at = "send" /\ log' = log /\ \A p : Past(out, p) <=> p < out.part
    BY <1>10 DEF OutboxSends, Outbox, Past
  <2>2. CASE sent' = sent /\ out' = [out EXCEPT !.at = "fail"]
    <3> DEFINE o == [out EXCEPT !.at = "fail"]
    <3>1. DOMAIN o = DOMAIN out /\ o.at = "fail" /\ o.batch = out.batch /\ o.part = out.part /\ out' = o
      BY <1>3, <2>2
    <3> HIDE DEF o
    <3>2. \A p : Past(o, p)
      BY <3>1 DEF Past
    <3> QED
      BY <1>3, <1>4, <2>1, <2>2, <3>1, <3>2 DEF Busy
  <2>3. CASE Sends(out.part, out.to) /\ out.part = Answer.parts /\ out' = [out EXCEPT !.at = "commit"]
    <3> DEFINE o == [out EXCEPT !.at = "commit"]
    <3>1. DOMAIN o = DOMAIN out /\ o.at = "commit" /\ o.batch = out.batch /\ o.part = out.part /\ out' = o
      BY <1>3, <2>3
    <3> HIDE DEF o
    <3>2. \A p : Past(o, p)
      BY <3>1 DEF Past
    <3>3. Settled(b)'
      <4> DEFINE new == [of |-> b, part |-> out.part, to |-> out.to, breaks |-> breaks]
      <4>0. PICK e : e = new
        OBVIOUS
      <4>1. e.of = b /\ e.part = out.part /\ sent' = Append(sent, e)
        BY <1>b, <2>3, <4>0 DEF Sends
      <4>2. PICK S : sent \in Seq(S)
        BY DEF OutInv, SentOK
      <4> HIDE DEF new
      <4>3. PICK last \in DOMAIN sent' : sent'[last] = e
        <5>1. sent \in Seq(S \cup {e}) /\ Len(sent) \in Nat
          BY <4>2
        <5>2. Append(sent, e)[Len(sent) + 1] = e /\ Len(sent) + 1 \in DOMAIN Append(sent, e)
          BY <5>1
        <5> QED
          BY <4>1, <5>2
      <4>4. log'[b].parts = out.part
        BY <1>b, <2>1, <2>3 DEF Answer
      <4>5. SentWhole(b)'
        BY <4>1, <4>3, <4>4 DEF SentWhole
      <4> QED
        BY <4>5 DEF Settled
    <3>4. \E part \in Nat : \E to : /\ Sends(part, to) /\ Past(o, part)
                                    /\ \A k \in DOMAIN sent : Past(out, sent[k].part) => sent[k].part < part
      BY <1>3, <2>1, <2>3, <3>2
    <3> QED
      BY <1>3, <1>4, <2>1, <3>1, <3>2, <3>3, <3>4 DEF Busy
  <2>4. CASE Sends(out.part, out.to) /\ out' = [out EXCEPT !.part = @ + 1]
    <3> DEFINE o == [out EXCEPT !.part = @ + 1]
    <3>1. DOMAIN o = DOMAIN out /\ o.at = "send" /\ o.batch = out.batch /\ o.part = out.part + 1 /\ out' = o
      BY <1>3, <2>1, <2>4
    <3> HIDE DEF o
    <3>2. \A p : Past(o, p) <=> p < out.part + 1
      BY <3>1 DEF Past
    <3>3. \A k \in DOMAIN sent : Past(out, sent[k].part) => Past(o, sent[k].part)
      BY <1>3, <1>5, <2>1, <3>2
    <3>4. \E part \in Nat : \E to : /\ Sends(part, to) /\ Past(o, part)
                                    /\ \A k \in DOMAIN sent : Past(out, sent[k].part) => sent[k].part < part
      BY <1>3, <2>1, <2>4, <3>2
    <3>5. o.part \in Nat
      BY <1>3, <3>1
    <3> QED
      BY <1>4, <2>1, <3>1, <3>3, <3>4, <3>5 DEF Busy
  <2> QED
    BY <1>10, <2>2, <2>3, <2>4 DEF OutboxSends, Out
<1>11. CASE OutboxFails
  <2> DEFINE o == [out EXCEPT !.at = "commit"]
             e == [kind |-> "error", of |-> b]
  <2>1. DOMAIN o = DOMAIN out /\ o.at = "commit" /\ o.batch = out.batch /\ o.part = out.part /\ out' = o /\ sent' = sent
    BY <1>3, <1>11 DEF OutboxFails, Out
  <2>2. e.kind = "error" /\ e.of = b /\ (Record(e) \/ (log' = log /\ b \in cut'))
    BY <1>b, <1>11 DEF OutboxFails
  <2> HIDE DEF o, e
  <2>3. \A p : Past(o, p)
    BY <2>1 DEF Past
  <2>4. Settled(b)'
    <3>1. CASE Record(e)
      <4>1. Has("error", b)'
        BY <2>2, <3>1, MoreOfKind
      <4> QED
        BY <4>1 DEF Settled
    <3>2. CASE b \in cut'
      BY <3>2 DEF Settled
    <3> QED
      BY <2>2, <3>1, <3>2
  <2> QED
    BY <1>3, <1>4, <2>1, <2>2, <2>3, <2>4 DEF Busy
<1> QED
  BY <1>7, <1>8, <1>9, <1>10, <1>11

\* It stops at no answer, or an interruption makes it begin again.
LEMMA OutStops ==
  ASSUME IsLog, OutInv, UNCHANGED <<log, sent, tail>>, cursor'.outbox = cursor.outbox, cut \subseteq cut',
         breaks' \in Nat, breaks <= breaks', out.at \in Busy => breaks < breaks',
         out' = Free \/ (cursor.outbox = None /\ out' = [at |-> "tail", last |-> Len(log)])
  PROVE  OutInv'
<1>1. Len(log) \in Nat /\ UNCHANGED <<log, sent, tail>> /\ cursor'.outbox = cursor.outbox
  BY DEF IsLog
<1>2. /\ Kind("reply")' = Kind("reply") /\ Kind("user")' = Kind("user")
      /\ \A n \in Kind("reply") : (Personal(n)' <=> Personal(n)) /\ (Settled(n) => Settled(n)')
  BY DEF Kind, Personal, Settled, SentWhole, Has
<1>3. "at" \in DOMAIN out' /\ out'.at \in {"idle", "tail"} /\ out'.at \notin Busy
  BY DEF Free, Busy
<1>4. out'.at = "tail" => cursor.outbox = None /\ out'.last = Len(log)
  BY DEF Free
<1>5. SentOK /\ breaks \in Nat
  BY DEF OutInv
<1>6. SentOK'
  <2>1. \A k \in DOMAIN sent : sent[k].breaks <= breaks'
    BY <1>5 DEF SentOK
  <2> QED
    BY <1>1, <1>5, <2>1 DEF SentOK, InOrder
<1>7. ASSUME cursor.outbox # None
      PROVE  SentTo' /\ OutSettled'
  <2>1. SentTo /\ OutSettled
    BY <1>7 DEF OutInv
  <2>2. ASSUME NEW k \in DOMAIN sent, cursor.outbox < sent[k].of
        PROVE  sent[k].breaks < breaks'
    <3>1. sent[k].breaks \in Nat /\ sent[k].breaks <= breaks
      BY <1>5 DEF SentOK
    <3>2. CASE out.at \in Busy
      BY <1>5, <3>1, <3>2
    <3>3. CASE out.at \notin Busy
      <4>1. ~Past(out, sent[k].part)
        BY <3>3 DEF Past, Busy
      <4> QED
        BY <1>5, <2>1, <2>2, <3>1, <4>1 DEF SentTo
    <3> QED
      BY <3>2, <3>3
  <2>3. SentTo'
    BY <1>1, <1>2, <2>1, <2>2 DEF SentTo
  <2> QED
    BY <1>1, <1>2, <2>1, <2>3 DEF OutSettled
<1>8. /\ \A n \in Kind("reply")' : log'[n].of \in DOMAIN log'
      /\ \A n \in Kind("user")' : log'[n].of \in Msg
  BY <1>1, <1>2 DEF OutInv
<1> QED
  BY <1>1, <1>3, <1>4, <1>6, <1>7, <1>8 DEF OutInv

\* On a fresh install there is nothing sent, and nothing to settle.
LEMMA OutBegins ==
  ASSUME IsLog, CursorInv, OutInv, OutboxStarts \/ OutboxTail
  PROVE  OutInv'
<1>1. CASE OutboxStarts
  <2>1. /\ UNCHANGED <<log, cursor, sent, tail, cut, breaks>> /\ cursor.outbox = None /\ out.at \notin Busy
        /\ out' = [at |-> "tail", last |-> Len(log)]
    BY <1>1 DEF OutboxStarts, Outbox, Busy, shared
  <2>2. breaks' \in Nat /\ breaks <= breaks'
    BY <2>1 DEF OutInv
  <2> QED
    BY <2>1, <2>2, OutStops
<1>2. CASE OutboxTail
  <2>1. /\ UNCHANGED <<log, sent, cut, breaks>> /\ out.at = "tail" /\ tail' = out.last /\ out' = Free
        /\ CommitCursor("outbox", out.last)
    BY <1>2 DEF OutboxTail, Outbox
  <2>2. cursor.outbox = None /\ out.last \in Nat /\ out.last <= Len(log) /\ sent = <<>>
    BY <2>1 DEF OutInv
  <2>3. cursor'.outbox = out.last
    BY <2>1 DEF CommitCursor, CursorInv
  <2>4. \A n \in Kind("reply") : n \in Nat
    BY DEF Kind, IsLog
  <2>5. Kind("reply")' = Kind("reply") /\ Kind("user")' = Kind("user")
    BY <2>1 DEF Kind
  <2>6. OutSettled'
    BY <2>1, <2>2, <2>3, <2>4, <2>5 DEF OutSettled
  <2>7. SentTo'
    BY <2>1, <2>2 DEF SentTo
  <2>8. SentOK'
    BY <2>1 DEF OutInv, SentOK, InOrder
  <2>9. /\ \A n \in Kind("reply")' : log'[n].of \in DOMAIN log'
        /\ \A n \in Kind("user")' : log'[n].of \in Msg
    BY <2>1, <2>5 DEF OutInv
  <2>10. /\ "at" \in DOMAIN out' /\ out'.at = "idle" /\ tail' \in Nat /\ cursor'.outbox \in Nat
         /\ cursor'.outbox # None /\ cursor'.outbox <= Len(log') /\ breaks' \in Nat
    BY <2>1, <2>2, <2>3, SchedulesAssumption DEF OutInv, Free
  <2> QED
    BY <2>6, <2>7, <2>8, <2>9, <2>10 DEF OutInv, Busy
<1> QED
  BY <1>1, <1>2

\* It reads the answers from its cursor on: the first of them by rank, in order.
LEMMA OutReads ==
  ASSUME IsLog, OutInv, OutboxReads
  PROVE  OutInv'
<1> DEFINE answers == {n \in Outbound : n > cursor.outbox}
           first == {n \in answers : Cardinality({k \in answers : k <= n}) <= OutBatch}
<1>1. /\ UNCHANGED <<log, cursor, breaks, sent, tail, cut>> /\ out.at = "idle" /\ cursor.outbox # None /\ answers # {}
      /\ out' = [at |-> "route", batch |-> Ordered(first), part |-> 1, to |-> None]
  BY DEF OutboxReads, Outbox, shared
<1>2. PICK b : b = Ordered(first)
  OBVIOUS
<1>3. DOMAIN out' = {"at", "batch", "part", "to"} /\ out'.at = "route" /\ out'.part = 1 /\ out'.batch = b
  BY <1>1, <1>2
<1>4. cursor.outbox \in Nat
  BY <1>1 DEF OutInv
<1>5. \A n \in Kind("reply") : n \in Nat
  BY DEF Kind, IsLog
<1>6. answers \in SUBSET Nat /\ IsFiniteSet(answers) /\ answers = {n \in Kind("reply") : cursor.outbox < n}
  <2>1. Len(log) \in Nat /\ answers \in SUBSET (1..Len(log)) /\ answers \in SUBSET Nat
    BY DEF IsLog, Outbound, Kind
  <2>2. IsFiniteSet(1..Len(log))
    BY <2>1, FS_Interval
  <2>3. IsFiniteSet(answers)
    BY <2>1, <2>2, FS_Subset
  <2>4. answers = {n \in Kind("reply") : cursor.outbox < n}
    BY <1>4, <1>5 DEF Outbound
  <2> QED
    BY <2>1, <2>3, <2>4
<1>7. first \in SUBSET Nat /\ IsFiniteSet(first)
  BY <1>6, FS_Subset
<1>8. \A n \in answers : /\ IsFiniteSet({k \in answers : k <= n}) /\ Cardinality({k \in answers : k <= n}) \in Nat
  <2> TAKE n \in answers
  <2>1. {k \in answers : k <= n} \in SUBSET answers
    OBVIOUS
  <2> HIDE DEF answers
  <2> QED
    BY <1>6, <2>1, FS_Subset, FS_CardinalityType
<1>9. \A m \in answers, n \in first : m <= n => m \in first
  <2> SUFFICES ASSUME NEW m \in answers, NEW n \in first, m <= n
               PROVE  m \in first
    OBVIOUS
  <2>0. n \in answers /\ n \in Nat /\ m \in Nat
    BY <1>6
  <2>1. {k \in answers : k <= m} \in SUBSET {k \in answers : k <= n}
    <3>1. \A k \in answers : k \in Nat
      BY <1>6
    <3> HIDE DEF answers
    <3>2. \A k \in answers : k <= m => k <= n
      BY <2>0, <3>1
    <3> QED
      BY <3>2
  <2>2. Cardinality({k \in answers : k <= m}) <= Cardinality({k \in answers : k <= n})
    <3>1. PICK S, T : S = {k \in answers : k <= m} /\ T = {k \in answers : k <= n}
      OBVIOUS
    <3>2. S \in SUBSET T /\ IsFiniteSet(T)
      BY <1>8, <2>0, <2>1, <3>1
    <3>3. Cardinality(S) <= Cardinality(T)
      BY <3>2, FS_Subset
    <3> QED
      BY <3>1, <3>3
  <2>3. OutBatch \in Nat
    BY FeishuAssumption
  <2>4. PICK a \in Nat, c \in Nat : a = Cardinality({k \in answers : k <= m}) /\ c = Cardinality({k \in answers : k <= n})
    BY <1>8, <2>0
  <2>5. c <= OutBatch
    BY <2>4
  <2>6. a <= OutBatch
    BY <2>2, <2>3, <2>4, <2>5
  <2> QED
    BY <2>4, <2>6
<1>10. first # {}
  <2>1. \E n \in answers : Cardinality({k \in answers : k <= n}) = 1
    <3> HIDE DEF answers
    <3> QED
      BY <1>1, <1>6, FirstRank
  <2>2. 1 <= OutBatch
    BY FeishuAssumption
  <2> QED
    BY <2>1, <2>2
<1>11. /\ \A i \in DOMAIN b : b[i] \in first
       /\ \A i, j \in DOMAIN b : i < j => b[i] < b[j]
       /\ \A n \in first : \E j \in DOMAIN b : b[j] = n
       /\ b \in Seq(Nat) /\ b # <<>>
  <2> HIDE DEF first
  <2>1. /\ b \in Seq(first) /\ DOMAIN b = 1..Cardinality(first) /\ Cardinality(first) \in Nat
        /\ \A i \in DOMAIN b : b[i] \in first
        /\ \A i, j \in DOMAIN b : i < j => b[i] < b[j]
        /\ \A n \in first : \E j \in DOMAIN b : b[j] = n
    <3>1. /\ Ordered(first) \in Seq(first) /\ Cardinality(first) \in Nat
          /\ DOMAIN Ordered(first) = 1..Cardinality(first)
          /\ \A k \in 1..Cardinality(first) : Ordered(first)[k] \in first
          /\ \A n \in first : \E k \in 1..Cardinality(first) : Ordered(first)[k] = n
          /\ \A j, k \in 1..Cardinality(first) : j < k => Ordered(first)[j] < Ordered(first)[k]
      BY <1>7, Ranked
    <3>2. b = Ordered(first)
      BY <1>2
    <3> QED
      BY <3>1, <3>2
  <2>2. b \in Seq(Nat)
    <3>1. \A i \in DOMAIN b : b[i] \in Nat
      BY <1>7, <2>1
    <3>2. PICK len \in Nat : len = Cardinality(first)
      BY <2>1
    <3>3. b \in [1..len -> Nat]
      BY <2>1, <3>1, <3>2
    <3> QED
      BY <3>3
  <2>3. b # <<>>
    BY <1>10, <2>1
  <2> QED
    BY <2>1, <2>2, <2>3
<1>12. \A n \in first : n \in answers
  OBVIOUS
<1>13. Kind("reply")' = Kind("reply") /\ Kind("user")' = Kind("user")
  BY <1>1 DEF Kind
<1> HIDE DEF first
<1>14. BatchOK'
  <2>1. \A i \in DOMAIN b : b[i] \in Kind("reply") /\ cursor.outbox < b[i]
    BY <1>6, <1>11, <1>12
  <2>2. \A n \in Kind("reply"), i \in DOMAIN b :
          cursor.outbox < n /\ n <= b[i] => \E j \in DOMAIN b : b[j] = n
    <3> SUFFICES ASSUME NEW n \in Kind("reply"), NEW i \in DOMAIN b, cursor.outbox < n, n <= b[i]
                 PROVE  \E j \in DOMAIN b : b[j] = n
      OBVIOUS
    <3>1. n \in answers /\ b[i] \in first
      BY <1>6, <1>11
    <3> HIDE DEF answers
    <3>2. n \in first
      BY <1>9, <3>1
    <3> QED
      BY <1>11, <3>2
  <2> HIDE DEF answers
  <2> QED
    BY <1>1, <1>3, <1>11, <1>13, <2>1, <2>2 DEF BatchOK
<1> HIDE DEF answers
<1>15. AnswerOK'
  BY <1>3 DEF AnswerOK
<1>16. SentOK /\ SentTo /\ OutSettled
  BY <1>1 DEF OutInv
<1>17. SentOK'
  BY <1>1, <1>16 DEF SentOK, InOrder
<1>18. SentTo'
  <2>1. \A p : ~Past(out, p)
    BY <1>1 DEF Past
  <2> QED
    BY <1>1, <1>13, <1>16, <2>1 DEF SentTo
<1>19. OutSettled'
  BY <1>1, <1>13, <1>16 DEF OutSettled, Personal, Settled, SentWhole, Has, Kind
<1>20. /\ \A n \in Kind("reply")' : log'[n].of \in DOMAIN log'
       /\ \A n \in Kind("user")' : log'[n].of \in Msg
  BY <1>1, <1>13 DEF OutInv
<1>21. "at" \in DOMAIN out' /\ out'.at \in Busy /\ out'.at # "tail"
  BY <1>3 DEF Busy
<1>22. cursor.outbox <= Len(log) /\ tail \in Nat /\ breaks \in Nat
  BY <1>1 DEF OutInv
<1> QED
  BY <1>1, <1>4, <1>14, <1>15, <1>17, <1>18, <1>19, <1>20, <1>21, <1>22 DEF OutInv

\* It commits one answer and goes on with the next.
LEMMA OutCommits ==
  ASSUME IsLog, CursorInv, OutInv, OutboxCommits
  PROVE  OutInv'
<1>1. out.at = "commit" /\ UNCHANGED <<log, sent, tail, cut>> /\ out.at \in Busy
  BY DEF OutboxCommits, Outbox, Busy
<1>2. CASE breaks' = breaks + 1 /\ out' = Free /\ UNCHANGED cursor
  <2>1. breaks' \in Nat /\ breaks < breaks'
    BY <1>2 DEF OutInv
  <2> QED
    BY <1>1, <1>2, <2>1, OutStops DEF OutInv
<1>3. CASE /\ CommitCursor("outbox", Head(out.batch)) /\ UNCHANGED breaks
           /\ out' = IF Len(out.batch) = 1 THEN Free
                     ELSE [at |-> "route", batch |-> Tail(out.batch), part |-> 1, to |-> None]
  <2>0. PICK q \in Seq(Nat) : q = out.batch
    BY <1>1, FirstOfBatch
  <2> DEFINE b == q[1]
  <2>1. /\ cursor.outbox \in Nat /\ cursor.outbox # None
        /\ Len(q) \in Nat /\ Len(q) > 0 /\ DOMAIN q = 1..Len(q) /\ 1 \in DOMAIN q
        /\ Head(out.batch) = b /\ \A i \in DOMAIN q : q[i] \in Nat
        /\ b \in Kind("reply") /\ b \in Nat /\ cursor.outbox < b /\ b \in DOMAIN log
        /\ \A n \in Kind("reply") : cursor.outbox < n => n \in Nat /\ b <= n
    BY <1>1, <2>0, FirstOfBatch
  <2> HIDE DEF b
  <2>2. cursor'.outbox = b /\ cursor'.outbox \in Nat /\ cursor'.outbox # None
    BY <1>3, <2>1, SchedulesAssumption DEF CommitCursor, CursorInv
  <2>3. SentOK /\ SentTo /\ OutSettled /\ BatchOK /\ AnswerOK
    BY <1>1, <2>1 DEF OutInv
  <2>4. Kind("reply")' = Kind("reply") /\ Kind("user")' = Kind("user")
    BY <1>1 DEF Kind
  <2>5. \A n \in Kind("reply") : n \in Nat /\ n \in DOMAIN log
    BY DEF Kind, IsLog
  <2>6. \A k \in DOMAIN sent : sent[k].of \in Nat /\ sent[k].of <= b
    <3>1. \A k \in DOMAIN sent : sent[k].of \in DOMAIN log
      BY <2>3 DEF SentOK
    <3>2. \A n \in DOMAIN log : n \in Nat
      BY DEF IsLog
    <3> QED
      BY <2>1, <2>3, <3>1, <3>2 DEF SentTo
  <2>7. SentTo'
    <3>1. ASSUME NEW k \in DOMAIN sent, NEW n \in Kind("reply"), b < n
          PROVE  sent[k].of <= n
      BY <2>1, <2>5, <2>6, <3>1
    <3>2. \A k \in DOMAIN sent : ~(b < sent[k].of)
      BY <2>1, <2>6
    <3> QED
      BY <1>1, <2>2, <2>4, <3>1, <3>2 DEF SentTo
  <2>8. SentOK'
    BY <1>1, <1>3, <2>3 DEF SentOK, InOrder
  <2>9. OutSettled'
    <3>1. ASSUME NEW n \in Kind("reply"), tail < n, n <= b, Personal(n)
          PROVE  Settled(n)
      <4>1. CASE n <= cursor.outbox
        BY <2>3, <3>1, <4>1 DEF OutSettled
      <4>2. CASE ~(n <= cursor.outbox)
        <5>1. n = b
          BY <2>1, <2>5, <3>1, <4>2
        <5> QED
          BY <1>1, <2>1, <2>3, <3>1, <5>1 DEF AnswerOK
      <4> QED
        BY <4>1, <4>2
    <3>2. \A n : (Personal(n)' <=> Personal(n)) /\ (Settled(n)' <=> Settled(n))
      BY <1>1 DEF Personal, Settled, SentWhole, Has, Kind
    <3> QED
      BY <1>1, <2>2, <2>4, <3>1, <3>2 DEF OutSettled
  <2>10. /\ \A n \in Kind("reply")' : log'[n].of \in DOMAIN log'
         /\ \A n \in Kind("user")' : log'[n].of \in Msg
    BY <1>1, <2>4 DEF OutInv
  <2>11. cursor'.outbox <= Len(log') /\ tail' \in Nat /\ breaks' \in Nat
    <3>1. b <= Len(log)
      BY <2>1 DEF IsLog
    <3> QED
      BY <1>1, <1>3, <2>2, <3>1 DEF OutInv
  <2>12. CASE out' = Free
    <3>1. "at" \in DOMAIN out' /\ out'.at = "idle" /\ out'.at \notin Busy /\ out'.at # "tail"
      BY <2>12 DEF Free, Busy
    <3> QED
      BY <2>2, <2>7, <2>8, <2>9, <2>10, <2>11, <3>1 DEF OutInv
  <2>13. CASE Len(q) # 1 /\ out' = [at |-> "route", batch |-> Tail(q), part |-> 1, to |-> None]
    <3>0. PICK t : t = Tail(q)
      OBVIOUS
    <3>1. DOMAIN out' = {"at", "batch", "part", "to"} /\ out'.at = "route" /\ out'.part = 1 /\ out'.batch = t
      BY <2>13, <3>0
    <3>2. /\ t \in Seq(Nat) /\ Len(t) = Len(q) - 1 /\ DOMAIN t = 1..Len(q) - 1 /\ t # <<>>
          /\ \A i \in DOMAIN t : i \in Nat /\ i + 1 \in DOMAIN q /\ t[i] = q[i + 1] /\ 1 < i + 1
      <4>1. t \in Seq(Nat) /\ Len(t) = Len(q) - 1
        BY <2>1, <3>0
      <4>2. DOMAIN t = 1..Len(q) - 1
        BY <4>1
      <4>3. ASSUME NEW i \in DOMAIN t
            PROVE  i \in Nat /\ i + 1 \in DOMAIN q /\ t[i] = q[i + 1] /\ 1 < i + 1
        BY <2>1, <3>0, <4>2, <4>3
      <4>4. t # <<>>
        BY <2>1, <2>13, <4>1
      <4> QED
        BY <4>1, <4>2, <4>3, <4>4
    <3>3. /\ \A i \in DOMAIN q : q[i] \in Kind("reply")
          /\ \A i, j \in DOMAIN q : i < j => q[i] < q[j]
          /\ \A n \in Kind("reply"), i \in DOMAIN q : cursor.outbox < n /\ n <= q[i] => \E j \in DOMAIN q : q[j] = n
      BY <2>0, <2>3 DEF BatchOK
    <3>4. \A i \in DOMAIN t : t[i] \in Kind("reply") /\ b < t[i]
      BY <2>1, <3>2, <3>3 DEF b
    <3>5. ASSUME NEW i \in DOMAIN t, NEW j \in DOMAIN t, i < j
          PROVE  t[i] < t[j]
      <4>1. i + 1 < j + 1
        BY <3>2, <3>5
      <4> QED
        BY <3>2, <3>3, <4>1
    <3>6. ASSUME NEW n \in Kind("reply"), NEW i \in DOMAIN t, b < n, n <= t[i]
          PROVE  \E j \in DOMAIN t : t[j] = n
      <4>1. cursor.outbox < n
        BY <2>1, <2>5, <3>6
      <4>2. PICK j \in DOMAIN q : q[j] = n
        BY <3>2, <3>3, <3>6, <4>1
      <4>3. j # 1
        BY <2>1, <2>5, <3>6, <4>2 DEF b
      <4>4. j - 1 \in DOMAIN t /\ (j - 1) + 1 = j
        <5>1. PICK len \in Nat : len = Len(q)
          BY <2>1
        <5>2. j \in 1..len /\ DOMAIN t = 1..len - 1
          BY <2>1, <3>2, <4>2, <5>1
        <5>3. j \in Nat /\ j - 1 \in 1..len - 1 /\ (j - 1) + 1 = j
          BY <4>3, <5>2
        <5> QED
          BY <5>2, <5>3
      <4>5. t[j - 1] = n
        BY <3>2, <4>2, <4>4
      <4> QED
        BY <4>4, <4>5
    <3>7. BatchOK'
      <4>1. t \in Seq(Nat) /\ t # <<>> /\ out'.part \in Nat
        BY <3>1, <3>2
      <4>2. \A i \in DOMAIN out'.batch : out'.batch[i] \in Kind("reply")' /\ cursor'.outbox < out'.batch[i]
        BY <2>2, <2>4, <3>1, <3>4
      <4>3. \A i, j \in DOMAIN out'.batch : i < j => out'.batch[i] < out'.batch[j]
        BY <3>1, <3>5
      <4>4. \A n \in Kind("reply")', i \in DOMAIN out'.batch :
              cursor'.outbox < n /\ n <= out'.batch[i] => \E j \in DOMAIN out'.batch : out'.batch[j] = n
        BY <2>2, <2>4, <3>1, <3>6
      <4> QED
        BY <3>1, <4>1, <4>2, <4>3, <4>4 DEF BatchOK
    <3>8. AnswerOK'
      BY <3>1 DEF AnswerOK
    <3>9. "at" \in DOMAIN out' /\ out'.at \in Busy /\ out'.at # "tail"
      BY <3>1 DEF Busy
    <3> QED
      BY <2>2, <2>7, <2>8, <2>9, <2>10, <2>11, <3>7, <3>8, <3>9 DEF OutInv
  <2> QED
    BY <1>3, <2>0, <2>12, <2>13
<1> QED
  BY <1>2, <1>3 DEF OutboxCommits

-----------------------------------------------------------------------------
(* The steps, and the theorem *)

LEMMA KeepInvInit == Init => KeepInv
<1> SUFFICES ASSUME NEW scene \in Scenes, log = scene.log, FeishuInit(scene.outbox), breaks = 0, tri = Free,
                    cursor = [triage |-> 0, outbox |-> scene.outbox, distiller |-> 0]
             PROVE  KeepInv
  BY DEF Init
<1>1. IsLog /\ Len(log) \in Nat /\ DOMAIN log = 1..Len(log)
  BY ConsumersAssumption DEF IsLog
<1>2. /\ scene.outbox \in 0..Len(log) \cup {None}
      /\ \A n \in DOMAIN log : /\ log[n].kind \notin {"decision", "forgotten"}
                               /\ log[n].kind = "user" => log[n].of \in Msg
                               /\ log[n].kind = "reply" => log[n].of \in 1..n - 1
  BY ConsumersAssumption
<1>3. CursorInv /\ cursor.triage = 0 /\ cursor.outbox = scene.outbox
  BY DEF CursorInv
<1>4. tri.at = "idle" /\ out = Free /\ out.at = "idle" /\ "at" \in DOMAIN out /\ sent = <<>>
      /\ tail = IF scene.outbox = None THEN 0 ELSE scene.outbox
  BY DEF FeishuInit, Free
<1>5. TriInv
  <2>1. \A n \in DOMAIN log : n > 0 /\ n \in Nat
    BY <1>1
  <2>2. TriDecided
    BY <1>3, <1>4, <2>1 DEF TriDecided
  <2>3. Kind("decision") = {}
    BY <1>2 DEF Kind
  <2>4. TriOrder
    BY <2>3 DEF TriOrder
  <2> QED
    BY <1>1, <1>3, <1>4, <2>2, <2>4 DEF TriInv
<1>6. OutInv
  <2>1. tail \in Nat /\ cursor.outbox \in Nat \cup {None} /\ (cursor.outbox # None => cursor.outbox <= Len(log) /\ tail = cursor.outbox)
    BY <1>1, <1>2, <1>3, <1>4
  <2>2. SentOK
    <3>1. sent \in Seq({}) /\ DOMAIN sent = {}
      BY <1>4
    <3> QED
      BY <3>1 DEF SentOK, InOrder
  <2>3. SentTo
    BY <1>4 DEF SentTo
  <2>4. \A n \in Kind("reply") : n \in Nat /\ log[n].of \in DOMAIN log
    BY <1>1, <1>2 DEF Kind
  <2>5. cursor.outbox # None => OutSettled
    BY <2>1, <2>4 DEF OutSettled
  <2>6. \A n \in Kind("user") : log[n].of \in Msg
    BY <1>2 DEF Kind
  <2> QED
    BY <1>4, <2>1, <2>2, <2>3, <2>4, <2>5, <2>6 DEF OutInv, Busy
<1> QED
  BY <1>3, <1>5, <1>6 DEF KeepInv

\* What others do leaves triage and outbox where they are.
LEMMA KeepOthers ==
  ASSUME IsLog, KeepInv, tri' = tri, UNCHANGED <<out, sent, tail, breaks>>, cut \subseteq cut',
         DOMAIN cursor' = DOMAIN cursor, cursor'.triage = cursor.triage, cursor'.outbox = cursor.outbox,
         \/ log' = log
         \/ \E e : Record(e) /\ e.kind # "decision" /\ (e.kind = "reply" => e.of \in DOMAIN log) /\ (e.kind = "user" => e.of \in Msg)
  PROVE  KeepInv'
<1>1. breaks' \in Nat /\ breaks <= breaks'
  BY DEF KeepInv, TriInv
<1>2. TriInv'
  BY <1>1, TriKeeps DEF KeepInv
<1>3. OutInv'
  BY <1>1, OutKeeps DEF KeepInv
<1> QED
  BY <1>2, <1>3 DEF KeepInv, CursorInv

LEMMA KeepTriage ==
  ASSUME IsLog, KeepInv, TriageReads \/ TriageDecides \/ TriageCommits
  PROVE  KeepInv'
<1>1. UNCHANGED feishuVars
  BY DEF TriageReads, TriageDecides, TriageCommits
<1>2. cursor' = cursor \/ \E n : CommitCursor("triage", n)
  BY DEF TriageReads, TriageDecides, TriageCommits
<1>3. CursorInv' /\ cursor'.outbox = cursor.outbox
  BY <1>2 DEF KeepInv, CursorInv, CommitCursor
<1>4. breaks' \in Nat /\ breaks <= breaks'
  <2>1. breaks' = breaks \/ breaks' = breaks + 1
    BY DEF TriageReads, TriageDecides, TriageCommits
  <2> QED
    BY <2>1 DEF KeepInv, TriInv
<1>5. log' = log \/ \E e : Record(e) /\ (e.kind = "reply" => e.of \in DOMAIN log) /\ (e.kind = "user" => e.of \in Msg)
  <2>1. log' = log \/ Record(Decision)
    BY DEF TriageReads, TriageDecides, TriageCommits
  <2>2. Decision.kind = "decision"
    BY DEF Decision
  <2> QED
    BY <2>1, <2>2
<1>6. TriInv'
  BY TriInvStep DEF KeepInv
<1>7. OutInv'
  BY <1>1, <1>3, <1>4, <1>5, OutKeeps DEF KeepInv, feishuVars
<1> QED
  BY <1>3, <1>6, <1>7 DEF KeepInv

LEMMA KeepFeishu ==
  ASSUME GateInv, KeepInv, FeishuNext, tri' = tri
  PROVE  KeepInv'
<1>0. IsLog /\ CursorInv /\ OutInv /\ TriInv /\ HandsInv
  BY DEF GateInv, KeepInv
<1>1. ASSUME NEW h \in Handler, \/ \E m \in Msg : Delivers(h, m)
                               \/ Looks(h) \/ Judges(h) \/ Records(h) \/ Acts(h) \/ Binds(h) \/ Submits(h)
      PROVE  KeepInv'
  <2>1. UNCHANGED <<cursor, breaks, out, sent, tail>> /\ cut \subseteq cut'
    BY <1>1 DEF Delivers, Looks, Judges, Records, Acts, Binds, Submits, shared
  <2>2. log' = log \/ \E e : Record(e) /\ e.kind # "decision" /\ e.kind # "reply" /\ (e.kind = "user" => e.of \in Msg)
    <3>1. CASE Records(h)
      <4> DEFINE e == [kind |-> "feishu", of |-> hand[h].msg]
      <4>1. e.kind = "feishu" /\ (log' = log \/ Record(e))
        BY <3>1 DEF Records
      <4> HIDE DEF e
      <4> QED
        BY <4>1
    <3>2. CASE Acts(h)
      <4> DEFINE e == [kind |-> "ignored", of |-> hand[h].msg]
      <4>1. e.kind = "ignored" /\ (log' = log \/ Record(e))
        BY <3>2 DEF Acts
      <4> HIDE DEF e
      <4> QED
        BY <4>1
    <3>3. CASE Submits(h)
      <4> DEFINE e == [kind |-> "user", of |-> hand[h].msg, item |-> Target(hand[h].msg)]
      <4>1. e.kind = "user" /\ e.of = hand[h].msg /\ (log' = log \/ Record(e))
        BY <3>3 DEF Submits
      <4>2. hand[h].msg \in Msg
        BY <1>0, <3>3 DEF HandsInv, HandOK, Submits, Handling
      <4> HIDE DEF e
      <4> QED
        BY <4>1, <4>2
    <3> QED
      BY <1>1, <3>1, <3>2, <3>3 DEF Delivers, Looks, Judges, Binds, shared
  <2>3. \/ log' = log
        \/ \E e : Record(e) /\ e.kind # "decision" /\ (e.kind = "reply" => e.of \in DOMAIN log) /\ (e.kind = "user" => e.of \in Msg)
    BY <2>2
  <2> QED
    BY <1>0, <1>1, <2>1, <2>3, KeepOthers
<1>2. CASE OutboxStarts \/ OutboxTail \/ OutboxReads \/ OutboxRoutes \/ OutboxOpens \/ OutboxBinds
             \/ OutboxSends \/ OutboxFails \/ OutboxCommits
  <2>1. OutInv'
    BY <1>0, <1>2, OutBegins, OutReads, OutGoes, OutCommits
  <2>2. cursor' = cursor \/ \E n : CommitCursor("outbox", n)
    BY <1>2 DEF OutboxStarts, OutboxTail, OutboxReads, OutboxRoutes, OutboxOpens, OutboxBinds, OutboxSends,
                OutboxFails, OutboxCommits, shared
  <2>3. CursorInv' /\ cursor'.triage = cursor.triage
    BY <1>0, <2>2 DEF CursorInv, CommitCursor
  <2>4. breaks' \in Nat /\ breaks <= breaks'
    <3>1. breaks' = breaks \/ breaks' = breaks + 1
      BY <1>2 DEF OutboxStarts, OutboxTail, OutboxReads, OutboxRoutes, OutboxOpens, OutboxBinds, OutboxSends,
                  OutboxFails, OutboxCommits, shared
    <3> QED
      BY <1>0, <3>1 DEF TriInv
  <2>5. log' = log \/ \E e : Record(e) /\ e.kind # "decision"
    <3> DEFINE e == [kind |-> "error", of |-> Head(out.batch)]
    <3>1. e.kind = "error" /\ (log' = log \/ Record(e))
      BY <1>2 DEF OutboxStarts, OutboxTail, OutboxReads, OutboxRoutes, OutboxOpens, OutboxBinds, OutboxSends,
                  OutboxFails, OutboxCommits, shared
    <3> HIDE DEF e
    <3> QED
      BY <3>1
  <2>6. TriInv'
    BY <1>0, <2>3, <2>4, <2>5, TriKeeps
  <2> QED
    BY <2>1, <2>3, <2>6 DEF KeepInv
<1> QED
  BY <1>1, <1>2 DEF FeishuNext

LEMMA KeepCrash ==
  ASSUME IsLog, KeepInv, Crash
  PROVE  KeepInv'
<1>1. /\ UNCHANGED <<log, cursor, sent, tail>> /\ cut \subseteq cut' /\ out' = Free /\ tri' = Free /\ breaks' = breaks + 1
  BY DEF Crash, FeishuForgets
<1>2. breaks' \in Nat /\ breaks < breaks' /\ breaks <= breaks'
  BY <1>1 DEF KeepInv, TriInv
<1>3. TriInv'
  <2>1. cursor.triage \in Nat
    BY DEF KeepInv, TriInv
  <2>2. cursor'.triage = cursor.triage /\ cursor.triage # cursor.triage + 1 /\ tri'.at = "idle"
    BY <1>1, <2>1 DEF Free
  <2> QED
    BY <1>1, <1>2, <2>2, TriMoves DEF KeepInv
<1>4. OutInv'
  BY <1>1, <1>2, OutStops DEF KeepInv
<1> QED
  BY <1>1, <1>3, <1>4 DEF KeepInv, CursorInv

LEMMA KeepInvStep == GateInv /\ KeepInv /\ [Next]_vars => KeepInv'
<1> SUFFICES ASSUME GateInv, KeepInv, [Next]_vars  PROVE KeepInv'
  OBVIOUS
<1>0. IsLog /\ CursorInv
  BY DEF GateInv, KeepInv
<1>1. ASSUME UNCHANGED <<feishuVars, tri, breaks>>, cursor' = cursor \/ \E n : CommitCursor("distiller", n),
             \/ log' = log
             \/ \E e : Record(e) /\ e.kind # "decision" /\ (e.kind = "reply" => e.of \in DOMAIN log) /\ e.kind # "user"
      PROVE  KeepInv'
  <2>1. DOMAIN cursor' = DOMAIN cursor /\ cursor'.triage = cursor.triage /\ cursor'.outbox = cursor.outbox
    BY <1>0, <1>1 DEF CursorInv, CommitCursor
  <2>2. tri' = tri /\ UNCHANGED <<out, sent, tail, breaks>> /\ cut \subseteq cut'
    BY <1>1 DEF feishuVars
  <2>3. \/ log' = log
        \/ \E e : Record(e) /\ e.kind # "decision" /\ (e.kind = "reply" => e.of \in DOMAIN log) /\ (e.kind = "user" => e.of \in Msg)
    BY <1>1
  <2> QED
    BY <1>0, <2>1, <2>2, <2>3, KeepOthers
<1>2. CASE SchedNext /\ UNCHANGED <<feishuVars, memoryVars, tri>>
  <2>1. UNCHANGED <<cursor, breaks>>
    BY <1>2 DEF SchedNext, Tick, TickTakes, RunNow, Fires, Runs, MarkReads, MarkWrites, CreateSchedule, UpdateReads,
                UpdateWrites, DeleteSchedule, Passes, shared
  <2>2. log' = log \/ \E e : Record(e) /\ e.kind \in {"prompt", "http"}
    BY <1>2, SchedRecords
  <2> QED
    BY <1>1, <1>2, <2>1, <2>2
<1>3. CASE FeishuNext /\ UNCHANGED <<schedVars, memoryVars, tri>>
  BY <1>3, KeepFeishu
<1>4. CASE MemoryNext /\ UNCHANGED <<schedVars, feishuVars, tri>>
  <2>1. breaks' = breaks /\ (cursor' = cursor \/ \E n : CommitCursor("distiller", n))
    BY <1>4 DEF MemoryNext, WritesFile, LogsChange, Adds, Forgets, RedactMessage, DistillReads, DistillLooks, DistillLists,
                DistillReconciles, DistillThinks, DistillWeighs, DistillSkips, DistillChecks, DistillCopies,
                DistillPromoted, DistillCommits, shared
  <2>2. log' = log \/ \E e : Record(e) /\ e.kind \in {"promoted", "forgotten", "redacted"}
    BY <1>4, MemoryRecords DEF GateInv
  <2> QED
    BY <1>1, <1>4, <2>1, <2>2
<1>5. CASE TriageReads \/ TriageDecides \/ TriageCommits
  BY <1>0, <1>5, KeepTriage
<1>6. CASE Heartbeat \/ Webhook
  <2>1. PICK kind \in {"heartbeat", "webhook"} : Captures(kind)
    BY <1>6 DEF Heartbeat, Webhook
  <2> DEFINE e == [kind |-> kind, of |-> None]
  <2>2. Record(e) /\ e.kind = kind /\ UNCHANGED <<cursor, breaks, feishuVars, tri>>
    BY <2>1 DEF Captures
  <2> HIDE DEF e
  <2> QED
    BY <1>1, <2>2
<1>7. ASSUME NEW n \in DOMAIN log, NEW i, NEW parts, Answers(n, i, parts)
      PROVE  KeepInv'
  <2> DEFINE e == [kind |-> "reply", of |-> n, item |-> i, parts |-> parts]
  <2>1. Record(e) /\ e.kind = "reply" /\ e.of = n /\ UNCHANGED <<cursor, breaks, feishuVars, tri>>
    BY <1>7 DEF Answers
  <2> HIDE DEF e
  <2> QED
    BY <1>1, <1>7, <2>1
<1>8. CASE Crash
  BY <1>0, <1>8, KeepCrash
<1>9. CASE Start
  BY <1>1, <1>9 DEF Start
<1>10. CASE UNCHANGED vars
  BY <1>1, <1>10 DEF vars, shared
<1> QED
  BY <1>2, <1>3, <1>4, <1>5, <1>6, <1>7, <1>8, <1>9, <1>10 DEF Next

\* Triage and outbox act, then commit (connectors.go:42-75, feishu.go:544-563): up to its cursor
\* all is decided, and every answer to a person sent, or its failure recorded or unrecordable;
\* nothing is done out of order or, without an interruption, twice.
THEOREM ConsumersFollow == Spec => []ConsumersKeepUp
<1>1. GateInv /\ KeepInv => ConsumersKeepUp
  <2> SUFFICES ASSUME GateInv, KeepInv  PROVE ConsumersKeepUp
    OBVIOUS
  <2>0. IsLog /\ TriInv /\ OutInv
    BY DEF GateInv, KeepInv
  <2>1. \A n \in DOMAIN log : n <= cursor.triage /\ NeedsTriage(log[n]) => Decided(n)
    BY <2>0 DEF TriInv, TriDecided
  <2>2. cursor.outbox # None => \A n \in Kind("reply") :
          tail < n /\ n <= cursor.outbox /\ log[log[n].of].kind = "user" => SentWhole(n) \/ Has("error", n) \/ n \in cut
    BY <2>0 DEF OutInv, OutSettled, Personal, Settled
  <2>3. InOrder(sent)
    BY <2>0 DEF OutInv, SentOK
  <2> DEFINE kind == Kind("decision")
             o == Ordered(kind)
             done == [n \in 1..Cardinality(kind) |-> [of |-> log[o[n]].of, part |-> 0, breaks |-> log[o[n]].breaks]]
  <2>4. kind \in SUBSET Nat /\ IsFiniteSet(kind)
    <3>1. Len(log) \in Nat /\ kind \in SUBSET (1..Len(log)) /\ kind \in SUBSET Nat
      BY <2>0 DEF IsLog, Kind
    <3>2. IsFiniteSet(1..Len(log))
      BY <3>1, FS_Interval
    <3> QED
      BY <3>1, <3>2, FS_Subset
  <2> HIDE DEF kind
  <2>5. /\ Cardinality(kind) \in Nat
        /\ \A k \in 1..Cardinality(kind) : o[k] \in kind
        /\ \A j, k \in 1..Cardinality(kind) : j < k => o[j] < o[k]
    BY <2>4, Ranked
  <2> HIDE DEF o
  <2>6. \A d, e \in kind : d < e => log[d].of < log[e].of \/ (log[d].of = log[e].of /\ log[d].breaks < log[e].breaks)
    BY <2>0 DEF kind, TriInv, TriOrder
  <2>7. ASSUME NEW k \in 1..Cardinality(kind)
        PROVE  done[k].of = log[o[k]].of /\ done[k].breaks = log[o[k]].breaks
    OBVIOUS
  <2>8. DOMAIN done = 1..Cardinality(kind)
    OBVIOUS
  <2> HIDE DEF done
  <2>9. InOrder(done)
    BY <2>5, <2>6, <2>7, <2>8 DEF InOrder
  <2> QED
    BY <2>1, <2>2, <2>3, <2>9 DEF ConsumersKeepUp, done, o, kind
<1>2. Init => GateInv /\ KeepInv
  BY GateInvInit, KeepInvInit
<1>3. GateInv /\ KeepInv /\ [Next]_vars => (GateInv /\ KeepInv)'
  BY GateInvStep, KeepInvStep
<1> QED
  BY <1>1, <1>2, <1>3, PTL DEF Spec

-----------------------------------------------------------------------------
(* THE DISTILLER                                                            *)

(* The invariant *)

\* Where it goes once it has answered.
Answered == {"weigh", "check", "copy", "promote"}

\* It read all that means something up to where it read, and nothing hidden by then.
ReadOK ==
  /\ DOMAIN dist = {"at", "last", "seqs", "head", "known", "todo"}
  /\ dist.last \in Nat /\ dist.last <= Len(log) /\ dist.head \in Nat /\ dist.head <= Len(log)
  /\ \A n \in MeaningfulEvents(DOMAIN log) : cursor.distiller < n /\ n <= dist.last => n \in dist.seqs
  /\ \A n \in Kind("redacted") : log[n].of \in dist.seqs => n > dist.head
  /\ dist.at = "commit" => dist.seqs = {}
  /\ dist.at \in Answered => \A n \in dist.seqs : \E t \in thought : t.of = n
ShownOK ==
  /\ \A t \in thought : t.head \in Nat /\ t.head <= Len(log)
  /\ \A t \in thought, n \in Kind("redacted") : log[n].of = t.of => n > t.head
  /\ \A n \in MeaningfulEvents(DOMAIN log) : n <= cursor.distiller => \E t \in thought : t.of = n
ReadInv ==
  /\ cursor.distiller \in Nat /\ cursor.distiller <= Len(log)
  /\ "at" \in DOMAIN dist /\ dist.at \in {"idle", "look", "list", "reconcile", "commit"} \cup Answered
  /\ ShownOK /\ (dist.at # "idle" => ReadOK)

\* What it knows is accounted for, or about to be.
KnownInv ==
  /\ dist.at = "list" => dist.known \subseteq 1..issued
  /\ dist.at = "reconcile" => /\ dist.todo \in Seq(Nat)
                              /\ \A id \in dist.known : Has("promoted", id) \/ \E k \in DOMAIN dist.todo : dist.todo[k] = id
  /\ dist.at \in Answered => \A id \in dist.known : Has("promoted", id)

\* What it has left to promote.
IdeaOK(i) == DOMAIN i = {"what", "layer", "sure"} /\ i.layer \in Layer
TodoOK(todo) == (\E S : todo \in Seq(S)) /\ \A k \in DOMAIN todo : IdeaOK(todo[k])
TodoInv ==
  /\ dist.at \in Answered => TodoOK(dist.todo)
  /\ dist.at \in {"check", "copy", "promote"} => dist.todo # <<>>

\* Ids are given once: what is in a file, about to be, or forgotten has one.
Given(id) == id \in 1..issued
Changing == {w \in Writer : edit[w].at \in {"write", "log"}}
Adding(w) == edit[w].at = "write" /\ edit[w].record.kind = "promoted"
ChangeOK(w, j) ==
  /\ DOMAIN j = {"at", "layer", "base", "to", "record"} /\ j.layer \in Layer /\ Given(j.record.of)
  /\ \A e \in j.base \cup j.to : Given(e.id)
  /\ \/ j.record.kind = "promoted" /\ \E e \in j.to : e.id = j.record.of /\ e.by = w /\ j.to = j.base \cup {e}
     \/ j.record.kind = "forgotten" /\ w # Distiller /\ \E e \in j.base : e.id = j.record.of /\ j.to = j.base \ {e}
FilesInv ==
  /\ issued \in Nat /\ DOMAIN file = Layer /\ clashed \in BOOLEAN
  /\ \A layer \in Layer : \A e \in file[layer] : Given(e.id)
  /\ DOMAIN edit = Writer
  /\ \A w \in Writer : "at" \in DOMAIN edit[w] /\ edit[w].at \in {"idle", "write", "log", "done", "failed"}
  /\ \A w \in Changing : ChangeOK(w, edit[w])
  /\ \A n \in Kind("forgotten") : Given(log[n].of)
  /\ edit[Distiller].at # "idle" => dist.at = "promote"

\* As long as none wrote over another's change: an entry is in one file, and nowhere until it is
\* written and once it was forgotten; and the distiller promotes what the layer does not hold.
Nowhere(id) == \A layer \in Layer : \A e \in file[layer] : e.id # id
Promoted(layer, what) == \E e \in file[layer] : e.by = Distiller /\ e.what = what
InOneFile == \A k, l \in Layer : \A e \in file[k], f \in file[l] : e.id = f.id => k = l /\ e = f
PromotedOnce == \A layer \in Layer : \A e, f \in file[layer] : e.what = f.what /\ e.by = Distiller /\ f.by = Distiller => e = f
ForgottenGone ==
  /\ \A n \in Kind("forgotten") : Nowhere(log[n].of)
  /\ \A w \in Changing : edit[w].at = "log" /\ edit[w].record.kind = "forgotten" => Nowhere(edit[w].record.of)
AddedNew ==
  \A w \in Changing : Adding(w) =>
    /\ Nowhere(edit[w].record.of)
    /\ \A v \in Changing : v # w => edit[v].record.of # edit[w].record.of
    /\ \A n \in Kind("forgotten") : log[n].of # edit[w].record.of
PromotesNew ==
  /\ dist.at = "copy" => ~Promoted(Head(dist.todo).layer, Head(dist.todo).what)
  /\ edit[Distiller].at = "write" =>
       \A e \in edit[Distiller].to \ edit[Distiller].base : ~Promoted(edit[Distiller].layer, e.what)
CleanInv == InOneFile /\ PromotedOnce /\ ForgottenGone /\ AddedNew /\ PromotesNew

MindInv == ReadInv /\ KnownInv /\ TodoInv /\ FilesInv /\ (~clashed => CleanInv)

-----------------------------------------------------------------------------
(* What it reads *)

\* What means something, of what was in the log before, meant it then.
LEMMA OldMeaning ==
  ASSUME IsLog, log' = log \/ \E e : Record(e)
  PROVE  /\ \A n \in MeaningfulEvents(DOMAIN log)' : n \in DOMAIN log => n \in MeaningfulEvents(DOMAIN log)
         /\ \A n \in MeaningfulEvents(DOMAIN log)' : n \in DOMAIN log \/ Len(log) < n
         /\ \A n \in Kind("redacted")' : n \in Nat /\ ((n \in Kind("redacted") /\ log'[n] = log[n]) \/ Len(log) < n)
<1>1. /\ Len(log) \in Nat /\ DOMAIN log = 1..Len(log) /\ DOMAIN log' = 1..Len(log')
      /\ \A n \in DOMAIN log : n \in Nat /\ n \in DOMAIN log' /\ log'[n] = log[n]
      /\ \A n \in DOMAIN log' : n \in Nat
      /\ \A n : n \in Kind("redacted")' /\ n \in DOMAIN log => n \in Kind("redacted")
      /\ \A of : Has("redacted", of) => Has("redacted", of)'
  BY Older
<1>2. \A n \in DOMAIN log' : n \in DOMAIN log \/ Len(log) < n
  BY <1>1
<1>3. \A n \in MeaningfulEvents(DOMAIN log)' : n \in DOMAIN log'
  BY DEF MeaningfulEvents
<1>4. \A n \in Kind("redacted")' : n \in DOMAIN log'
  BY DEF Kind
<1>5. ASSUME NEW n \in MeaningfulEvents(DOMAIN log)', n \in DOMAIN log
      PROVE  n \in MeaningfulEvents(DOMAIN log)
  <2>1. Carries(n)' /\ ~Hidden(n)'
    BY DEF MeaningfulEvents
  <2>2. Carries(n)
    BY <1>1, <1>5, <2>1 DEF Carries
  <2>3. ~Hidden(n)
    BY <1>1, <2>1 DEF Hidden
  <2> QED
    BY <1>5, <2>2, <2>3 DEF MeaningfulEvents
<1> QED
  BY <1>1, <1>2, <1>3, <1>4, <1>5

\* What it was shown stays shown, and what is hidden later is hidden after that.
LEMMA ShownStays ==
  ASSUME IsLog, ReadInv, UNCHANGED thought, cursor'.distiller = cursor.distiller, log' = log \/ \E e : Record(e)
  PROVE  ShownOK' /\ cursor'.distiller \in Nat /\ cursor'.distiller <= Len(log')
<1>1. Len(log) \in Nat /\ Len(log') \in Nat /\ Len(log) <= Len(log')
  BY Older
<1>2. /\ \A n \in MeaningfulEvents(DOMAIN log)' : n \in DOMAIN log => n \in MeaningfulEvents(DOMAIN log)
      /\ \A n \in MeaningfulEvents(DOMAIN log)' : n \in DOMAIN log \/ Len(log) < n
      /\ \A n \in Kind("redacted")' : n \in Nat /\ ((n \in Kind("redacted") /\ log'[n] = log[n]) \/ Len(log) < n)
  BY OldMeaning
<1>3. ShownOK /\ cursor.distiller \in Nat /\ cursor.distiller <= Len(log)
  BY DEF ReadInv
<1>4. \A t \in thought : t.head \in Nat /\ t.head <= Len(log)
  BY <1>3 DEF ShownOK
<1>5. ASSUME NEW t \in thought, NEW n \in Kind("redacted")', log'[n].of = t.of
      PROVE  n > t.head
  <2>1. CASE n \in Kind("redacted") /\ log'[n] = log[n]
    BY <1>3, <1>5, <2>1 DEF ShownOK
  <2>2. CASE Len(log) < n
    BY <1>1, <1>2, <1>4, <2>2
  <2> QED
    BY <1>2, <2>1, <2>2
<1>6. ASSUME NEW n \in MeaningfulEvents(DOMAIN log)', n <= cursor.distiller
      PROVE  \E t \in thought : t.of = n
  <2>1. n \in DOMAIN log'
    BY DEF MeaningfulEvents
  <2>2. n \in Nat
    BY <2>1, Older
  <2>3. n \in DOMAIN log
    BY <1>1, <1>2, <1>3, <1>6, <2>2
  <2> QED
    BY <1>2, <1>3, <1>6, <2>3 DEF ShownOK
<1>7. cursor'.distiller \in Nat /\ cursor'.distiller <= Len(log') /\ \A t \in thought : t.head <= Len(log')
  BY <1>1, <1>3, <1>4
<1> QED
  BY <1>4, <1>5, <1>6, <1>7 DEF ShownOK

\* It goes on with what it read, or ends.
LEMMA ReadGoes ==
  ASSUME IsLog, ReadInv, UNCHANGED thought, cursor'.distiller = cursor.distiller, log' = log \/ \E e : Record(e),
         "at" \in DOMAIN dist', dist'.at \in {"idle", "look", "list", "reconcile", "commit"} \cup Answered,
         dist'.at # "idle" => /\ dist.at # "idle" /\ DOMAIN dist' = DOMAIN dist
                              /\ dist'.last = dist.last /\ dist'.seqs = dist.seqs /\ dist'.head = dist.head
                              /\ dist'.at = "commit" => dist.at = "commit"
                              /\ dist'.at \in Answered => dist.at \in Answered
  PROVE  ReadInv'
<1>1. ShownOK' /\ cursor'.distiller \in Nat /\ cursor'.distiller <= Len(log')
  BY ShownStays
<1>2. ASSUME dist'.at # "idle"
      PROVE  ReadOK'
  <2>1. /\ dist.at # "idle" /\ DOMAIN dist' = DOMAIN dist
        /\ dist'.last = dist.last /\ dist'.seqs = dist.seqs /\ dist'.head = dist.head
        /\ (dist'.at = "commit" => dist.at = "commit") /\ (dist'.at \in Answered => dist.at \in Answered)
    BY <1>2
  <2>2. ReadOK
    BY <2>1 DEF ReadInv
  <2>a. PICK last \in Nat, head \in Nat : \E seqs : dist.last = last /\ dist.head = head /\ dist.seqs = seqs
    BY <2>2 DEF ReadOK
  <2>3. PICK seqs : dist.last = last /\ dist.head = head /\ dist.seqs = seqs
    BY <2>a
  <2>4. Len(log) \in Nat /\ Len(log') \in Nat /\ Len(log) <= Len(log') /\ \A n \in DOMAIN log' : n \in Nat
    BY Older
  <2>5. last <= Len(log) /\ head <= Len(log)
    BY <2>2, <2>3 DEF ReadOK
  <2>6. /\ \A n \in MeaningfulEvents(DOMAIN log)' : n \in DOMAIN log => n \in MeaningfulEvents(DOMAIN log)
        /\ \A n \in MeaningfulEvents(DOMAIN log)' : n \in DOMAIN log \/ Len(log) < n
        /\ \A n \in Kind("redacted")' : n \in Nat /\ ((n \in Kind("redacted") /\ log'[n] = log[n]) \/ Len(log) < n)
    BY OldMeaning
  <2>7. ASSUME NEW n \in MeaningfulEvents(DOMAIN log)', cursor.distiller < n, n <= last
        PROVE  n \in seqs
    <3>1. n \in Nat
      BY <2>4 DEF MeaningfulEvents
    <3>2. n \in MeaningfulEvents(DOMAIN log)
      BY <2>4, <2>5, <2>6, <2>7, <3>1
    <3> QED
      BY <2>2, <2>3, <2>7, <3>2 DEF ReadOK
  <2>8. ASSUME NEW n \in Kind("redacted")', log'[n].of \in seqs
        PROVE  n > head
    <3>1. CASE n \in Kind("redacted") /\ log'[n] = log[n]
      BY <2>2, <2>3, <2>8, <3>1 DEF ReadOK
    <3>2. CASE Len(log) < n
      BY <2>4, <2>5, <2>6, <3>2
    <3> QED
      BY <2>6, <3>1, <3>2
  <2>9. last <= Len(log') /\ head <= Len(log')
    BY <2>4, <2>5
  <2>10. /\ dist'.at = "commit" => seqs = {}
         /\ dist'.at \in Answered => \A n \in seqs : \E t \in thought : t.of = n
    BY <2>1, <2>2, <2>3 DEF ReadOK
  <2> QED
    BY <2>1, <2>2, <2>3, <2>7, <2>8, <2>9, <2>10 DEF ReadOK
<1> QED
  BY <1>1, <1>2 DEF ReadInv

\* It is shown what it read, as the log was then.
LEMMA ReadThinks ==
  ASSUME IsLog, ReadInv, DistillThinks
  PROVE  ReadInv'
<1>1. dist.at = "reconcile" /\ UNCHANGED <<log, cursor>>
  BY DEF DistillThinks, Distills
<1>2. ReadOK /\ ShownOK /\ cursor.distiller \in Nat /\ cursor.distiller <= Len(log)
  BY <1>1 DEF ReadInv
<1>3. CASE dist' = Rests /\ UNCHANGED thought
  BY <1>1, <1>3, ReadGoes DEF Rests
<1>4. CASE /\ \E ideas \in Ideas : dist' = [dist EXCEPT !.at = "weigh", !.todo = ideas]
           /\ thought' = thought \cup {[of |-> n, head |-> dist.head] : n \in dist.seqs}
  <2>1. /\ dist'.at = "weigh" /\ DOMAIN dist' = DOMAIN dist
        /\ dist'.last = dist.last /\ dist'.seqs = dist.seqs /\ dist'.head = dist.head
    BY <1>2, <1>4 DEF ReadOK
  <2>2. \A n \in dist.seqs : \E t \in thought' : t.of = n /\ t.head = dist.head
    <3> TAKE n \in dist.seqs
    <3>1. [of |-> n, head |-> dist.head] \in thought'
      BY <1>4
    <3> QED
      BY <3>1
  <2>3. \A t \in thought' : t \in thought \/ (t.of \in dist.seqs /\ t.head = dist.head)
    BY <1>4
  <2>4. \A t \in thought : t \in thought'
    BY <1>4
  <2>5. /\ MeaningfulEvents(DOMAIN log)' = MeaningfulEvents(DOMAIN log) /\ Kind("redacted")' = Kind("redacted")
    BY <1>1 DEF MeaningfulEvents, Carries, Hidden, Has, Kind
  <2>6. ShownOK'
    BY <1>1, <1>2, <2>3, <2>4, <2>5 DEF ShownOK, ReadOK
  <2>7. ReadOK'
    BY <1>1, <1>2, <2>1, <2>2, <2>5 DEF ReadOK
  <2> QED
    BY <1>1, <1>2, <1>4, <2>1, <2>6, <2>7 DEF ReadInv, Answered, ReadOK
<1> QED
  BY <1>3, <1>4 DEF DistillThinks

\* Its cursor passes what it was shown.
LEMMA ReadCommits ==
  ASSUME IsLog, CursorInv, ReadInv, DistillCommits
  PROVE  ReadInv'
<1>1. dist.at \in {"weigh", "commit"} /\ dist.at # "idle" /\ dist' = Rests /\ UNCHANGED <<log, thought>>
  BY DEF DistillCommits, Distills
<1>2. ReadOK /\ ShownOK
  BY <1>1 DEF ReadInv
<1>3. CASE cursor' = cursor
  BY <1>1, <1>3, ReadGoes DEF Rests
<1>4. CASE CommitCursor("distiller", dist.last)
  <2>1. cursor'.distiller = dist.last /\ dist.last \in Nat /\ dist.last <= Len(log)
    BY <1>2, <1>4 DEF CommitCursor, CursorInv, ReadOK
  <2>2. \A n \in dist.seqs : \E t \in thought : t.of = n
    BY <1>1, <1>2 DEF ReadOK, Answered
  <2>3. /\ MeaningfulEvents(DOMAIN log)' = MeaningfulEvents(DOMAIN log) /\ Kind("redacted")' = Kind("redacted")
    BY <1>1 DEF MeaningfulEvents, Carries, Hidden, Has, Kind
  <2>4. ASSUME NEW n \in MeaningfulEvents(DOMAIN log), n <= dist.last
        PROVE  \E t \in thought : t.of = n
    <3>1. n \in Nat /\ cursor.distiller \in Nat
      BY DEF MeaningfulEvents, IsLog, ReadInv
    <3>2. CASE n <= cursor.distiller
      BY <1>2, <3>2 DEF ShownOK
    <3>3. CASE cursor.distiller < n
      BY <1>2, <2>2, <2>4, <3>3 DEF ReadOK
    <3> QED
      BY <3>1, <3>2, <3>3
  <2>5. ShownOK'
    BY <1>1, <1>2, <2>1, <2>3, <2>4 DEF ShownOK
  <2>6. "at" \in DOMAIN dist' /\ dist'.at = "idle"
    BY <1>1 DEF Rests
  <2> QED
    BY <1>1, <2>1, <2>5, <2>6 DEF ReadInv
<1> QED
  BY <1>3, <1>4 DEF DistillCommits

\* Some number is the least.
LEMMA Least ==
  ASSUME NEW S, S \in SUBSET Nat, IsFiniteSet(S), S # {}
  PROVE  \E n \in S : \A m \in S : n <= m
<1>1. Cardinality(S) \in Nat /\ Cardinality(S) # 0
  BY FS_CardinalityType, FS_EmptySet
<1>2. 1 \in 1..Cardinality(S) /\ \A k \in 1..Cardinality(S) : k = 1 \/ 1 < k
  BY <1>1
<1>3. /\ \A k \in 1..Cardinality(S) : Ordered(S)[k] \in S
      /\ \A n \in S : \E k \in 1..Cardinality(S) : Ordered(S)[k] = n
      /\ \A j, k \in 1..Cardinality(S) : j < k => Ordered(S)[j] < Ordered(S)[k]
  BY Ranked
<1>4. ASSUME NEW m \in S
      PROVE  Ordered(S)[1] <= m
  <2>1. PICK k \in 1..Cardinality(S) : Ordered(S)[k] = m
    BY <1>3
  <2>2. PICK a \in Nat : a = Ordered(S)[1]
    BY <1>2, <1>3
  <2>3. m \in Nat
    OBVIOUS
  <2>4. a = m \/ a < m
    BY <1>2, <1>3, <2>1, <2>2
  <2> QED
    BY <2>2, <2>3, <2>4
<1> QED
  BY <1>2, <1>3, <1>4

\* It stops reading at some page.
LEMMA PagesEnd == PagesRead \in 1..DistillCap
<1> DEFINE S == {p \in 1..DistillCap : LastPage(p)}
<1>1. DistillCap \in Nat \ {0} /\ DistillPage \in Nat \ {0}
  BY MemoriesAssumption
<1>2. LastPage(DistillCap)
  <2>1. DistillCap * DistillPage >= DistillCap
    <3>1. PICK c \in Nat, d \in Nat : c = DistillCap /\ DistillPage = d + 1
      <4>1. DistillPage - 1 \in Nat /\ DistillPage = (DistillPage - 1) + 1
        BY <1>1
      <4> QED
        BY <1>1, <4>1
    <3>2. c * (d + 1) = c * d + c /\ c * d \in Nat
      OBVIOUS
    <3> QED
      BY <3>1, <3>2
  <2> QED
    BY <2>1 DEF LastPage
<1>3. S \in SUBSET (1..DistillCap) /\ S \in SUBSET Nat /\ S # {}
  BY <1>1, <1>2
<1>4. IsFiniteSet(1..DistillCap)
  BY <1>1, FS_Interval
<1>5. IsFiniteSet(S)
  BY <1>3, <1>4, FS_Subset
<1>6. PICK p \in S : \A m \in S : p <= m
  BY <1>3, <1>5, Least
<1>7. \A q \in 1..p - 1 : ~LastPage(q)
  <2>1. p \in 1..DistillCap
    OBVIOUS
  <2>2. ASSUME NEW q \in 1..p - 1, LastPage(q)
        PROVE  FALSE
    <3>1. q \in 1..DistillCap /\ q < p /\ q \in Nat /\ p \in Nat
      BY <1>1, <2>1
    <3>2. q \in S
      BY <2>2, <3>1
    <3>3. p <= q
      BY <1>6, <3>2
    <3> QED
      BY <3>1, <3>3
  <2> QED
    BY <2>2
<1>8. p \in 1..DistillCap /\ LastPage(p)
  OBVIOUS
<1>9. \E x \in 1..DistillCap : LastPage(x) /\ \A q \in 1..x - 1 : ~LastPage(q)
  BY <1>7, <1>8
<1> QED
  BY <1>9 DEF PagesRead

\* Forward from its cursor, all that means something up to the last it read.
LEMMA ReadReads ==
  ASSUME IsLog, ReadInv, DistillReads
  PROVE  ReadInv'
<1> DEFINE batch == Pages(PagesRead)
           some == MeaningfulEvents(batch)
<1>1. /\ UNCHANGED <<log, cursor, thought>>
      /\ dist' = [at |-> IF some = {} THEN "commit" ELSE "look", last |-> cursor.distiller + Cardinality(batch),
                  seqs |-> some, head |-> Len(log), known |-> {}, todo |-> <<>>]
  BY DEF DistillReads
<1>2. PICK c \in Nat, len \in Nat : cursor.distiller = c /\ Len(log) = len /\ c <= len /\ DOMAIN log = 1..len
  BY DEF ReadInv, IsLog
<1>3. PICK pages \in Nat : pages = PagesRead * DistillPage
  <2>1. PagesRead \in Nat /\ DistillPage \in Nat
    BY PagesEnd, MemoriesAssumption
  <2> QED
    BY <2>1
<1>4. PICK last \in Nat : last = IF c + pages <= len THEN c + pages ELSE len
  BY <1>2, <1>3
<1>5. batch = c + 1..last
  <2>1. batch = {n \in 1..len : c < n /\ n <= c + pages}
    BY <1>2, <1>3 DEF Pages, NextBatch
  <2> HIDE DEF batch
  <2>2. \A n \in 1..len : (c < n /\ n <= c + pages) <=> (n \in c + 1..last)
    BY <1>2, <1>3, <1>4
  <2>3. \A n \in c + 1..last : n \in 1..len
    BY <1>2, <1>3, <1>4
  <2> QED
    BY <2>1, <2>2, <2>3
<1>6. c <= last /\ last <= len
  BY <1>2, <1>3, <1>4
<1> HIDE DEF batch
<1>7. c + Cardinality(batch) = last
  <2>1. Cardinality(c + 1..last) = IF c + 1 > last THEN 0 ELSE last - (c + 1) + 1
    BY FS_Interval
  <2> QED
    BY <1>5, <1>6, <2>1
<1>8. /\ DOMAIN dist' = {"at", "last", "seqs", "head", "known", "todo"} /\ dist'.last = last /\ dist'.head = len
      /\ dist'.seqs = some /\ dist'.at = IF some = {} THEN "commit" ELSE "look"
  BY <1>1, <1>2, <1>7
<1>9. /\ MeaningfulEvents(DOMAIN log)' = MeaningfulEvents(DOMAIN log) /\ Kind("redacted")' = Kind("redacted")
  BY <1>1 DEF MeaningfulEvents, Carries, Hidden, Has, Kind
<1>10. ASSUME NEW n \in MeaningfulEvents(DOMAIN log), c < n, n <= last
       PROVE  n \in some
  <2>1. n \in DOMAIN log /\ n \in Nat
    BY <1>2 DEF MeaningfulEvents
  <2>2. n \in batch
    BY <1>2, <1>5, <1>10, <2>1
  <2> QED
    BY <2>2 DEF MeaningfulEvents
<1>11. \A n \in Kind("redacted") : log[n].of \notin some
  BY DEF MeaningfulEvents, Hidden, Has
<1> HIDE DEF some
<1>12. ReadOK'
  BY <1>1, <1>2, <1>6, <1>8, <1>9, <1>10, <1>11 DEF ReadOK, Answered
<1>13. ShownOK'
  BY <1>1, <1>9 DEF ReadInv, ShownOK
<1> QED
  BY <1>1, <1>2, <1>8, <1>12, <1>13 DEF ReadInv, Answered

-----------------------------------------------------------------------------
(* The memory files *)

\* What the files promise is kept by whatever leaves them and their writers alone.
LEMMA FilesStay ==
  ASSUME IsLog, FilesInv, ~clashed => CleanInv, UNCHANGED <<file, issued, edit, clashed>>,
         log' = log \/ \E e : Record(e) /\ e.kind # "forgotten",
         dist.at = "promote" => dist'.at = "promote",
         dist'.at = "copy" => clashed \/ ~Promoted(Head(dist'.todo).layer, Head(dist'.todo).what)
  PROVE  FilesInv' /\ (~clashed' => CleanInv')
<1>1. /\ Kind("forgotten")' = Kind("forgotten")
      /\ \A n \in Kind("forgotten") : log'[n] = log[n]
  <2>1. Kind("forgotten")' = Kind("forgotten")
    BY SameKind
  <2>2. log' = log \/ \E e : Record(e)
    OBVIOUS
  <2>3. \A n \in DOMAIN log : log'[n] = log[n]
    BY <2>2, Older
  <2> QED
    BY <2>1, <2>3 DEF Kind
<1>2. UNCHANGED <<file, issued, edit, clashed>>
  OBVIOUS
<1>3. /\ Changing' = Changing /\ (\A w : Adding(w)' <=> Adding(w)) /\ (\A id : Given(id)' <=> Given(id))
      /\ (\A id : Nowhere(id)' <=> Nowhere(id)) /\ (\A layer, what : Promoted(layer, what)' <=> Promoted(layer, what))
  BY <1>2 DEF Changing, Adding, Given, Nowhere, Promoted
<1>4. \A w, j : ChangeOK(w, j)' <=> ChangeOK(w, j)
  BY <1>3 DEF ChangeOK
<1>5. FilesInv'
  BY <1>1, <1>2, <1>3, <1>4 DEF FilesInv
<1>6. ASSUME ~clashed
      PROVE  CleanInv'
  <2>1. CleanInv
    BY <1>6
  <2>2. InOneFile' /\ PromotedOnce'
    BY <1>2, <2>1 DEF CleanInv, InOneFile, PromotedOnce
  <2>3. ForgottenGone'
    BY <1>1, <1>2, <1>3, <2>1 DEF CleanInv, ForgottenGone
  <2>4. AddedNew'
    BY <1>1, <1>2, <1>3, <2>1 DEF CleanInv, AddedNew
  <2>5. PromotesNew'
    BY <1>2, <1>3, <1>6, <2>1 DEF CleanInv, PromotesNew, Promoted
  <2> QED
    BY <2>2, <2>3, <2>4, <2>5 DEF CleanInv
<1> QED
  BY <1>2, <1>5, <1>6

\* A writer stops, and what it records was done before.
LEMMA WriterStops ==
  ASSUME IsLog, FilesInv, ~clashed => CleanInv, UNCHANGED <<file, issued, clashed>>,
         NEW w \in Writer, NEW j, edit' = [edit EXCEPT ![w] = j], "at" \in DOMAIN j, j.at \in {"idle", "done", "failed"},
         log' = log \/ \E e : Record(e) /\ (e.kind = "forgotten" => edit[w].at = "log" /\ edit[w].record = e),
         w = Distiller => j.at = "idle" \/ dist'.at = "promote",
         w # Distiller => dist' = dist,
         dist'.at = "copy" => dist' = dist
  PROVE  FilesInv' /\ (~clashed' => CleanInv')
<1>1. UNCHANGED <<file, issued, clashed>> /\ edit' = [edit EXCEPT ![w] = j] /\ DOMAIN edit = Writer
  BY DEF FilesInv
<1>2. /\ DOMAIN edit' = Writer /\ edit'[w] = j /\ \A v \in Writer : v # w => edit'[v] = edit[v]
      /\ Changing' = Changing \ {w}
  BY <1>1 DEF Changing
<1>3. /\ (\A id : Given(id)' <=> Given(id))
      /\ (\A id : Nowhere(id)' <=> Nowhere(id)) /\ (\A layer, what : Promoted(layer, what)' <=> Promoted(layer, what))
  BY <1>1 DEF Given, Nowhere, Promoted
<1>5. \A v \in Changing' : v \in Changing /\ v # w /\ v \in Writer /\ edit'[v] = edit[v] /\ (Adding(v)' <=> Adding(v))
  BY <1>2 DEF Changing, Adding
<1>6. \A n \in Kind("forgotten")' :
        \/ n \in Kind("forgotten") /\ log'[n] = log[n]
        \/ edit[w].at = "log" /\ edit[w].record.kind = "forgotten" /\ log'[n].of = edit[w].record.of
  <2>1. CASE log' = log
    BY <2>1 DEF Kind
  <2>2. CASE \E e : Record(e) /\ (e.kind = "forgotten" => edit[w].at = "log" /\ edit[w].record = e)
    <3>1. PICK e : Record(e) /\ (e.kind = "forgotten" => edit[w].at = "log" /\ edit[w].record = e)
      BY <2>2
    <3>2. PICK last : last = Len(log) + 1
      OBVIOUS
    <3>3. DOMAIN log' = DOMAIN log \cup {last} /\ log'[last] = e /\ \A n \in DOMAIN log : log'[n] = log[n]
      BY <3>1, <3>2, Recorded
    <3> QED
      BY <3>1, <3>3 DEF Kind
  <2> QED
    BY <2>1, <2>2
<1>7. edit[w].at = "log" => w \in Changing /\ ChangeOK(w, edit[w])
  BY DEF Changing, FilesInv
<1>8. FilesInv'
  <2>1. \A v \in Writer : "at" \in DOMAIN edit'[v] /\ edit'[v].at \in {"idle", "write", "log", "done", "failed"}
    BY <1>2 DEF FilesInv
  <2>2. \A v \in Changing' : ChangeOK(v, edit[v])'
    <3> TAKE v \in Changing'
    <3>1. ChangeOK(v, edit[v]) /\ edit'[v] = edit[v]
      BY <1>5 DEF FilesInv
    <3> QED
      BY <1>3, <3>1 DEF ChangeOK
  <2>3. \A n \in Kind("forgotten")' : Given(log'[n].of)
    BY <1>6, <1>7 DEF FilesInv, ChangeOK
  <2>4. edit'[Distiller].at # "idle" => dist'.at = "promote"
    <3>1. Distiller \in Writer
      BY DEF Writer
    <3>2. CASE w = Distiller
      BY <1>2, <3>2
    <3>3. CASE w # Distiller
      BY <1>2, <3>1, <3>3 DEF FilesInv
    <3> QED
      BY <3>2, <3>3
  <2> QED
    BY <1>1, <1>2, <1>3, <2>1, <2>2, <2>3, <2>4 DEF FilesInv
<1>9. ASSUME ~clashed
      PROVE  CleanInv'
  <2>1. CleanInv
    BY <1>9
  <2>2. InOneFile' /\ PromotedOnce'
    BY <1>1, <2>1 DEF CleanInv, InOneFile, PromotedOnce
  <2>3. ForgottenGone'
    <3>1. \A n \in Kind("forgotten")' : Nowhere(log'[n].of)
      BY <1>6, <1>7, <2>1 DEF CleanInv, ForgottenGone
    <3>2. \A v \in Changing' : edit'[v].at = "log" /\ edit'[v].record.kind = "forgotten" => Nowhere(edit'[v].record.of)
      BY <1>5, <2>1 DEF CleanInv, ForgottenGone
    <3> QED
      BY <1>3, <3>1, <3>2 DEF ForgottenGone
  <2>4. AddedNew'
    <3> SUFFICES ASSUME NEW v \in Changing', Adding(v)'
                 PROVE  /\ Nowhere(edit[v].record.of)'
                        /\ \A u \in Changing' : u # v => edit'[u].record.of # edit'[v].record.of
                        /\ \A n \in Kind("forgotten")' : log'[n].of # edit'[v].record.of
      BY DEF AddedNew
    <3>1. v \in Changing /\ v # w /\ Adding(v) /\ edit'[v] = edit[v]
      BY <1>5
    <3>2. /\ Nowhere(edit[v].record.of)
          /\ \A u \in Changing : u # v => edit[u].record.of # edit[v].record.of
          /\ \A n \in Kind("forgotten") : log[n].of # edit[v].record.of
      BY <2>1, <3>1 DEF CleanInv, AddedNew
    <3>3. \A u \in Changing' : u # v => edit'[u].record.of # edit'[v].record.of
      BY <1>5, <3>1, <3>2
    <3>4. \A n \in Kind("forgotten")' : log'[n].of # edit'[v].record.of
      BY <1>6, <1>7, <3>1, <3>2
    <3>5. Nowhere(edit[v].record.of)'
      BY <1>1, <3>1, <3>2 DEF Nowhere
    <3> QED
      BY <3>3, <3>4, <3>5
  <2>5. PromotesNew'
    <3>1. dist'.at = "copy" => ~Promoted(Head(dist'.todo).layer, Head(dist'.todo).what)
      BY <2>1 DEF CleanInv, PromotesNew
    <3>2. Distiller \in Writer
      BY DEF Writer
    <3>3. edit'[Distiller].at = "write" => edit'[Distiller] = edit[Distiller]
      BY <1>2, <3>2
    <3>4. edit'[Distiller].at = "write" =>
            \A e \in edit'[Distiller].to \ edit'[Distiller].base : ~Promoted(edit'[Distiller].layer, e.what)
      BY <2>1, <3>3 DEF CleanInv, PromotesNew
    <3> QED
      BY <1>1, <3>1, <3>4 DEF PromotesNew, Promoted
  <2> QED
    BY <2>2, <2>3, <2>4, <2>5 DEF CleanInv
<1> QED
  BY <1>1, <1>8, <1>9

\* A writer begins: with an id that is given now, or to take out an entry that is there.
LEMMA WriterBegins ==
  ASSUME FilesInv, ~clashed => CleanInv, UNCHANGED <<log, file, clashed>>, issued' \in Nat, issued <= issued',
         NEW w \in Writer, NEW j, edit' = [edit EXCEPT ![w] = j], "at" \in DOMAIN j, j.at = "write", ChangeOK(w, j)',
         w = Distiller => dist'.at = "promote", w # Distiller => dist' = dist,
         ~clashed => /\ j.record.kind = "promoted" => /\ Nowhere(j.record.of)
                                                      /\ \A v \in Changing : edit[v].record.of # j.record.of
                                                      /\ \A n \in Kind("forgotten") : log[n].of # j.record.of
                     /\ j.record.kind = "forgotten" => \A v \in Changing : Adding(v) => edit[v].record.of # j.record.of
                     /\ w = Distiller => \A e \in j.to \ j.base : ~Promoted(j.layer, e.what)
  PROVE  FilesInv' /\ (~clashed' => CleanInv')
<1>1. UNCHANGED <<log, file, clashed>> /\ edit' = [edit EXCEPT ![w] = j] /\ DOMAIN edit = Writer /\ Distiller \in Writer
  BY DEF FilesInv, Writer
<1>2. /\ DOMAIN edit' = Writer /\ edit'[w] = j /\ \A v \in Writer : v # w => edit'[v] = edit[v]
      /\ Changing' = Changing \cup {w}
  BY <1>1 DEF Changing
<1>3. /\ (\A id : Nowhere(id)' <=> Nowhere(id)) /\ (\A layer, what : Promoted(layer, what)' <=> Promoted(layer, what))
      /\ Kind("forgotten")' = Kind("forgotten")
  BY <1>1 DEF Nowhere, Promoted, Kind
<1>4. \A id : Given(id) => Given(id)'
  BY DEF FilesInv, Given
<1>5. \A v \in Changing' : v = w \/ (v \in Changing /\ v # w /\ v \in Writer /\ edit'[v] = edit[v] /\ (Adding(v)' <=> Adding(v)))
  BY <1>2 DEF Changing, Adding
<1>6. j.record.kind \in {"promoted", "forgotten"}
  BY DEF ChangeOK
<1>7. FilesInv'
  <2>1. \A v \in Writer : "at" \in DOMAIN edit'[v] /\ edit'[v].at \in {"idle", "write", "log", "done", "failed"}
    BY <1>2 DEF FilesInv
  <2>2. \A v \in Changing' : ChangeOK(v, edit[v])'
    <3> SUFFICES ASSUME NEW v \in Changing'  PROVE ChangeOK(v, edit[v])'
      OBVIOUS
    <3>1. CASE v = w
      BY <1>2, <3>1 DEF ChangeOK
    <3>2. CASE v # w
      <4>1. ChangeOK(v, edit[v]) /\ edit'[v] = edit[v]
        BY <1>5, <3>2 DEF FilesInv
      <4> QED
        BY <1>4, <4>1 DEF ChangeOK
    <3> QED
      BY <3>1, <3>2
  <2>3. edit'[Distiller].at # "idle" => dist'.at = "promote"
    <3>1. CASE w = Distiller
      BY <3>1
    <3>2. CASE w # Distiller
      BY <1>1, <1>2, <3>2 DEF FilesInv
    <3> QED
      BY <3>1, <3>2
  <2>4. /\ \A layer \in Layer : \A e \in file[layer] : Given(e.id)'
        /\ \A n \in Kind("forgotten") : Given(log[n].of)'
    BY <1>4 DEF FilesInv
  <2>5. /\ (\A layer \in Layer : \A e \in file[layer] : Given(e.id))'
        /\ (\A n \in Kind("forgotten") : Given(log[n].of))'
    BY <1>1, <1>3, <2>4 DEF Given
  <2> QED
    BY <1>1, <1>2, <2>1, <2>2, <2>3, <2>5 DEF FilesInv
<1>8. ASSUME ~clashed
      PROVE  CleanInv'
  <2>1. CleanInv
    BY <1>8
  <2>2. InOneFile' /\ PromotedOnce'
    BY <1>1, <2>1 DEF CleanInv, InOneFile, PromotedOnce
  <2>3. ForgottenGone'
    <3>1. \A n \in Kind("forgotten")' : Nowhere(log[n].of)
      BY <1>3, <2>1 DEF CleanInv, ForgottenGone
    <3>2. \A v \in Changing' : edit'[v].at = "log" /\ edit'[v].record.kind = "forgotten" => Nowhere(edit'[v].record.of)
      BY <1>2, <1>5, <2>1 DEF CleanInv, ForgottenGone
    <3> QED
      BY <1>1, <1>3, <3>1, <3>2 DEF ForgottenGone, Nowhere
  <2>4. AddedNew'
    <3> SUFFICES ASSUME NEW v \in Changing', Adding(v)'
                 PROVE  /\ Nowhere(edit[v].record.of)'
                        /\ \A u \in Changing' : u # v => edit'[u].record.of # edit'[v].record.of
                        /\ \A n \in Kind("forgotten")' : log'[n].of # edit'[v].record.of
      BY DEF AddedNew
    <3>1. CASE v = w
      <4>1. edit'[v] = j /\ j.record.kind = "promoted"
        BY <1>2, <3>1 DEF Adding
      <4>2. /\ Nowhere(j.record.of)
            /\ \A u \in Changing : edit[u].record.of # j.record.of
            /\ \A n \in Kind("forgotten") : log[n].of # j.record.of
        BY <1>8, <4>1
      <4>3. \A u \in Changing' : u # v => edit'[u].record.of # edit'[v].record.of
        BY <1>5, <3>1, <4>1, <4>2
      <4> QED
        BY <1>1, <1>3, <4>1, <4>2, <4>3 DEF Nowhere
    <3>2. CASE v # w
      <4>1. v \in Changing /\ Adding(v) /\ edit'[v] = edit[v]
        BY <1>5, <3>2
      <4>2. /\ Nowhere(edit[v].record.of)
            /\ \A u \in Changing : u # v => edit[u].record.of # edit[v].record.of
            /\ \A n \in Kind("forgotten") : log[n].of # edit[v].record.of
        BY <2>1, <4>1 DEF CleanInv, AddedNew
      <4>3. j.record.of # edit[v].record.of
        BY <1>6, <1>8, <4>1
      <4>4. \A u \in Changing' : u # v => edit'[u].record.of # edit'[v].record.of
        BY <1>2, <1>5, <4>1, <4>2, <4>3
      <4> QED
        BY <1>1, <1>3, <4>1, <4>2, <4>4 DEF Nowhere
    <3> QED
      BY <3>1, <3>2
  <2>5. PromotesNew'
    <3>1. dist'.at = "copy" => ~Promoted(Head(dist'.todo).layer, Head(dist'.todo).what)
      BY <2>1 DEF CleanInv, PromotesNew
    <3>2. edit'[Distiller].at = "write" =>
            \A e \in edit'[Distiller].to \ edit'[Distiller].base : ~Promoted(edit'[Distiller].layer, e.what)
      <4>1. CASE w = Distiller
        BY <1>2, <1>8, <4>1
      <4>2. CASE w # Distiller
        BY <1>1, <1>2, <2>1, <4>2 DEF CleanInv, PromotesNew
      <4> QED
        BY <4>1, <4>2
    <3> QED
      BY <1>1, <3>1, <3>2 DEF PromotesNew, Promoted
  <2> QED
    BY <2>2, <2>3, <2>4, <2>5 DEF CleanInv
<1> QED
  BY <1>1, <1>7, <1>8

\* An entry is added under an id that is given now.
LEMMA EntryBegins ==
  ASSUME FilesInv, ~clashed => CleanInv, UNCHANGED <<log, file, clashed>>, NEW w \in Writer, NEW layer \in Layer, NEW what,
         BeginsEntry(w, layer, what),
         w = Distiller => dist'.at = "promote" /\ (clashed \/ ~Promoted(layer, what)), w # Distiller => dist' = dist
  PROVE  FilesInv' /\ (~clashed' => CleanInv')
<1>a. PICK id, e, base : id = issued + 1 /\ e = Entry(what, w) /\ base = file[layer]
  OBVIOUS
<1>b. PICK j : j = [at |-> "write", layer |-> layer, base |-> base, to |-> base \cup {e},
                    record |-> [kind |-> "promoted", of |-> id]]
  OBVIOUS
<1>1. edit' = [edit EXCEPT ![w] = j] /\ issued' = id
  BY <1>a, <1>b DEF BeginsEntry, Begins
<1>2. issued \in Nat /\ issued' \in Nat /\ issued <= issued'
  BY <1>a, <1>1 DEF FilesInv
<1>3. Given(id)' /\ ~Given(id) /\ \A x : Given(x) => Given(x)'
  BY <1>a, <1>1, <1>2 DEF Given
<1>4. e.id = id /\ e.by = w /\ e.what = what
  BY <1>a DEF Entry
<1>5. \A f \in base : Given(f.id)
  BY <1>a DEF FilesInv
<1>6. ChangeOK(w, j)'
  <2>1. \A f \in j.base \cup j.to : Given(f.id)'
    BY <1>b, <1>3, <1>4, <1>5
  <2>2. e \in j.to /\ j.to = j.base \cup {e} /\ j.record.of = id /\ j.record.kind = "promoted"
    BY <1>b
  <2>3. DOMAIN j = {"at", "layer", "base", "to", "record"} /\ j.layer \in Layer
    BY <1>b
  <2> QED
    BY <1>3, <1>4, <2>1, <2>2, <2>3 DEF ChangeOK, Given
<1>7. "at" \in DOMAIN j /\ j.at = "write" /\ j.record.kind = "promoted" /\ j.record.of = id /\ j.layer = layer
      /\ \A f \in j.to \ j.base : f = e
  BY <1>b
<1>8. /\ Nowhere(id)
      /\ \A v \in Changing : edit[v].record.of # id
      /\ \A n \in Kind("forgotten") : log[n].of # id
  BY <1>3 DEF FilesInv, ChangeOK, Nowhere
<1>9. ~clashed => /\ j.record.kind = "promoted" => /\ Nowhere(j.record.of)
                                                   /\ \A v \in Changing : edit[v].record.of # j.record.of
                                                   /\ \A n \in Kind("forgotten") : log[n].of # j.record.of
                  /\ j.record.kind = "forgotten" => \A v \in Changing : Adding(v) => edit[v].record.of # j.record.of
                  /\ w = Distiller => \A f \in j.to \ j.base : ~Promoted(j.layer, f.what)
  BY <1>4, <1>7, <1>8
<1> QED
  BY <1>1, <1>2, <1>6, <1>7, <1>9, WriterBegins

\* An entry that is there is taken out.
LEMMA ForgetBegins ==
  ASSUME FilesInv, ~clashed => CleanInv, UNCHANGED dist, NEW w \in Editor, NEW layer \in Layer, NEW e \in file[layer],
         Forgets(w, layer, e)
  PROVE  FilesInv' /\ (~clashed' => CleanInv')
<1>a. PICK base : base = file[layer]
  OBVIOUS
<1>b. PICK j : j = [at |-> "write", layer |-> layer, base |-> base, to |-> base \ {e},
                    record |-> [kind |-> "forgotten", of |-> e.id]]
  OBVIOUS
<1>1. edit' = [edit EXCEPT ![w] = j] /\ UNCHANGED <<log, file, issued, clashed>>
  BY <1>a, <1>b DEF Forgets, Begins
<1>2. issued' \in Nat /\ issued <= issued' /\ w \in Writer /\ w # Distiller
  BY <1>1, MemoriesAssumption DEF FilesInv, Writer
<1>3. e \in base /\ \A f \in base : Given(f.id) /\ Given(f.id)'
  BY <1>a, <1>1 DEF FilesInv, Given
<1>4. ChangeOK(w, j)'
  <2>1. \A f \in j.base \cup j.to : Given(f.id)'
    BY <1>b, <1>3
  <2>2. e \in j.base /\ j.to = j.base \ {e} /\ j.record.of = e.id /\ j.record.kind = "forgotten"
    BY <1>b, <1>3
  <2>3. DOMAIN j = {"at", "layer", "base", "to", "record"} /\ j.layer \in Layer
    BY <1>b
  <2> QED
    BY <1>2, <1>3, <2>1, <2>2, <2>3 DEF ChangeOK, Given
<1>5. "at" \in DOMAIN j /\ j.at = "write" /\ j.record.kind = "forgotten" /\ j.record.of = e.id
  BY <1>b
<1>6. ~clashed => \A v \in Changing : Adding(v) => edit[v].record.of # e.id
  BY DEF CleanInv, AddedNew, Nowhere
<1>7. ~clashed => /\ j.record.kind = "promoted" => /\ Nowhere(j.record.of)
                                                   /\ \A v \in Changing : edit[v].record.of # j.record.of
                                                   /\ \A n \in Kind("forgotten") : log[n].of # j.record.of
                  /\ j.record.kind = "forgotten" => \A v \in Changing : Adding(v) => edit[v].record.of # j.record.of
                  /\ w = Distiller => \A f \in j.to \ j.base : ~Promoted(j.layer, f.what)
  BY <1>2, <1>5, <1>6
<1> QED
  BY <1>1, <1>2, <1>4, <1>5, <1>7, WriterBegins

\* A writer writes what it made of the file, which is an addition or a removal unless the file has changed since.
LEMMA WriterWrites ==
  ASSUME FilesInv, ~clashed => CleanInv, NEW w \in Writer, Editing(w, "write"), UNCHANGED <<log, issued, dist>>,
         file' = [file EXCEPT ![edit[w].layer] = edit[w].to],
         clashed' = (clashed \/ file[edit[w].layer] # edit[w].base),
         edit' = [edit EXCEPT ![w].at = "log"],
         dist.at = "copy" => Head(dist.todo).layer \in Layer
  PROVE  FilesInv' /\ (~clashed' => CleanInv')
<1>a. PICK j : j = edit[w]
  OBVIOUS
<1>b. PICK l, base, to, id : l = j.layer /\ base = j.base /\ to = j.to /\ id = j.record.of
  OBVIOUS
<1>c. PICK k : k = [j EXCEPT !.at = "log"]
  OBVIOUS
<1>1. w \in Changing /\ j.at = "write" /\ ChangeOK(w, j) /\ DOMAIN edit = Writer /\ Distiller \in Writer
  BY <1>a DEF FilesInv, Changing, Editing, Writer
<1>2. /\ DOMAIN k = DOMAIN j /\ "at" \in DOMAIN k /\ k.at = "log"
      /\ k.layer = l /\ k.base = base /\ k.to = to /\ k.record = j.record
  BY <1>1, <1>b, <1>c DEF ChangeOK
<1>3. edit' = [edit EXCEPT ![w] = k]
  BY <1>a, <1>c
<1>4. /\ DOMAIN edit' = Writer /\ edit'[w] = k /\ \A v \in Writer : v # w => edit'[v] = edit[v]
  BY <1>1, <1>3
<1>5. Changing' = Changing
  BY <1>1, <1>2, <1>4 DEF Changing
<1>6. \A v \in Changing : v \in Writer /\ edit'[v].record = edit[v].record
  BY <1>a, <1>2, <1>4 DEF Changing
<1>7. \A v \in Changing : Adding(v)' => v # w /\ Adding(v) /\ edit'[v] = edit[v]
  BY <1>2, <1>4, <1>6 DEF Adding
<1>8. l \in Layer /\ DOMAIN file = Layer /\ DOMAIN file' = Layer /\ file'[l] = to
      /\ \A m \in Layer : m # l => file'[m] = file[m]
  BY <1>1, <1>a, <1>b DEF FilesInv, ChangeOK
<1>9. \A x : Given(x)' <=> Given(x)
  BY DEF Given
<1>10. Kind("forgotten")' = Kind("forgotten")
  BY DEF Kind
<1>11. FilesInv'
  <2>1. \A v \in Writer : "at" \in DOMAIN edit'[v] /\ edit'[v].at \in {"idle", "write", "log", "done", "failed"}
    BY <1>2, <1>4 DEF FilesInv
  <2>2. \A v \in Changing' : ChangeOK(v, edit[v])'
    <3> SUFFICES ASSUME NEW v \in Changing'  PROVE ChangeOK(v, edit[v])'
      OBVIOUS
    <3>1. v \in Changing
      BY <1>5
    <3>2. CASE v = w
      BY <1>1, <1>2, <1>4, <1>9, <1>b, <3>2 DEF ChangeOK
    <3>3. CASE v # w
      <4>1. ChangeOK(v, edit[v]) /\ edit'[v] = edit[v]
        BY <1>4, <1>6, <3>1, <3>3 DEF FilesInv
      <4> QED
        BY <1>9, <4>1 DEF ChangeOK
    <3> QED
      BY <3>2, <3>3
  <2>3. \A m \in Layer : \A e \in file'[m] : Given(e.id)
    <3>1. \A e \in to : Given(e.id)
      BY <1>1, <1>b DEF ChangeOK
    <3> QED
      BY <1>8, <3>1 DEF FilesInv
  <2>4. edit'[Distiller].at # "idle" => dist'.at = "promote"
    <3>1. CASE w = Distiller
      BY <1>1, <1>a, <3>1 DEF FilesInv
    <3>2. CASE w # Distiller
      BY <1>1, <1>4, <3>2 DEF FilesInv
    <3> QED
      BY <3>1, <3>2
  <2>7. \A n \in Kind("forgotten") : Given(log[n].of)'
    BY <1>9 DEF FilesInv
  <2>5. (\A n \in Kind("forgotten") : Given(log[n].of))'
    BY <1>10, <2>7 DEF Given
  <2>6. issued' \in Nat /\ clashed' \in BOOLEAN
    BY DEF FilesInv
  <2> QED
    <3>1. (\A m \in Layer : \A e \in file[m] : Given(e.id))'
      BY <2>3 DEF Given
    <3> QED
      BY <1>4, <1>8, <2>1, <2>2, <2>4, <2>5, <2>6, <3>1 DEF FilesInv
<1>12. ASSUME ~clashed'
       PROVE  CleanInv'
  <2>1. ~clashed /\ CleanInv /\ file[l] = base
    BY <1>12, <1>a, <1>b
  <2>2. ASSUME NEW e \in to, e.id = id, e.by = w, to = base \cup {e}, j.record.kind = "promoted"
        PROVE  CleanInv'
    <3>1. /\ Nowhere(id)
          /\ \A v \in Changing : v # w => edit[v].record.of # id
          /\ \A n \in Kind("forgotten") : log[n].of # id
      <4>1. Adding(w)
        BY <1>1, <1>a, <2>2 DEF Adding
      <4> QED
        BY <1>1, <1>a, <1>b, <2>1, <4>1 DEF CleanInv, AddedNew
    <3>2. \A m \in Layer : \A f \in file'[m] : f \in file[m] \/ (m = l /\ f = e)
      BY <1>8, <2>1, <2>2
    <3>3. \A m \in Layer : \A f \in file[m] : f.id # id
      BY <3>1 DEF Nowhere
    <3>4. InOneFile'
      BY <2>1, <2>2, <3>2, <3>3 DEF CleanInv, InOneFile
    <3>5. \A x : Nowhere(x) /\ x # id => \A m \in Layer : \A f \in file'[m] : f.id # x
      BY <2>2, <3>2 DEF Nowhere
    <3>6. w = Distiller => ~Promoted(l, e.what)
      <4>1. e \notin base
        BY <1>8, <2>1, <2>2, <3>3
      <4> QED
        BY <1>1, <1>a, <1>b, <2>1, <2>2, <4>1 DEF CleanInv, PromotesNew
    <3>7. PromotedOnce'
      BY <2>1, <2>2, <3>2, <3>6 DEF CleanInv, PromotedOnce, Promoted
    <3>8. ForgottenGone'
      <4>1. \A n \in Kind("forgotten") : \A m \in Layer : \A f \in file'[m] : f.id # log[n].of
        BY <2>1, <3>1, <3>5 DEF CleanInv, ForgottenGone
      <4>2. ASSUME NEW v \in Changing, edit'[v].at = "log", edit'[v].record.kind = "forgotten"
            PROVE  \A m \in Layer : \A f \in file'[m] : f.id # edit'[v].record.of
        <5>1. v # w /\ edit'[v] = edit[v]
          BY <1>2, <1>4, <1>6, <2>2, <4>2
        <5>2. Nowhere(edit[v].record.of) /\ edit[v].record.of # id
          BY <2>1, <3>1, <4>2, <5>1 DEF CleanInv, ForgottenGone
        <5> QED
          BY <3>5, <5>1, <5>2
      <4>3. \A n \in Kind("forgotten")' : \A m \in Layer : \A f \in file'[m] : f.id # log[n].of
        BY <1>10, <4>1
      <4>4. \A v \in Changing' : edit'[v].at = "log" /\ edit'[v].record.kind = "forgotten" =>
              \A m \in Layer : \A f \in file'[m] : f.id # edit'[v].record.of
        BY <1>5, <4>2
      <4> QED
        BY <4>3, <4>4 DEF ForgottenGone, Nowhere
    <3>9. AddedNew'
      <4> SUFFICES ASSUME NEW v \in Changing', Adding(v)'
                   PROVE  /\ Nowhere(edit[v].record.of)'
                          /\ \A u \in Changing' : u # v => edit'[u].record.of # edit'[v].record.of
                          /\ \A n \in Kind("forgotten")' : log'[n].of # edit'[v].record.of
        BY DEF AddedNew
      <4>1. v \in Changing /\ v # w /\ Adding(v) /\ edit'[v] = edit[v]
        BY <1>5, <1>7
      <4>2. /\ Nowhere(edit[v].record.of)
            /\ \A u \in Changing : u # v => edit[u].record.of # edit[v].record.of
            /\ \A n \in Kind("forgotten") : log[n].of # edit[v].record.of
        BY <2>1, <4>1 DEF CleanInv, AddedNew
      <4>3. \A u \in Changing' : u # v => edit'[u].record.of # edit'[v].record.of
        BY <1>5, <1>6, <4>1, <4>2
      <4>4. \A n \in Kind("forgotten")' : log'[n].of # edit'[v].record.of
        BY <1>10, <4>1, <4>2
      <4>5. \A m \in Layer : \A f \in file'[m] : f.id # edit'[v].record.of
        BY <3>1, <3>5, <4>1, <4>2
      <4> QED
        BY <4>3, <4>4, <4>5 DEF Nowhere
    <3>10. PromotesNew'
      <4>1. CASE w = Distiller
        <5>1. dist'.at = "promote" /\ edit'[Distiller].at = "log"
          BY <1>1, <1>2, <1>4, <1>a, <4>1 DEF FilesInv
        <5> QED
          BY <5>1 DEF PromotesNew
      <4>2. CASE w # Distiller
        <5>1. edit'[Distiller] = edit[Distiller]
          BY <1>1, <1>4, <4>2
        <5>3. dist'.at = "copy" => dist.at = "copy" /\ ~Promoted(Head(dist'.todo).layer, Head(dist'.todo).what)
          BY <2>1 DEF CleanInv, PromotesNew
        <5>4. edit'[Distiller].at = "write" => \A f \in edit'[Distiller].to \ edit'[Distiller].base :
                                                 ~Promoted(edit'[Distiller].layer, f.what)
          BY <2>1, <5>1 DEF CleanInv, PromotesNew
        <5>5. \A m \in Layer : \A what : (\A f \in file[m] : ~(f.by = Distiller /\ f.what = what)) =>
                            (\A f \in file'[m] : ~(f.by = Distiller /\ f.what = what))
          BY <2>2, <3>2, <4>2
        <5>6. edit'[Distiller].at = "write" => edit'[Distiller].layer \in Layer
          BY <1>1, <5>1 DEF FilesInv, Changing, ChangeOK
        <5> QED
          BY <5>3, <5>4, <5>5, <5>6 DEF PromotesNew, Promoted
      <4> QED
        BY <4>1, <4>2
    <3> QED
      BY <3>4, <3>7, <3>8, <3>9, <3>10 DEF CleanInv
  <2>3. ASSUME NEW e \in base, e.id = id, to = base \ {e}, j.record.kind = "forgotten", w # Distiller
        PROVE  CleanInv'
    <3>1. \A m \in Layer : \A f \in file'[m] : f \in file[m] /\ (m = l => f # e)
      BY <1>8, <2>1, <2>3
    <3>2. InOneFile' /\ PromotedOnce'
      BY <2>1, <3>1 DEF CleanInv, InOneFile, PromotedOnce
    <3>3. \A m \in Layer : \A f \in file'[m] : f.id # id
      BY <1>8, <2>1, <2>3, <3>1 DEF CleanInv, InOneFile, Nowhere
    <3>4. \A x : Nowhere(x) => \A m \in Layer : \A f \in file'[m] : f.id # x
      BY <3>1 DEF Nowhere
    <3>5. ForgottenGone'
      <4>1. \A n \in Kind("forgotten") : \A m \in Layer : \A f \in file'[m] : f.id # log[n].of
        BY <2>1, <3>4 DEF CleanInv, ForgottenGone
      <4>2. ASSUME NEW v \in Changing, edit'[v].at = "log", edit'[v].record.kind = "forgotten"
            PROVE  \A m \in Layer : \A f \in file'[m] : f.id # edit'[v].record.of
        <5>1. CASE v = w
          BY <1>2, <1>4, <1>b, <3>3, <5>1
        <5>2. CASE v # w
          <6>1. edit'[v] = edit[v]
            BY <1>4, <1>6, <5>2
          <6>2. Nowhere(edit[v].record.of)
            BY <2>1, <4>2, <6>1 DEF CleanInv, ForgottenGone
          <6> QED
            BY <3>4, <6>1, <6>2
        <5> QED
          BY <5>1, <5>2
      <4>3. \A n \in Kind("forgotten")' : \A m \in Layer : \A f \in file'[m] : f.id # log[n].of
        BY <1>10, <4>1
      <4>4. \A v \in Changing' : edit'[v].at = "log" /\ edit'[v].record.kind = "forgotten" =>
              \A m \in Layer : \A f \in file'[m] : f.id # edit'[v].record.of
        BY <1>5, <4>2
      <4> QED
        BY <4>3, <4>4 DEF ForgottenGone, Nowhere
    <3>6. AddedNew'
      <4> SUFFICES ASSUME NEW v \in Changing', Adding(v)'
                   PROVE  /\ Nowhere(edit[v].record.of)'
                          /\ \A u \in Changing' : u # v => edit'[u].record.of # edit'[v].record.of
                          /\ \A n \in Kind("forgotten")' : log'[n].of # edit'[v].record.of
        BY DEF AddedNew
      <4>1. v \in Changing /\ v # w /\ Adding(v) /\ edit'[v] = edit[v]
        BY <1>5, <1>7
      <4>2. /\ Nowhere(edit[v].record.of)
            /\ \A u \in Changing : u # v => edit[u].record.of # edit[v].record.of
            /\ \A n \in Kind("forgotten") : log[n].of # edit[v].record.of
        BY <2>1, <4>1 DEF CleanInv, AddedNew
      <4>3. \A u \in Changing' : u # v => edit'[u].record.of # edit'[v].record.of
        BY <1>5, <1>6, <4>1, <4>2
      <4>4. \A n \in Kind("forgotten")' : log'[n].of # edit'[v].record.of
        BY <1>10, <4>1, <4>2
      <4>5. \A m \in Layer : \A f \in file'[m] : f.id # edit'[v].record.of
        BY <3>4, <4>1, <4>2
      <4> QED
        BY <4>3, <4>4, <4>5 DEF Nowhere
    <3>7. PromotesNew'
      <4>1. edit'[Distiller] = edit[Distiller]
        BY <1>1, <1>4, <2>3
      <4>2. \A m \in Layer : \A f \in file'[m] : f \in file[m]
        BY <3>1
      <4>3. dist'.at = "copy" => ~Promoted(Head(dist'.todo).layer, Head(dist'.todo).what)
        BY <2>1 DEF CleanInv, PromotesNew
      <4>4. edit'[Distiller].at = "write" => \A f \in edit'[Distiller].to \ edit'[Distiller].base :
                                               ~Promoted(edit'[Distiller].layer, f.what)
        BY <2>1, <4>1 DEF CleanInv, PromotesNew
      <4>5. edit'[Distiller].at = "write" => edit'[Distiller].layer \in Layer
        BY <1>1, <4>1 DEF FilesInv, Changing, ChangeOK
      <4> QED
        BY <4>2, <4>3, <4>4, <4>5 DEF PromotesNew, Promoted
    <3> QED
      BY <3>2, <3>5, <3>6, <3>7 DEF CleanInv
  <2> QED
    BY <1>1, <1>b, <2>2, <2>3 DEF ChangeOK
<1> QED
  BY <1>11, <1>12

-----------------------------------------------------------------------------
(* What it knows, and what it has left to do *)

\* What is accounted for stays so.
LEMMA KnownGoes ==
  ASSUME IsLog, KnownInv, issued \in Nat, issued' \in Nat, issued <= issued', log' = log \/ \E e : Record(e),
         dist'.at \in {"list", "reconcile"} \cup Answered =>
           /\ dist'.known = dist.known
           /\ dist'.at = "list" => dist.at = "list"
           /\ dist'.at = "reconcile" => dist.at = "reconcile" /\ dist'.todo = dist.todo
           /\ dist'.at \in Answered => dist.at \in Answered
  PROVE  KnownInv'
<1>1. \A of : Has("promoted", of) => Has("promoted", of)'
  BY Older
<1>2. 1..issued \subseteq 1..issued'
  OBVIOUS
<1>3. dist'.at = "list" => dist'.known \subseteq 1..issued'
  BY <1>2 DEF KnownInv
<1>4. dist'.at = "reconcile" =>
        /\ dist'.todo \in Seq(Nat)
        /\ \A id \in dist'.known : Has("promoted", id)' \/ \E k \in DOMAIN dist'.todo : dist'.todo[k] = id
  BY <1>1 DEF KnownInv
<1>5. dist'.at \in Answered => \A id \in dist'.known : Has("promoted", id)'
  BY <1>1 DEF KnownInv
<1> QED
  BY <1>3, <1>4, <1>5 DEF KnownInv, Answered

\* Every global memory it sees was given an id.
LEMMA KnownLooks ==
  ASSUME ReadInv, FilesInv, DistillLooks
  PROVE  KnownInv'
<1>1. /\ dist' = [dist EXCEPT !.at = "list", !.known = {e.id : e \in file["global"]}] /\ dist.at = "look" /\ UNCHANGED issued
  BY DEF DistillLooks, Distills
<1>2. DOMAIN dist = {"at", "last", "seqs", "head", "known", "todo"}
  BY <1>1 DEF ReadInv, ReadOK
<1>3. dist'.at = "list" /\ dist'.known = {e.id : e \in file["global"]}
  BY <1>1, <1>2
<1>4. \A e \in file["global"] : e.id \in 1..issued
  BY MemoriesAssumption DEF FilesInv, Given
<1> QED
  BY <1>1, <1>3, <1>4 DEF KnownInv, Answered

\* It lists those the log does not account for.
LEMMA KnownLists ==
  ASSUME ReadInv, KnownInv, issued \in Nat, DistillLists
  PROVE  KnownInv'
<1>1. dist.at = "list" /\ UNCHANGED log
  BY DEF DistillLists, Distills
<1>2. CASE dist' = Rests
  BY <1>2 DEF KnownInv, Answered, Rests
<1>3. CASE dist' = [dist EXCEPT !.at = "reconcile", !.todo = Ordered({id \in dist.known : ~Has("promoted", id)})]
  <2>1. DOMAIN dist = {"at", "last", "seqs", "head", "known", "todo"}
    BY <1>1 DEF ReadInv, ReadOK
  <2>2. PICK S : S = {id \in dist.known : ~Has("promoted", id)}
    OBVIOUS
  <2>3. dist'.at = "reconcile" /\ dist'.todo = Ordered(S) /\ dist'.known = dist.known
    BY <1>3, <2>1, <2>2
  <2>4. S \in SUBSET (1..issued) /\ S \in SUBSET Nat
    BY <1>1, <2>2 DEF KnownInv
  <2>5. IsFiniteSet(S)
    <3>1. IsFiniteSet(1..issued)
      BY FS_Interval
    <3> QED
      BY <2>4, <3>1, FS_Subset
  <2>6. /\ Ordered(S) \in Seq(S) /\ DOMAIN Ordered(S) = 1..Cardinality(S)
        /\ \A n \in S : \E k \in 1..Cardinality(S) : Ordered(S)[k] = n
    BY <2>4, <2>5, Ranked
  <2>7. Ordered(S) \in Seq(Nat)
    <3>1. PICK o : o = Ordered(S)
      OBVIOUS
    <3>2. \A n \in S : n \in Nat
      BY <2>4
    <3>3. o \in Seq(S)
      BY <2>6, <3>1
    <3>4. o \in Seq(Nat)
      BY <3>2, <3>3
    <3> QED
      BY <3>1, <3>4
  <2>8. \A id : Has("promoted", id)' <=> Has("promoted", id)
    BY <1>1 DEF Has, Kind
  <2>9. \A id \in dist.known : Has("promoted", id)' \/ \E k \in DOMAIN Ordered(S) : Ordered(S)[k] = id
    BY <2>2, <2>6, <2>8
  <2> QED
    BY <2>3, <2>7, <2>9 DEF KnownInv, Answered
<1> QED
  BY <1>2, <1>3 DEF DistillLists

\* What it records of them is accounted for from then on.
LEMMA KnownReconciles ==
  ASSUME IsLog, ReadInv, KnownInv, DistillReconciles
  PROVE  KnownInv'
<1>1. dist.at = "reconcile" /\ dist.todo # <<>>
  BY DEF DistillReconciles, Distills
<1>2. CASE dist' = Rests
  BY <1>2 DEF KnownInv, Answered, Rests
<1>3. CASE Record([kind |-> "promoted", of |-> Head(dist.todo)]) /\ dist' = [dist EXCEPT !.todo = Tail(@)]
  <2>1. DOMAIN dist = {"at", "last", "seqs", "head", "known", "todo"}
    BY <1>1 DEF ReadInv, ReadOK
  <2>2. PICK todo \in Seq(Nat) : todo = dist.todo /\ todo # <<>>
    BY <1>1 DEF KnownInv
  <2>3. dist'.at = "reconcile" /\ dist'.todo = Tail(todo) /\ dist'.known = dist.known
    BY <1>1, <1>3, <2>1, <2>2
  <2>4. PICK e : e = [kind |-> "promoted", of |-> Head(todo)]
    OBVIOUS
  <2>5. Record(e) /\ e.kind = "promoted" /\ e.of = Head(todo)
    BY <1>3, <2>2, <2>4
  <2>6. Has("promoted", Head(todo))'
    <3>1. Has(e.kind, e.of)'
      BY <2>5, MoreOfKind
    <3> QED
      BY <2>5, <3>1
  <2>7. \A of : Has("promoted", of) => Has("promoted", of)'
    BY <2>5, Older
  <2>8. Tail(todo) \in Seq(Nat) /\ Len(todo) \in Nat \ {0} /\ DOMAIN todo = 1..Len(todo) /\ DOMAIN Tail(todo) = 1..Len(todo) - 1
        /\ Head(todo) = todo[1] /\ \A k \in 1..Len(todo) - 1 : Tail(todo)[k] = todo[k + 1]
    BY <2>2
  <2>9. ASSUME NEW id \in dist.known
        PROVE  Has("promoted", id)' \/ \E k \in DOMAIN Tail(todo) : Tail(todo)[k] = id
    <3>1. CASE Has("promoted", id)
      BY <2>7, <3>1
    <3>2. CASE \E k \in DOMAIN todo : todo[k] = id
      <4>1. PICK k \in 1..Len(todo) : todo[k] = id
        BY <2>8, <3>2
      <4>2. CASE k = 1
        BY <2>6, <2>8, <4>1, <4>2
      <4>3. CASE k # 1
        <5>1. k - 1 \in 1..Len(todo) - 1 /\ (k - 1) + 1 = k
          BY <2>8, <4>1, <4>3
        <5>2. Tail(todo)[k - 1] = id
          BY <2>8, <4>1, <5>1
        <5> QED
          BY <2>8, <5>1, <5>2
      <4> QED
        BY <4>2, <4>3
    <3> QED
      BY <1>1, <2>2, <2>9, <3>1, <3>2 DEF KnownInv
  <2> QED
    BY <2>3, <2>8, <2>9 DEF KnownInv, Answered
<1> QED
  BY <1>2, <1>3 DEF DistillReconciles

\* It thinks once all it knows is accounted for.
LEMMA KnownThinks ==
  ASSUME ReadInv, KnownInv, DistillThinks
  PROVE  KnownInv' /\ TodoInv'
<1>1. dist.at = "reconcile" /\ dist.todo = <<>> /\ UNCHANGED log
  BY DEF DistillThinks, Distills
<1>2. CASE dist' = Rests
  BY <1>2 DEF KnownInv, TodoInv, Answered, Rests
<1>3. ASSUME NEW ideas \in Ideas, dist' = [dist EXCEPT !.at = "weigh", !.todo = ideas]
      PROVE  KnownInv' /\ TodoInv'
  <2>1. DOMAIN dist = {"at", "last", "seqs", "head", "known", "todo"}
    BY <1>1 DEF ReadInv, ReadOK
  <2>2. dist'.at = "weigh" /\ dist'.todo = ideas /\ dist'.known = dist.known
    BY <1>3, <2>1
  <2>3. DOMAIN dist.todo = {}
    BY <1>1
  <2>4. \A id \in dist.known : Has("promoted", id)
    BY <1>1, <2>3 DEF KnownInv
  <2>5. \A id : Has("promoted", id)' <=> Has("promoted", id)
    BY <1>1 DEF Has, Kind
  <2>6. KnownInv'
    BY <2>2, <2>4, <2>5 DEF KnownInv
  <2>7. ideas \in Seq(ToSet(ideas)) /\ \A i \in ToSet(ideas) : IdeaOK(i)
    BY MemoriesAssumption DEF IdeaOK
  <2>8. \A k \in DOMAIN ideas : ideas[k] \in ToSet(ideas)
    BY DEF ToSet
  <2>9. TodoOK(ideas)
    BY <2>7, <2>8 DEF TodoOK
  <2>10. TodoInv'
    BY <2>2, <2>9 DEF TodoInv
  <2> QED
    BY <2>6, <2>10
<1> QED
  BY <1>2, <1>3 DEF DistillThinks

\* The ideas after the first.
LEMMA TodoTail ==
  ASSUME NEW todo, TodoOK(todo), todo # <<>>
  PROVE  /\ TodoOK(Tail(todo)) /\ IdeaOK(Head(todo)) /\ Head(todo) = todo[1] /\ 1 \in DOMAIN todo
         /\ TodoOK([todo EXCEPT ![1].layer = "global"])
<1>1. PICK S : todo \in Seq(S)
  BY DEF TodoOK
<1>2. /\ Len(todo) \in Nat \ {0} /\ DOMAIN todo = 1..Len(todo) /\ Head(todo) = todo[1]
      /\ Tail(todo) \in Seq(S) /\ DOMAIN Tail(todo) = 1..Len(todo) - 1
      /\ \A k \in 1..Len(todo) - 1 : Tail(todo)[k] = todo[k + 1]
  BY <1>1
<1>3. 1 \in DOMAIN todo
  BY <1>2
<1>4. TodoOK(Tail(todo))
  <2>1. \A k \in 1..Len(todo) - 1 : k + 1 \in 1..Len(todo)
    BY <1>2
  <2> QED
    BY <1>2, <2>1 DEF TodoOK
<1>5. IdeaOK(Head(todo))
  BY <1>2, <1>3 DEF TodoOK
<1>6. PICK i : i = [todo[1] EXCEPT !.layer = "global"]
  OBVIOUS
<1>7. IdeaOK(i)
  BY <1>2, <1>5, <1>6, MemoriesAssumption DEF IdeaOK
<1>8. PICK new : new = [todo EXCEPT ![1] = i]
  OBVIOUS
<1>9. new = [todo EXCEPT ![1].layer = "global"]
  BY <1>6, <1>8
<1>10. /\ DOMAIN new = DOMAIN todo
       /\ \A k \in DOMAIN todo : new[k] = IF k = 1 THEN i ELSE todo[k]
  BY <1>8
<1>11. new \in Seq(S \cup {i})
  <2>1. todo \in Seq(S \cup {i})
    BY <1>1
  <2> QED
    BY <1>3, <1>8, <2>1
<1>12. TodoOK(new)
  BY <1>7, <1>10, <1>11 DEF TodoOK
<1> QED
  BY <1>2, <1>3, <1>4, <1>5, <1>9, <1>12

\* What it has left stays ideas.
LEMMA TodoGoes ==
  ASSUME TodoInv,
         dist'.at \in Answered => /\ dist.at \in Answered
                                  /\ \/ dist'.todo = dist.todo /\ (dist'.at # "weigh" => dist.todo # <<>>)
                                     \/ dist'.todo = Tail(dist.todo) /\ dist.todo # <<>> /\ dist'.at = "weigh"
                                     \/ dist'.todo = [dist.todo EXCEPT ![1].layer = "global"] /\ dist.todo # <<>>
  PROVE  TodoInv'
<1>1. ASSUME dist'.at \in Answered
      PROVE  TodoOK(dist'.todo) /\ (dist'.at # "weigh" => dist'.todo # <<>>)
  <2>1. TodoOK(dist.todo)
    BY <1>1 DEF TodoInv
  <2>2. CASE dist'.todo = dist.todo /\ (dist'.at # "weigh" => dist.todo # <<>>)
    BY <2>1, <2>2
  <2>3. CASE dist'.todo = Tail(dist.todo) /\ dist.todo # <<>> /\ dist'.at = "weigh"
    BY <2>1, <2>3, TodoTail
  <2>4. CASE dist'.todo = [dist.todo EXCEPT ![1].layer = "global"] /\ dist.todo # <<>>
    <3>1. TodoOK([dist.todo EXCEPT ![1].layer = "global"]) /\ 1 \in DOMAIN dist.todo
      BY <2>1, <2>4, TodoTail
    <3>2. 1 \in DOMAIN dist'.todo
      BY <2>4, <3>1
    <3> QED
      BY <2>4, <3>1, <3>2
  <2> QED
    BY <1>1, <2>2, <2>3, <2>4
<1> QED
  BY <1>1 DEF TodoInv, Answered

-----------------------------------------------------------------------------
(* The steps *)

\* Where the distiller stays, so does what is said of it.
LEMMA DistStays ==
  ASSUME IsLog, MindInv, UNCHANGED <<dist, thought>>, cursor'.distiller = cursor.distiller, issued' \in Nat, issued <= issued',
         log' = log \/ \E e : Record(e)
  PROVE  ReadInv' /\ KnownInv' /\ TodoInv'
<1>1. ReadInv /\ KnownInv /\ TodoInv /\ issued \in Nat
  BY DEF MindInv, FilesInv
<1>2. "at" \in DOMAIN dist /\ dist.at \in {"idle", "look", "list", "reconcile", "commit"} \cup Answered
  BY <1>1 DEF ReadInv
<1>3. ReadInv'
  BY <1>1, <1>2, ReadGoes
<1>4. KnownInv'
  BY <1>1, KnownGoes
<1>5. TodoInv'
  BY <1>1 DEF TodoInv
<1> QED
  BY <1>3, <1>4, <1>5

\* So it is while others are at work.
LEMMA MindOthers ==
  ASSUME IsLog, MindInv, UNCHANGED memoryVars, cursor'.distiller = cursor.distiller,
         log' = log \/ \E e : Record(e) /\ e.kind # "forgotten"
  PROVE  MindInv'
<1>1. UNCHANGED <<file, issued, dist, edit, thought, clashed>>
  BY DEF memoryVars
<1>2. FilesInv /\ (~clashed => CleanInv)
  BY DEF MindInv
<1>3. issued' \in Nat /\ issued <= issued'
  BY <1>1, <1>2 DEF FilesInv
<1>4. ReadInv' /\ KnownInv' /\ TodoInv'
  BY <1>1, <1>3, DistStays
<1>5. dist'.at = "copy" => clashed \/ ~Promoted(Head(dist'.todo).layer, Head(dist'.todo).what)
  BY <1>1, <1>2 DEF CleanInv, PromotesNew
<1>6. FilesInv' /\ (~clashed' => CleanInv')
  BY <1>1, <1>2, <1>5, FilesStay
<1> QED
  BY <1>4, <1>6 DEF MindInv

\* A writer's change ends.
LEMMA MindEnds ==
  ASSUME IsLog, MindInv, NEW w \in Writer, NEW how \in {"done", "failed"}, Ends(w, how),
         UNCHANGED <<cursor, file, issued, dist, thought, clashed>>, edit[w].at # "idle",
         log' = log \/ \E e : Record(e) /\ (e.kind = "forgotten" => edit[w].at = "log" /\ edit[w].record = e)
  PROVE  MindInv'
<1>1. FilesInv /\ (~clashed => CleanInv)
  BY DEF MindInv
<1>2. issued' \in Nat /\ issued <= issued'
  BY <1>1 DEF FilesInv
<1>3. ReadInv' /\ KnownInv' /\ TodoInv'
  BY <1>2, DistStays
<1>4. PICK j : j = [at |-> IF w = Distiller THEN how ELSE "idle"]
  OBVIOUS
<1>5. edit' = [edit EXCEPT ![w] = j] /\ "at" \in DOMAIN j /\ j.at \in {"idle", "done", "failed"}
  BY <1>4 DEF Ends
<1>6. w = Distiller => dist'.at = "promote"
  BY <1>1 DEF FilesInv
<1>7. FilesInv' /\ (~clashed' => CleanInv')
  BY <1>1, <1>5, <1>6, WriterStops
<1> QED
  BY <1>3, <1>7 DEF MindInv

LEMMA MindWrites ==
  ASSUME IsLog, MindInv, NEW w \in Writer, WritesFile(w) \/ LogsChange(w)
  PROVE  MindInv'
<1>1. FilesInv /\ (~clashed => CleanInv) /\ issued \in Nat
  BY DEF MindInv, FilesInv
<1>2. CASE LogsChange(w)
  <2>1. UNCHANGED <<cursor, file, issued, dist, thought, clashed>> /\ edit[w].at = "log"
    BY <1>2 DEF LogsChange, Editing
  <2>2. CASE Record(edit[w].record) /\ Ends(w, "done")
    <3>1. PICK e : e = edit[w].record
      OBVIOUS
    <3>2. Record(e) /\ (e.kind = "forgotten" => edit[w].at = "log" /\ edit[w].record = e)
      BY <2>1, <2>2, <3>1
    <3> QED
      BY <2>1, <2>2, <3>2, MindEnds
  <2>3. CASE Ends(w, "failed") /\ UNCHANGED log
    BY <2>1, <2>3, MindEnds
  <2> QED
    BY <1>2, <2>2, <2>3 DEF LogsChange
<1>3. CASE WritesFile(w)
  <2>1. UNCHANGED <<log, cursor, issued, dist, thought>> /\ Editing(w, "write") /\ edit[w].at = "write"
    BY <1>3 DEF WritesFile, Editing
  <2>2. CASE Ends(w, "failed") /\ UNCHANGED <<file, clashed>>
    BY <2>1, <2>2, MindEnds
  <2>3. CASE /\ file' = [file EXCEPT ![edit[w].layer] = edit[w].to]
             /\ clashed' = (clashed \/ file[edit[w].layer] # edit[w].base)
             /\ edit' = [edit EXCEPT ![w].at = "log"]
    <3>1. ReadInv' /\ KnownInv' /\ TodoInv'
      BY <1>1, <2>1, DistStays
    <3>2. dist.at = "copy" => Head(dist.todo).layer \in Layer
      BY TodoTail DEF MindInv, TodoInv, Answered, IdeaOK
    <3>3. FilesInv' /\ (~clashed' => CleanInv')
      BY <1>1, <2>1, <2>3, <3>2, WriterWrites
    <3> QED
      BY <3>1, <3>3 DEF MindInv
  <2> QED
    BY <1>3, <2>2, <2>3 DEF WritesFile
<1> QED
  BY <1>2, <1>3

LEMMA MindEdits ==
  ASSUME IsLog, MindInv, NEW w \in Editor,
         \/ \E what \in What : Adds(w, what)
         \/ \E layer \in Layer : \E e \in file[layer] : Forgets(w, layer, e)
  PROVE  MindInv'
<1>1. FilesInv /\ (~clashed => CleanInv) /\ issued \in Nat /\ w \in Writer /\ w # Distiller /\ "global" \in Layer
  BY MemoriesAssumption DEF MindInv, FilesInv, Writer
<1>2. UNCHANGED <<log, cursor, file, dist, thought, clashed>> /\ (issued' = issued \/ issued' = issued + 1)
  BY DEF Adds, Forgets, BeginsEntry
<1>3. issued' \in Nat /\ issued <= issued'
  BY <1>1, <1>2
<1>4. ReadInv' /\ KnownInv' /\ TodoInv'
  BY <1>2, <1>3, DistStays
<1>5. ASSUME NEW what, Adds(w, what)
      PROVE  FilesInv' /\ (~clashed' => CleanInv')
  <2>1. BeginsEntry(w, "global", what)
    BY <1>5 DEF Adds
  <2> QED
    BY <1>1, <1>2, <2>1, EntryBegins
<1>6. ASSUME NEW layer \in Layer, NEW e \in file[layer], Forgets(w, layer, e)
      PROVE  FilesInv' /\ (~clashed' => CleanInv')
  BY <1>1, <1>2, <1>6, ForgetBegins
<1>7. FilesInv' /\ (~clashed' => CleanInv')
  BY <1>5, <1>6
<1> QED
  BY <1>4, <1>7 DEF MindInv

\* The distiller goes on, and leaves the files alone.
LEMMA MindGoes ==
  ASSUME IsLog, MindInv, UNCHANGED <<file, issued, edit, clashed>>, ReadInv', KnownInv', TodoInv',
         log' = log \/ \E e : Record(e) /\ e.kind # "forgotten", dist.at # "promote",
         dist'.at = "copy" => clashed \/ ~Promoted(Head(dist'.todo).layer, Head(dist'.todo).what)
  PROVE  MindInv'
<1>1. FilesInv /\ (~clashed => CleanInv)
  BY DEF MindInv
<1>2. FilesInv' /\ (~clashed' => CleanInv')
  BY <1>1, FilesStay
<1> QED
  BY <1>2 DEF MindInv

\* It reads what was said, and what it knows.
LEMMA MindReads ==
  ASSUME IsLog, MindInv, DistillReads \/ DistillLooks \/ DistillLists \/ DistillReconciles \/ DistillThinks
  PROVE  MindInv'
<1>0. ReadInv /\ KnownInv /\ TodoInv /\ FilesInv /\ issued \in Nat
  BY DEF MindInv, FilesInv
<1>1. /\ UNCHANGED <<cursor, file, issued, edit, clashed>>
      /\ dist.at \in {"idle", "look", "list", "reconcile"}
  BY DEF DistillReads, DistillLooks, DistillLists, DistillReconciles, DistillThinks, Distills, shared
<1>2. log' = log \/ \E e : Record(e) /\ e.kind # "forgotten"
  <2>1. PICK e : e = [kind |-> "promoted", of |-> Head(dist.todo)]
    OBVIOUS
  <2>2. log' = log \/ Record(e)
    BY <2>1 DEF DistillReads, DistillLooks, DistillLists, DistillReconciles, DistillThinks, shared
  <2>3. e.kind # "forgotten"
    BY <2>1
  <2> QED
    BY <2>2, <2>3
<1>3. log' = log \/ \E e : Record(e)
  BY <1>2
<1>4. ASSUME ReadInv', KnownInv', TodoInv', dist'.at # "copy"
      PROVE  MindInv'
  BY <1>1, <1>2, <1>4, MindGoes
<1>5. dist.at # "idle" => DOMAIN dist = {"at", "last", "seqs", "head", "known", "todo"}
  BY <1>0 DEF ReadInv, ReadOK
<1>6. CASE DistillReads
  <2>1. dist'.at \in {"commit", "look"}
    BY <1>6 DEF DistillReads
  <2>2. ReadInv'
    BY <1>0, <1>6, ReadReads
  <2>3. KnownInv' /\ TodoInv'
    BY <2>1 DEF KnownInv, TodoInv, Answered
  <2> QED
    BY <1>4, <2>1, <2>2, <2>3
<1>7. CASE DistillLooks
  <2>1. dist.at = "look" /\ UNCHANGED thought
        /\ dist' = [dist EXCEPT !.at = "list", !.known = {e.id : e \in file["global"]}]
    BY <1>7 DEF DistillLooks, Distills
  <2>2. /\ dist'.at = "list" /\ DOMAIN dist' = DOMAIN dist /\ "at" \in DOMAIN dist'
        /\ dist'.last = dist.last /\ dist'.seqs = dist.seqs /\ dist'.head = dist.head
    BY <1>5, <2>1
  <2>3. ReadInv'
    BY <1>0, <1>1, <1>3, <2>1, <2>2, ReadGoes DEF Answered
  <2>4. KnownInv'
    BY <1>0, <1>7, KnownLooks
  <2>5. TodoInv'
    BY <2>2 DEF TodoInv, Answered
  <2> QED
    BY <1>4, <2>2, <2>3, <2>4, <2>5
<1>8. CASE DistillLists
  <2>1. dist.at = "list" /\ UNCHANGED thought
    BY <1>8 DEF DistillLists, Distills
  <2>2. dist' = Rests \/ dist' = [dist EXCEPT !.at = "reconcile", !.todo = Ordered({id \in dist.known : ~Has("promoted", id)})]
    BY <1>8 DEF DistillLists
  <2>3. /\ "at" \in DOMAIN dist' /\ dist'.at \in {"idle", "reconcile"}
        /\ dist'.at # "idle" => /\ DOMAIN dist' = DOMAIN dist
                                /\ dist'.last = dist.last /\ dist'.seqs = dist.seqs /\ dist'.head = dist.head
    <3>1. CASE dist' = Rests
      BY <3>1 DEF Rests
    <3>2. CASE dist' = [dist EXCEPT !.at = "reconcile", !.todo = Ordered({id \in dist.known : ~Has("promoted", id)})]
      BY <1>5, <2>1, <3>2
    <3> QED
      BY <2>2, <3>1, <3>2
  <2>4. ReadInv'
    BY <1>0, <1>1, <1>3, <2>1, <2>3, ReadGoes DEF Answered
  <2>5. KnownInv'
    BY <1>0, <1>8, KnownLists
  <2>6. TodoInv'
    BY <2>3 DEF TodoInv, Answered
  <2> QED
    BY <1>4, <2>3, <2>4, <2>5, <2>6
<1>9. CASE DistillReconciles
  <2>1. dist.at = "reconcile" /\ UNCHANGED thought
    BY <1>9 DEF DistillReconciles, Distills
  <2>2. dist' = Rests \/ dist' = [dist EXCEPT !.todo = Tail(@)]
    BY <1>9 DEF DistillReconciles
  <2>3. /\ "at" \in DOMAIN dist' /\ dist'.at \in {"idle", "reconcile"}
        /\ dist'.at # "idle" => /\ DOMAIN dist' = DOMAIN dist
                                /\ dist'.last = dist.last /\ dist'.seqs = dist.seqs /\ dist'.head = dist.head
    BY <1>5, <2>1, <2>2 DEF Rests
  <2>4. ReadInv'
    BY <1>0, <1>1, <1>3, <2>1, <2>3, ReadGoes DEF Answered
  <2>5. KnownInv'
    BY <1>0, <1>9, KnownReconciles
  <2>6. TodoInv'
    BY <2>3 DEF TodoInv, Answered
  <2> QED
    BY <1>4, <2>3, <2>4, <2>5, <2>6
<1>10. CASE DistillThinks
  <2>1. dist.at = "reconcile"
    BY <1>10 DEF DistillThinks, Distills
  <2>2. dist' = Rests \/ \E ideas \in Ideas : dist' = [dist EXCEPT !.at = "weigh", !.todo = ideas]
    BY <1>10 DEF DistillThinks
  <2>3. dist'.at \in {"idle", "weigh"}
    <3>1. CASE dist' = Rests
      BY <3>1 DEF Rests
    <3>2. CASE \E ideas \in Ideas : dist' = [dist EXCEPT !.at = "weigh", !.todo = ideas]
      BY <1>5, <2>1, <3>2
    <3> QED
      BY <2>2, <3>1, <3>2
  <2>4. ReadInv'
    BY <1>0, <1>10, ReadThinks
  <2>5. KnownInv' /\ TodoInv'
    BY <1>0, <1>10, KnownThinks
  <2> QED
    BY <1>4, <2>3, <2>4, <2>5
<1> QED
  BY <1>6, <1>7, <1>8, <1>9, <1>10

\* It promotes what it made of it, idea by idea.
LEMMA MindPromotes ==
  ASSUME IsLog, MindInv, DistillWeighs \/ DistillSkips \/ DistillChecks \/ DistillCopies \/ DistillPromoted
  PROVE  MindInv'
<1>0. ReadInv /\ KnownInv /\ TodoInv /\ FilesInv /\ (~clashed => CleanInv) /\ issued \in Nat
  BY DEF MindInv, FilesInv
<1>1. UNCHANGED <<log, cursor, file, thought, clashed>> /\ dist.at \in Answered /\ dist.at # "idle"
  BY DEF DistillWeighs, DistillSkips, DistillChecks, DistillCopies, DistillPromoted, Distills, Answered, shared
<1>2. DOMAIN dist = {"at", "last", "seqs", "head", "known", "todo"}
  BY <1>0, <1>1 DEF ReadInv, ReadOK
<1>3. ASSUME "at" \in DOMAIN dist', dist'.at \in {"idle"} \cup Answered, issued' \in Nat, issued <= issued',
             dist'.at # "idle" => /\ DOMAIN dist' = DOMAIN dist /\ dist'.known = dist.known
                                  /\ dist'.last = dist.last /\ dist'.seqs = dist.seqs /\ dist'.head = dist.head,
             dist'.at # "idle" => \/ dist'.todo = dist.todo /\ (dist'.at # "weigh" => dist.todo # <<>>)
                                  \/ dist'.todo = Tail(dist.todo) /\ dist.todo # <<>> /\ dist'.at = "weigh"
                                  \/ dist'.todo = [dist.todo EXCEPT ![1].layer = "global"] /\ dist.todo # <<>>
      PROVE  ReadInv' /\ KnownInv' /\ TodoInv'
  <2>1. dist'.at # "idle" => dist'.at \in Answered
    BY <1>3
  <2>2. dist'.at \notin {"commit", "list", "reconcile"}
    BY <1>3 DEF Answered
  <2>3. ReadInv'
    BY <1>0, <1>1, <1>3, <2>1, <2>2, ReadGoes
  <2>4. dist'.at \in Answered => dist'.at # "idle"
    BY DEF Answered
  <2>5. KnownInv'
    BY <1>0, <1>1, <1>3, <2>2, <2>4, KnownGoes
  <2>6. TodoInv'
    BY <1>0, <1>1, <1>3, <2>4, TodoGoes
  <2> QED
    BY <2>3, <2>5, <2>6
<1>4. CASE DistillWeighs \/ DistillSkips \/ DistillChecks
  <2>1. /\ UNCHANGED <<issued, edit>> /\ dist.at \in {"weigh", "check"} /\ dist.todo # <<>>
        /\ \/ dist' = Rests
           \/ dist' = [dist EXCEPT !.at = "check"]
           \/ dist' = [dist EXCEPT !.todo = Tail(@)] /\ dist.at = "weigh"
           \/ dist' = [dist EXCEPT !.at = "check", !.todo[1].layer = "global"]
           \/ dist' = [dist EXCEPT !.at = "weigh", !.todo = Tail(@)]
           \/ dist' = [dist EXCEPT !.at = "copy"] /\ ~Holds(Head(dist.todo))
    BY <1>0, <1>4 DEF DistillWeighs, DistillSkips, DistillChecks, Distills, DistillAt, TodoInv
  <2>2. ASSUME dist' # Rests
        PROVE  /\ "at" \in DOMAIN dist' /\ dist'.at \in {"weigh", "check", "copy"}
               /\ DOMAIN dist' = DOMAIN dist /\ dist'.known = dist.known
               /\ dist'.last = dist.last /\ dist'.seqs = dist.seqs /\ dist'.head = dist.head
               /\ \/ dist'.todo = dist.todo
                  \/ dist'.todo = Tail(dist.todo) /\ dist'.at = "weigh"
                  \/ dist'.todo = [dist.todo EXCEPT ![1].layer = "global"]
               /\ dist'.at = "copy" => dist'.todo = dist.todo /\ ~Holds(Head(dist.todo))
    <3>1. CASE dist' = [dist EXCEPT !.at = "check"]
      BY <1>2, <3>1
    <3>2. CASE dist' = [dist EXCEPT !.todo = Tail(@)] /\ dist.at = "weigh"
      BY <1>2, <3>2
    <3>3. CASE dist' = [dist EXCEPT !.at = "check", !.todo[1].layer = "global"]
      BY <1>2, <3>3
    <3>4. CASE dist' = [dist EXCEPT !.at = "weigh", !.todo = Tail(@)]
      BY <1>2, <3>4
    <3>5. CASE dist' = [dist EXCEPT !.at = "copy"] /\ ~Holds(Head(dist.todo))
      BY <1>2, <3>5
    <3> QED
      BY <2>1, <2>2, <3>1, <3>2, <3>3, <3>4, <3>5
  <2>3. dist' = Rests => "at" \in DOMAIN dist' /\ dist'.at = "idle"
    BY DEF Rests
  <2>4. ReadInv' /\ KnownInv' /\ TodoInv'
    <3>1. /\ "at" \in DOMAIN dist' /\ dist'.at \in {"idle"} \cup Answered
          /\ dist'.at # "idle" => /\ DOMAIN dist' = DOMAIN dist /\ dist'.known = dist.known
                                  /\ dist'.last = dist.last /\ dist'.seqs = dist.seqs /\ dist'.head = dist.head
      BY <2>2, <2>3 DEF Answered
    <3>2. dist'.at # "idle" => \/ dist'.todo = dist.todo /\ (dist'.at # "weigh" => dist.todo # <<>>)
                               \/ dist'.todo = Tail(dist.todo) /\ dist.todo # <<>> /\ dist'.at = "weigh"
                               \/ dist'.todo = [dist.todo EXCEPT ![1].layer = "global"] /\ dist.todo # <<>>
      BY <2>1, <2>2, <2>3
    <3>3. issued' \in Nat /\ issued <= issued'
      BY <1>0, <2>1
    <3> QED
      BY <1>3, <3>1, <3>2, <3>3
  <2>5. dist'.at = "copy" => dist'.todo = dist.todo /\ ~Holds(Head(dist.todo))
    BY <2>2, <2>3
  <2>6. dist'.at = "copy" => ~Promoted(Head(dist'.todo).layer, Head(dist'.todo).what)
    BY <2>5 DEF Holds, Promoted
  <2>7. dist.at # "promote"
    BY <2>1
  <2> QED
    BY <1>1, <2>1, <2>4, <2>6, <2>7, MindGoes
<1>5. CASE DistillCopies
  <2>1. /\ dist.at = "copy" /\ dist' = [dist EXCEPT !.at = "promote"]
        /\ BeginsEntry(Distiller, Head(dist.todo).layer, Head(dist.todo).what)
    BY <1>5 DEF DistillCopies, Distills, DistillAt
  <2>2. dist.todo # <<>> /\ Head(dist.todo).layer \in Layer
    BY <1>0, <2>1, TodoTail DEF TodoInv, Answered, IdeaOK
  <2>3. /\ "at" \in DOMAIN dist' /\ dist'.at = "promote" /\ DOMAIN dist' = DOMAIN dist
        /\ dist'.known = dist.known /\ dist'.todo = dist.todo
        /\ dist'.last = dist.last /\ dist'.seqs = dist.seqs /\ dist'.head = dist.head
    BY <1>2, <2>1
  <2>4. issued' \in Nat /\ issued <= issued'
    BY <1>0, <2>1 DEF BeginsEntry
  <2>5. ReadInv' /\ KnownInv' /\ TodoInv'
    BY <1>3, <2>2, <2>3, <2>4 DEF Answered
  <2>6. PICK layer, what : layer = Head(dist.todo).layer /\ what = Head(dist.todo).what
    OBVIOUS
  <2>7. layer \in Layer /\ (clashed \/ ~Promoted(layer, what)) /\ Distiller \in Writer
    BY <1>0, <2>1, <2>2, <2>6 DEF CleanInv, PromotesNew, Writer
  <2>8. BeginsEntry(Distiller, layer, what)
    BY <2>1, <2>6
  <2>9. FilesInv' /\ (~clashed' => CleanInv')
    BY <1>0, <1>1, <2>3, <2>7, <2>8, EntryBegins
  <2> QED
    BY <2>5, <2>9 DEF MindInv
<1>6. CASE DistillPromoted
  <2>1. /\ dist.at = "promote" /\ edit' = [edit EXCEPT ![Distiller] = Rests] /\ UNCHANGED issued
        /\ dist' = Rests \/ dist' = [dist EXCEPT !.at = "weigh", !.todo = Tail(@)]
    BY <1>6 DEF DistillPromoted, Distills
  <2>2. dist.todo # <<>>
    BY <1>0, <2>1 DEF TodoInv
  <2>3. /\ "at" \in DOMAIN dist' /\ dist'.at \in {"idle", "weigh"}
        /\ dist'.at # "idle" => /\ DOMAIN dist' = DOMAIN dist /\ dist'.known = dist.known /\ dist'.todo = Tail(dist.todo)
                                /\ dist'.last = dist.last /\ dist'.seqs = dist.seqs /\ dist'.head = dist.head
    <3>1. CASE dist' = Rests
      BY <3>1 DEF Rests
    <3>2. CASE dist' = [dist EXCEPT !.at = "weigh", !.todo = Tail(@)]
      BY <1>2, <3>2
    <3> QED
      BY <2>1, <3>1, <3>2
  <2>4. ReadInv' /\ KnownInv' /\ TodoInv'
    BY <1>0, <1>3, <2>1, <2>2, <2>3 DEF Answered
  <2>5. Distiller \in Writer /\ "at" \in DOMAIN Rests /\ Rests.at = "idle"
    BY DEF Writer, Rests
  <2>6. FilesInv' /\ (~clashed' => CleanInv')
    BY <1>0, <1>1, <2>1, <2>3, <2>5, WriterStops
  <2> QED
    BY <2>4, <2>6 DEF MindInv
<1> QED
  BY <1>4, <1>5, <1>6

\* It commits its cursor.
LEMMA MindCommits ==
  ASSUME IsLog, CursorInv, MindInv, DistillCommits
  PROVE  MindInv'
<1>1. dist' = Rests /\ UNCHANGED <<log, file, issued, edit, clashed>> /\ dist.at # "promote"
  BY DEF DistillCommits, Distills
<1>2. ReadInv'
  BY ReadCommits DEF MindInv
<1>3. dist'.at = "idle" /\ KnownInv' /\ TodoInv'
  BY <1>1 DEF KnownInv, TodoInv, Answered, Rests
<1> QED
  BY <1>1, <1>2, <1>3, MindGoes

\* A crash takes the changes under way, and what was written stays.
LEMMA MindCrash ==
  ASSUME IsLog, MindInv, Crash
  PROVE  MindInv'
<1>1. /\ UNCHANGED <<log, cursor, file, issued, thought, clashed>> /\ dist' = Rests /\ edit' = [w \in Writer |-> Rests]
  BY DEF Crash, MemoryForgets
<1>2. "at" \in DOMAIN dist' /\ dist'.at = "idle"
  BY <1>1 DEF Rests
<1>3. DOMAIN edit' = Writer /\ \A w \in Writer : "at" \in DOMAIN edit'[w] /\ edit'[w].at = "idle"
  BY <1>1 DEF Rests
<1>4. Changing' = {} /\ Distiller \in Writer /\ Kind("forgotten")' = Kind("forgotten")
  BY <1>1, <1>3 DEF Changing, Writer, Kind
<1>5. ReadInv'
  BY <1>1, <1>2, ReadGoes DEF MindInv
<1>6. KnownInv' /\ TodoInv'
  BY <1>2 DEF KnownInv, TodoInv, Answered
<1>7. FilesInv'
  <2>1. FilesInv
    BY DEF MindInv
  <2>2. \A w \in Changing' : ChangeOK(w, edit[w])'
    BY <1>4
  <2> QED
    BY <1>1, <1>2, <1>3, <1>4, <2>1, <2>2 DEF FilesInv, Given
<1>8. ~clashed' => CleanInv'
  <2>1. ASSUME ~clashed
        PROVE  CleanInv'
    <3>1. CleanInv
      BY <2>1 DEF MindInv
    <3>2. InOneFile' /\ PromotedOnce'
      BY <1>1, <3>1 DEF CleanInv, InOneFile, PromotedOnce
    <3>3. ForgottenGone' /\ AddedNew'
      BY <1>1, <1>4, <3>1 DEF CleanInv, ForgottenGone, AddedNew, Nowhere
    <3>4. PromotesNew'
      BY <1>2, <1>3, <1>4 DEF PromotesNew
    <3> QED
      BY <3>2, <3>3, <3>4 DEF CleanInv
  <2> QED
    BY <1>1, <2>1
<1> QED
  BY <1>5, <1>6, <1>7, <1>8 DEF MindInv

LEMMA MindInvInit == Init => MindInv
<1> SUFFICES ASSUME NEW scene \in Scenes, log = scene.log, MemoryInit,
                    cursor = [triage |-> 0, outbox |-> scene.outbox, distiller |-> 0]
             PROVE  MindInv
  BY DEF Init
<1>1. Len(log) \in Nat /\ DOMAIN log = 1..Len(log) /\ \A n \in DOMAIN log : log[n].kind # "forgotten"
  BY ConsumersAssumption
<1>2. /\ file = [layer \in Layer |-> {}] /\ issued = 0 /\ thought = {} /\ clashed = FALSE
      /\ dist = Rests /\ edit = [w \in Writer |-> Rests]
  BY DEF MemoryInit
<1>3. "at" \in DOMAIN dist /\ dist.at = "idle" /\ cursor.distiller = 0
  BY <1>2 DEF Rests
<1>4. Kind("forgotten") = {}
  BY <1>1 DEF Kind
<1>5. DOMAIN edit = Writer /\ (\A w \in Writer : "at" \in DOMAIN edit[w] /\ edit[w].at = "idle") /\ Changing = {}
      /\ Distiller \in Writer
  BY <1>2 DEF Rests, Changing, Writer
<1>6. ReadInv
  <2>1. \A n \in MeaningfulEvents(DOMAIN log) : n \in Nat /\ 1 <= n
    BY <1>1 DEF MeaningfulEvents
  <2>2. ShownOK
    BY <1>2, <1>3, <2>1 DEF ShownOK
  <2> QED
    BY <1>1, <1>3, <2>2 DEF ReadInv
<1>7. KnownInv /\ TodoInv
  BY <1>3 DEF KnownInv, TodoInv, Answered
<1>8. FilesInv
  BY <1>2, <1>3, <1>4, <1>5 DEF FilesInv
<1>9. CleanInv
  BY <1>2, <1>3, <1>4, <1>5 DEF CleanInv, InOneFile, PromotedOnce, ForgottenGone, AddedNew, PromotesNew
<1> QED
  BY <1>6, <1>7, <1>8, <1>9 DEF MindInv

\* What the channel records, and the cursor it commits, are its own.
LEMMA FeishuRecords ==
  ASSUME CursorInv, FeishuNext
  PROVE  /\ log' = log \/ \E e : Record(e) /\ e.kind \in {"feishu", "ignored", "user", "error"}
         /\ cursor'.distiller = cursor.distiller
<1>1. ASSUME NEW h \in Handler, \/ \E m \in Msg : Delivers(h, m)
                               \/ Looks(h) \/ Judges(h) \/ Records(h) \/ Acts(h) \/ Binds(h) \/ Submits(h)
      PROVE  /\ log' = log \/ \E e : Record(e) /\ e.kind \in {"feishu", "ignored", "user", "error"}
             /\ cursor' = cursor
  <2>1. PICK a, b, c : /\ a = [kind |-> "feishu", of |-> hand[h].msg] /\ b = [kind |-> "ignored", of |-> hand[h].msg]
                       /\ c = [kind |-> "user", of |-> hand[h].msg, item |-> Target(hand[h].msg)]
    OBVIOUS
  <2>2. log' = log \/ Record(a) \/ Record(b) \/ Record(c)
    BY <1>1, <2>1 DEF Delivers, Looks, Judges, Records, Acts, Binds, Submits, shared
  <2>3. a.kind = "feishu" /\ b.kind = "ignored" /\ c.kind = "user"
    BY <2>1
  <2>4. cursor' = cursor
    BY <1>1 DEF Delivers, Looks, Judges, Records, Acts, Binds, Submits, shared
  <2> QED
    BY <2>2, <2>3, <2>4
<1>2. CASE OutboxStarts \/ OutboxTail \/ OutboxReads \/ OutboxRoutes \/ OutboxOpens \/ OutboxBinds
             \/ OutboxSends \/ OutboxFails \/ OutboxCommits
  <2>1. PICK e : e = [kind |-> "error", of |-> Head(out.batch)]
    OBVIOUS
  <2>2. log' = log \/ Record(e)
    BY <1>2, <2>1 DEF OutboxStarts, OutboxTail, OutboxReads, OutboxRoutes, OutboxOpens, OutboxBinds, OutboxSends,
                      OutboxFails, OutboxCommits, shared
  <2>3. e.kind = "error"
    BY <2>1
  <2>4. cursor' = cursor \/ \E n : CommitCursor("outbox", n)
    BY <1>2 DEF OutboxStarts, OutboxTail, OutboxReads, OutboxRoutes, OutboxOpens, OutboxBinds, OutboxSends,
                OutboxFails, OutboxCommits, shared
  <2>5. cursor'.distiller = cursor.distiller
    BY <2>4 DEF CursorInv, CommitCursor
  <2> QED
    BY <2>2, <2>3, <2>5
<1> QED
  BY <1>1, <1>2 DEF FeishuNext

LEMMA MindInvStep == GateInv /\ KeepInv /\ MindInv /\ [Next]_vars => MindInv'
<1> SUFFICES ASSUME GateInv, KeepInv, MindInv, [Next]_vars  PROVE MindInv'
  OBVIOUS
<1>0. IsLog /\ CursorInv
  BY DEF GateInv, KeepInv
<1>1. ASSUME UNCHANGED memoryVars, cursor'.distiller = cursor.distiller,
             log' = log \/ \E e : Record(e) /\ e.kind # "forgotten"
      PROVE  MindInv'
  BY <1>0, <1>1, MindOthers
<1>2. CASE SchedNext /\ UNCHANGED <<feishuVars, memoryVars, tri>>
  <2>1. UNCHANGED cursor
    BY <1>2 DEF SchedNext, Tick, TickTakes, RunNow, Fires, Runs, MarkReads, MarkWrites, CreateSchedule, UpdateReads,
                UpdateWrites, DeleteSchedule, Passes, shared
  <2>2. log' = log \/ \E e : Record(e) /\ e.kind \in {"prompt", "http"}
    BY <1>2, SchedRecords
  <2> QED
    BY <1>1, <1>2, <2>1, <2>2
<1>3. CASE FeishuNext /\ UNCHANGED <<schedVars, memoryVars, tri>>
  <2>1. /\ log' = log \/ \E e : Record(e) /\ e.kind \in {"feishu", "ignored", "user", "error"}
        /\ cursor'.distiller = cursor.distiller
    BY <1>0, <1>3, FeishuRecords
  <2> QED
    BY <1>1, <1>3, <2>1
<1>4. CASE MemoryNext /\ UNCHANGED <<schedVars, feishuVars, tri>>
  <2>1. ASSUME NEW w \in Writer, WritesFile(w) \/ LogsChange(w)
        PROVE  MindInv'
    BY <1>0, <2>1, MindWrites
  <2>2. ASSUME NEW w \in Editor, \/ \E what \in What : Adds(w, what)
                                 \/ \E layer \in Layer : \E e \in file[layer] : Forgets(w, layer, e)
        PROVE  MindInv'
    BY <1>0, <2>2, MindEdits
  <2>3. ASSUME NEW n, RedactMessage(n)
        PROVE  MindInv'
    <3>1. PICK e : e = [kind |-> "redacted", of |-> n]
      OBVIOUS
    <3>2. Record(e) /\ e.kind = "redacted" /\ UNCHANGED <<cursor, memoryVars>>
      BY <2>3, <3>1 DEF RedactMessage
    <3> QED
      BY <1>1, <3>2
  <2>4. CASE DistillReads \/ DistillLooks \/ DistillLists \/ DistillReconciles \/ DistillThinks
    BY <1>0, <2>4, MindReads
  <2>5. CASE DistillWeighs \/ DistillSkips \/ DistillChecks \/ DistillCopies \/ DistillPromoted
    BY <1>0, <2>5, MindPromotes
  <2>6. CASE DistillCommits
    BY <1>0, <2>6, MindCommits
  <2> QED
    BY <1>4, <2>1, <2>2, <2>3, <2>4, <2>5, <2>6 DEF MemoryNext
<1>5. CASE TriageReads \/ TriageDecides \/ TriageCommits
  <2>1. UNCHANGED memoryVars /\ (cursor' = cursor \/ \E n : CommitCursor("triage", n)) /\ (log' = log \/ Record(Decision))
    BY <1>5 DEF TriageReads, TriageDecides, TriageCommits
  <2>2. Decision.kind = "decision"
    BY DEF Decision
  <2>3. cursor'.distiller = cursor.distiller
    BY <1>0, <2>1 DEF CursorInv, CommitCursor
  <2> QED
    BY <1>1, <2>1, <2>2, <2>3
<1>6. CASE Heartbeat \/ Webhook
  <2>1. PICK kind \in {"heartbeat", "webhook"} : Captures(kind)
    BY <1>6 DEF Heartbeat, Webhook
  <2>2. PICK e : e = [kind |-> kind, of |-> None]
    OBVIOUS
  <2>3. Record(e) /\ e.kind = kind /\ UNCHANGED <<cursor, memoryVars>>
    BY <2>1, <2>2 DEF Captures
  <2> QED
    BY <1>1, <2>3
<1>7. ASSUME NEW n \in DOMAIN log, NEW i, NEW parts, Answers(n, i, parts)
      PROVE  MindInv'
  <2>1. PICK e : e = [kind |-> "reply", of |-> n, item |-> i, parts |-> parts]
    OBVIOUS
  <2>2. Record(e) /\ e.kind = "reply" /\ UNCHANGED <<cursor, memoryVars>>
    BY <1>7, <2>1 DEF Answers
  <2> QED
    BY <1>1, <2>2
<1>8. CASE Crash
  BY <1>0, <1>8, MindCrash
<1>9. CASE Start
  BY <1>1, <1>9 DEF Start
<1>10. CASE UNCHANGED vars
  BY <1>1, <1>10 DEF vars, shared
<1> QED
  BY <1>2, <1>3, <1>4, <1>5, <1>6, <1>7, <1>8, <1>9, <1>10 DEF Next

\* The distiller commits what it processed and no more, and never brings back what a person hid
\* or forgot (distiller.go:27, 95-98, files.go:219): up to its cursor it was shown all that means
\* something and nothing hidden before; it knows no memory the log cannot account for; and unless
\* one writer wrote over another, no memory is twice in a layer and a forgotten one is in none.
THEOREM DistillerFollows == Spec => []DistillerKeepsUp
<1>1. MindInv => DistillerKeepsUp
  <2> SUFFICES ASSUME MindInv  PROVE DistillerKeepsUp
    OBVIOUS
  <2>1. /\ \A n \in MeaningfulEvents(DOMAIN log) : n <= cursor.distiller => \E t \in thought : t.of = n
        /\ \A t \in thought, n \in Kind("redacted") : log[n].of = t.of => n > t.head
    BY DEF MindInv, ReadInv, ShownOK
  <2>2. dist.at = "weigh" => \A id \in dist.known : Has("promoted", id)
    BY DEF MindInv, KnownInv, Answered
  <2>3. ASSUME ~clashed, NEW layer \in Layer
        PROVE  /\ \A e, f \in file[layer] : e.what = f.what /\ e.by = Distiller /\ f.by = Distiller => e = f
               /\ \A e \in file[layer] : ~Has("forgotten", e.id)
    <3>1. PromotedOnce /\ \A n \in Kind("forgotten") : Nowhere(log[n].of)
      BY <2>3 DEF MindInv, CleanInv, ForgottenGone
    <3> QED
      BY <3>1 DEF PromotedOnce, Nowhere, Has
  <2>4. clashed \in BOOLEAN
    BY DEF MindInv, FilesInv
  <2> QED
    BY <2>1, <2>2, <2>3, <2>4 DEF DistillerKeepsUp
<1>2. Init => GateInv /\ KeepInv /\ MindInv
  BY GateInvInit, KeepInvInit, MindInvInit
<1>3. GateInv /\ KeepInv /\ MindInv /\ [Next]_vars => (GateInv /\ KeepInv /\ MindInv)'
  BY GateInvStep, KeepInvStep, MindInvStep
<1> QED
  BY <1>1, <1>2, <1>3, PTL DEF Spec
=============================================================================
