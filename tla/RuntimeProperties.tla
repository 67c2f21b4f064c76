------------------------- MODULE RuntimeProperties -------------------------
(***************************************************************************)
(* What Runtime is expected to guarantee: safety of the cursors and of the  *)
(* turns, that no wake-up is lost, that every message is handled and that   *)
(* chains of agents waking each other stop.                                 *)
(***************************************************************************)
EXTENDS Runtime

Turns == {"free", "read", "handle", "error", "commit", "exit"}

DbTypeOK ==
  /\ log \in Seq(Event)
  /\ given \in Seq(Nat) /\ Len(given) = Len(log)
  /\ cursor \in [Mailbox -> Nat \cup {NoCursor}]
  /\ owed \subseteq (Seqs \X Mailbox)

ProcessTypeOK ==
  /\ up \in BOOLEAN /\ stopped \in BOOLEAN /\ cancelled \in BOOLEAN
  /\ loop \in {"off", "select", "kick"}
  /\ wake \in 0 .. WakeCap /\ unpublished \in Nat /\ kicks \in Nat
  /\ tasks \subseteq Tasks
  /\ stops \in Nat /\ faults \in Nat

SchedulerTypeOK ==
  /\ active \subseteq Mailbox
  /\ ticking \in BOOLEAN /\ again \in BOOLEAN
  /\ pass \in {"off", "begin", "query", "schedule", "check"}
  /\ snap \subseteq [mb : Mailbox, urgent : BOOLEAN, oldest : Nat]

RunTypeOK ==
  /\ run \in [Gor -> [pc : Turns, mb : Mailbox \cup {None}, batch : SUBSET Seqs,
                      effects : Nat]]
  /\ \A g \in Gor :
       /\ run[g].pc # "free" => run[g].mb \in Mailbox
       /\ run[g].pc \in {"handle", "error", "commit"} => run[g].batch # {}

\* The state has the shape the Go structs and the tables give it.
TypeOK == DbTypeOK /\ ProcessTypeOK /\ SchedulerTypeOK /\ RunTypeOK

Busy == {g \in Gor : run[g].pc # "free"}

\* Two turns of one mailbox never overlap (runtime.go: Runtime.active), although
\* a scheduling pass decides on a list read before it took the lock.
OneTurnPerMailbox ==
  \A g, h \in Busy : run[g].mb = run[h].mb => g = h

\* At most maxTurns turns run at once (runtime.go: the break in tick).
TurnsWithinLimit == Cardinality(Busy) <= MaxTurns

\* Every message is in sight of the scheduler's query, the very first one of a
\* mailbox included (Post seeds the cursor), and a cursor only passes a message
\* once a handler that was not interrupted has been given it: whatever is stopped,
\* killed or posted meanwhile, no message is skipped (runTurn commits the last
\* message it read, never a later one).
NoMessageSkipped ==
  \A m \in Mailbox : \A s \in Mail(m) :
    cursor[m] # NoCursor /\ (s <= cursor[m] => given[s] > 0)

\* Without a restart or a database error, no message is given to two turns: a
\* turn is still active when it commits, and the next turn reads the cursor again.
NoMessageRepeated ==
  stops = 0 /\ faults = 0 => \A s \in DOMAIN given : given[s] <= 1

\* The hop budget: only the outcome of an execution, which is always delivered,
\* may stand one hop past MaxHops, and nothing follows from that outcome.
HopsWithinBudget ==
  \A s \in Seqs :
    /\ log[s].kind \in {"message", "started"} => log[s].hop <= MaxHops
    /\ log[s].kind = "outcome" => log[s].hop <= MaxHops + 1

\* A handled mailbox with a message, no turn, and room for one is never
\* forgotten: a wake-up, a Kick or a pass that will see it is on its way, though
\* Kicks coalesce, the Hub drops wake-ups, and a pass works on an old list.
WillLook(m) ==
  \/ wake > 0 \/ unpublished > 0 \/ loop = "kick" \/ kicks > 0
  \/ pass \in {"begin", "query"}
  \/ pass = "schedule" /\ \E p \in snap : p.mb = m
  \/ pass \in {"schedule", "check"} /\ again

NoLostWakeup ==
  up /\ ~stopped /\ faults = 0 =>
    \A m \in Handled :
      Pending(m) # {} /\ m \notin active /\ Cardinality(active) < MaxTurns => WillLook(m)

\* Cursors never move back, not even across a restart: CommitCursor sets them
\* unconditionally, and it is the single turn per mailbox that keeps them going up.
CursorsOnlyAdvance ==
  [][\A m \in Mailbox : cursor'[m] >= cursor[m]]_cursor

\* Every message to a handled mailbox is consumed, by wake-ups alone when the
\* database answers: the fallback poll is not needed (runtime.go: Kick, tick).
\* When a query of the scheduler fails it takes the poll (PollSpec).
EveryMessageHandled ==
  \A m \in Handled : Pending(m) # {} ~> Pending(m) = {}

\* Agents that keep waking each other stop: once the outside is quiet the whole
\* runtime comes to rest, whatever its turns post (mailbox.go: OverBudget).
ComesToRest ==
  <>[](owed = {} /\ \A m \in Handled : Pending(m) = {})

-----------------------------------------------------------------------------
(* The inductive invariants of the proofs *)

\* Why mailboxes and slots are not given twice: a busy goroutine holds its mailbox in
\* Runtime.active, and the rows of a pass are of distinct mailboxes.
SlotInv ==
  /\ IsFiniteSet(active) /\ Cardinality(active) <= MaxTurns
  /\ \A g \in Busy : run[g].mb \in active
  /\ OneTurnPerMailbox
  /\ \A p, q \in snap : p.mb = q.mb => p = q

\* Turns past the read of their messages and before the end of the commit.
Reading == {g \in Gor : run[g].pc \in {"handle", "error", "commit"}}

\* Why no message is skipped: the messages of a turn start right after the cursor and
\* leave none out, until the turn itself moves the cursor.
BatchInv ==
  /\ \A m \in Mailbox : cursor[m] <= Len(log)
  /\ \A g \in Reading :
       /\ run[g].batch \subseteq Pending(run[g].mb)
       /\ \A b \in run[g].batch : \A s \in Pending(run[g].mb) : s < b => s \in run[g].batch
       /\ run[g].pc # "handle" => \A s \in run[g].batch : given[s] > 0

\* Why outcomes stay one hop past the limit at most: they answer an execution.started.
HopInv ==
  /\ HopsWithinBudget
  /\ \A o \in owed : log[o[1]].kind = "started"

\* Without a shutdown nothing is cancelled, and a process that is down runs nothing.
LifeInv ==
  /\ cancelled => stopped
  /\ stops = 0 /\ up => ~stopped
  /\ stops = 0 => ~cancelled
  /\ ~up => stopped /\ pass = "off" /\ Busy = {}

\* Why no message is given twice: one that was given and still waits is in the hands of
\* the turn it was given to, which is about to move the cursor past it.
Holds(g, m, s) == run[g].pc \in {"error", "commit"} /\ run[g].mb = m /\ s \in run[g].batch
GivenOnce == \A s \in Seqs : given[s] <= 1
HeldUntilCommit ==
  \A m \in Mailbox : \A s \in Pending(m) : given[s] > 0 => \E g \in Gor : Holds(g, m, s)
RepeatInv == stops = 0 /\ faults = 0 => GivenOnce /\ HeldUntilCommit

\* Why a Kick is not lost: while a pass runs, Kick leaves its mark in again, and the
\* loop listens until Stop.
KickInv ==
  /\ ticking <=> pass # "off"
  /\ up /\ ~stopped => loop # "off"

-----------------------------------------------------------------------------
\* Refinement: a turn is open from the read of its messages to its commit.
OpenBatch(m) ==
  UNION {run[g].batch : g \in {h \in Gor : /\ run[h].mb = m
                                           /\ run[h].pc \in {"handle", "error", "commit"}}}

\* The seed of a cursor stands below the first message and consumes nothing.
LastConsumed(m) == Newest({0} \cup {s \in Mail(m) : s <= cursor[m]})

D == INSTANCE Delivery WITH
       mail <- [m \in Mailbox |-> Mail(m)],
       done <- [m \in Mailbox |-> LastConsumed(m)],
       turn <- [m \in Mailbox |-> OpenBatch(m)]

\* The scheduler implements in-order, gap-free, at-least-once delivery with one
\* open turn per mailbox.
DeliverySpec == D!Spec
=============================================================================
