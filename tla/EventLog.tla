------------------------------ MODULE EventLog ------------------------------
(***************************************************************************)
(* What the connectors, the triage, the scheduler and the Feishu channel     *)
(* share: the log, the cursors of the consumers that read it, and the life   *)
(* of the program.  An event's seq is its place in the log.                  *)
(***************************************************************************)
EXTENDS Integers, FiniteSets, SequencesExt, TLC

CONSTANT None

VARIABLES
  log,       \* the events some consumer acts on: kind, of, and what their readers look at
  cursor,    \* cursor[consumer]: the seq it has committed, or None
  up,        \* does the program run?
  breaks,    \* crashes and cursors that could not be committed, so far
  left       \* bounds: what the behaviour may still spend, by name

shared == <<log, cursor, up, breaks, left>>

Record(e) == log' = Append(log, e)
Kind(kind) == {n \in DOMAIN log : log[n].kind = kind}
Has(kind, of) == \E n \in Kind(kind) : log[n].of = of
Spends(what) == left[what] > 0 /\ left' = [left EXCEPT ![what] = @ - 1]
Fault == Spends("faults")

Ordered(seqs) ==
  [k \in 1..Cardinality(seqs) |-> CHOOSE n \in seqs : Cardinality({m \in seqs : m <= n}) = k]
NextBatch(after, batch) == {n \in DOMAIN log : after < n /\ n <= after + batch}
CommitCursor(consumer, n) == cursor' = [cursor EXCEPT ![consumer] = n]
=============================================================================
