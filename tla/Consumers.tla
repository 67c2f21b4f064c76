----------------------------- MODULE Consumers -----------------------------
(***************************************************************************)
(* The schedules, the Feishu channel and the distiller around one log, with  *)
(* the triage of internal/connectors/connectors.go between the connectors    *)
(* and Primary.                                                              *)
(* The agents who answer are Turns.tla's; here they answer anything.          *)
(***************************************************************************)
EXTENDS Schedules, Feishu, Memories

CONSTANTS
  Scenes,      \* bounds: left, what may be spent, start, the schedules there are at first, log,
               \* what was recorded by then, and outbox, the outbox's cursor
  TriageBatch  \* events triaged at once (50)

ASSUME ConsumersAssumption ==
  /\ TriageBatch \in Nat \ {0}
  /\ \A scene \in Scenes : \A s \in DOMAIN scene.start :
       DOMAIN scene.start[s] = Fields /\ Typed(scene.start[s]) /\ Valid(scene.start[s])
  \* What people said by then was handled to its end.
  /\ \A scene \in Scenes :
       /\ scene.log \in Seq(ToSet(scene.log))
       /\ \A m \in Msg :
            LET said == {n \in DOMAIN scene.log : scene.log[n].of = m /\ scene.log[n].kind \in {"feishu", "user", "ignored"}}
            IN said # {} => \E k, n \in said : /\ said = {k, n} /\ scene.log[k].kind = "feishu"
                                              /\ IF k = n THEN m \in Wordless ELSE k < n /\ scene.log[n].kind # "feishu"
  \* Nothing was decided or forgotten by then, and what was answered is there.
  /\ \A scene \in Scenes :
       /\ scene.outbox \in 0..Len(scene.log) \cup {None}
       /\ \A n \in DOMAIN scene.log : LET e == scene.log[n]
                                     IN  /\ e.kind \notin {"decision", "forgotten"}
                                         /\ e.kind = "user" => e.of \in Msg
                                         /\ e.kind = "reply" => e.of \in 1..n - 1

VARIABLES tri   \* where the triage consumer is

vars == <<shared, schedVars, feishuVars, memoryVars, tri>>

-----------------------------------------------------------------------------
(* TriageOnce *)

Triage(at) == up /\ tri.at = at
Triages(at) == tri' = [tri EXCEPT !.at = at]
NeedsTriage(e) == e.kind \in {"http", "heartbeat", "webhook", "feishu", "ignored"}
\* DefaultTriageRules
TriageEvent(e) == e.kind = "webhook" \/ (e.kind = "http" /\ e.wake)
Decision == [kind |-> "decision", of |-> cursor.triage + 1, wake |-> TriageEvent(log[cursor.triage + 1]), breaks |-> breaks]

TriageReads ==
  /\ Triage("idle") /\ NextBatch(cursor.triage, TriageBatch) # {} /\ Spends("passes")
  /\ tri' = [at |-> "decide", batch |-> NextBatch(cursor.triage, TriageBatch)]
  /\ UNCHANGED <<log, cursor, up, breaks, schedVars, feishuVars, memoryVars>>

\* A wake is a message to Primary, and the record of the decision at once.
TriageDecides ==
  /\ Triage("decide")
  /\ \/ /\ NeedsTriage(log[cursor.triage + 1]) /\ Record(Decision) /\ Triages("commit") /\ UNCHANGED left
     \/ ~NeedsTriage(log[cursor.triage + 1]) /\ Triages("commit") /\ UNCHANGED <<log, left>>
     \/ NeedsTriage(log[cursor.triage + 1]) /\ Fault /\ tri' = Free /\ UNCHANGED log
  /\ UNCHANGED <<cursor, up, breaks, schedVars, feishuVars, memoryVars>>

TriageCommits ==
  /\ Triage("commit")
  /\ \/ /\ CommitCursor("triage", cursor.triage + 1) /\ UNCHANGED <<left, breaks>>
        /\ tri' = IF cursor.triage + 2 \in tri.batch THEN [tri EXCEPT !.at = "decide"] ELSE Free
     \/ Fault /\ breaks' = breaks + 1 /\ tri' = Free /\ UNCHANGED cursor
  /\ UNCHANGED <<log, up, schedVars, feishuVars, memoryVars>>

-----------------------------------------------------------------------------
(* What reaches the log from elsewhere *)

Captures(kind) ==
  /\ up /\ Spends("captures") /\ Record([kind |-> kind, of |-> None])
  /\ UNCHANGED <<cursor, up, breaks, schedVars, feishuVars, memoryVars, tri>>

\* A timer, and a handler of the HTTP API.
Heartbeat == Captures("heartbeat")
Webhook == Captures("webhook")

\* Primary or a Manager answers what was posted to it.
Wakes == Kind("user") \cup Kind("prompt") \cup {n \in Kind("decision") : log[n].wake}
Answers(n, i, parts) ==
  /\ up /\ n \in Wakes /\ Spends("answers")
  /\ (log[n].kind = "user" /\ log[n].item # None) => i = log[n].item
  /\ Record([kind |-> "reply", of |-> n, item |-> i, parts |-> parts])
  /\ UNCHANGED <<cursor, up, breaks, schedVars, feishuVars, memoryVars, tri>>

Crash ==
  /\ up /\ Spends("crashes") /\ up' = FALSE /\ breaks' = breaks + 1
  /\ SchedForgets /\ FeishuForgets /\ MemoryForgets /\ tri' = Free
  /\ UNCHANGED <<log, cursor>>

Start ==
  /\ ~up /\ up' = TRUE
  /\ UNCHANGED <<log, cursor, breaks, left, schedVars, feishuVars, memoryVars, tri>>

-----------------------------------------------------------------------------
Init ==
  /\ up = TRUE /\ breaks = 0
  /\ \E scene \in Scenes : /\ left = scene.left /\ log = scene.log /\ SchedInit(scene.start) /\ FeishuInit(scene.outbox)
                           /\ cursor = [triage |-> 0, outbox |-> scene.outbox, distiller |-> 0]
  /\ MemoryInit /\ tri = Free

Next ==
  \/ SchedNext /\ UNCHANGED <<feishuVars, memoryVars, tri>>
  \/ FeishuNext /\ UNCHANGED <<schedVars, memoryVars, tri>>
  \/ MemoryNext /\ UNCHANGED <<schedVars, feishuVars, tri>>
  \/ TriageReads \/ TriageDecides \/ TriageCommits
  \/ Heartbeat \/ Webhook
  \/ \E n \in DOMAIN log, i \in Item \cup {None}, parts \in 1..MaxParts : Answers(n, i, parts)
  \/ Crash \/ Start

Spec == Init /\ [][Next]_vars

-----------------------------------------------------------------------------
\* "The at-most-once gate" and "the durable half of the retry guard" (feishu.go:254-288): a
\* message the platform delivers any number of times, in any lives of the program, is recorded
\* once and submitted at most once, after it is recorded; and unless its handling was cut short
\* it is submitted or recorded as ignored.
Taken(m) == {n \in Kind("user") \cup Kind("ignored") : log[n].of = m}
Kept(m) == {n \in Kind("feishu") : log[n].of = m}
TakenOnce == \A m \in Msg :
  /\ Cardinality(Kept(m)) <= 1 /\ Cardinality(Taken(m)) <= 1
  /\ \A n \in Taken(m) : \E k \in Kept(m) : k < n
  /\ Kept(m) # {} /\ Taken(m) = {} /\ m \notin Wordless \cup cut => \E h \in Handler : hand[h].at # "idle" /\ hand[h].msg = m

\* What a consumer did of the log, in the order it did it: in the log's order, and the same
\* thing again only after a crash or a cursor that could not be committed.
InOrder(done) == \A j \in DOMAIN done, k \in DOMAIN done : j < k =>
  \/ done[j].of < done[k].of
  \/ done[j].of = done[k].of /\ (done[j].breaks < done[k].breaks \/ done[j].part < done[k].part)

\* Triage and outbox act, then commit (connectors.go:42-75, feishu.go:544-563): nothing at or
\* before a cursor is left undecided or unsent, unless its failure is recorded or could not
\* be, and nothing is done out of order or twice without an interruption.
Decided(n) == Has("decision", n)
SentWhole(n) == \E k \in DOMAIN sent : sent[k].of = n /\ sent[k].part = log[n].parts
ConsumersKeepUp ==
  /\ \A n \in DOMAIN log : n <= cursor.triage /\ NeedsTriage(log[n]) => Decided(n)
  /\ cursor.outbox # None => \A n \in Kind("reply") :
       tail < n /\ n <= cursor.outbox /\ log[log[n].of].kind = "user"
         => SentWhole(n) \/ Has("error", n) \/ n \in cut
  /\ InOrder(sent)
  /\ InOrder([n \in 1..Cardinality(Kind("decision")) |-> LET d == Ordered(Kind("decision"))[n]
                                                     IN  [of |-> log[d].of, part |-> 0, breaks |-> log[d].breaks]])
=============================================================================
