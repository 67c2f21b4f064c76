-------------------------------- MODULE Turns --------------------------------
(***************************************************************************)
(* The turns of the agents over the tree of work items: ManagerTurn of      *)
(* internal/agents/manager.go, PrimaryTurn of internal/agents/primary.go.   *)
(*                                                                         *)
(* A turn reads what waits in its mailbox, asks the model once and carries  *)
(* out the effects the model answered with, in phases.  The model may       *)
(* answer anything, so an effect is chosen when it is carried out.  What    *)
(* the turn read before it thought - the statuses, the items at work - is   *)
(* kept from then on, while others change the tree.                         *)
(* Prompts, charters, sessions and the wording of answers are left out.     *)
(***************************************************************************)
EXTENDS WorkTree

CONSTANTS
  MaxRuns,      \* Cfg.MaxExecutionsPerItem
  MaxWork,      \* bound: calls, faults, turns that ask the model and effects but spawns
  Kinds         \* bound: the kinds of effects it asks for

ASSUME TurnsAssumption == {MaxRuns, MaxWork} \subseteq Nat

VARIABLES
  read,         \* read[a]: the cursor of the mailbox of a
  turn,         \* turn[a]: the turn of a
  asked         \* turns that asked the model, and effects but spawns it asked for

vars == <<treeVars, read, turn, asked>>

Agent == Item \cup {Primary}

\* batch: what the turn reads; upto: where the cursor goes; all: the statuses it read;
\* confirmed: messages with confirmations to flush.
NoTurn == [pc |-> "idle", batch |-> {}, upto |-> 0, refused |-> FALSE, spawned |-> FALSE,
           all |-> [i \in Item |-> "none"], covered |-> {}, confirmed |-> {}]

Unread(a) == {n \in DOMAIN log : log[n].box = a /\ n > read[a]}
\* The turn acts when no operation it called is going on.
On(a, pc) == turn[a].pc = pc /\ At(a, "idle")
Batch(a) == turn[a].batch
\* The hop of what the turn emits.
NextHop(a) == MaxOf({log[n].hop : n \in Batch(a)}) + 1
\* The turn is over, and what it read is done with.
Ends(a) == UNCHANGED asked /\ turn' = [turn EXCEPT ![a] = NoTurn] /\ read' = [read EXCEPT ![a] = turn[a].upto]
Consumes(a, S) == UNCHANGED <<turn, asked>> /\ read' = [read EXCEPT ![a] = MaxOf(S)]
\* There is more to come from the person and the model.
More == calls + faults + asked < MaxWork
\* The turn asks the model.
Thinks(a, t) ==
  /\ More /\ asked' = asked + 1
  /\ turn' = [turn EXCEPT ![a] = [t EXCEPT !.pc = "think"]]
  /\ UNCHANGED read

\* The next effect is of this kind.
Asks(a, pc, kind) == On(a, pc) /\ kind \in Kinds
Effect(a, pc, kind) == Asks(a, pc, kind) /\ More /\ asked' = asked + 1

Quiet == UNCHANGED <<parent, status, active, mutex, calls, faults>>   \* the tree
Answer(kind, item, of, re) == [Event(kind, None, item, of) EXCEPT !.re = re]
Answers(kind, S) == log' = log \o SetToSeq({Answer(kind, None, log[n].of, {n}) : n \in S})

-----------------------------------------------------------------------------
(* ManagerTurn *)

\* Mutant: any move away counts, earlier ones too.
MovedAwayEver(i, n) ==
  /\ log[n].kind = "copy" /\ log[n].of # None
  /\ \E k \in DOMAIN log : log[k].kind = "attributed" /\ log[k].of = log[n].of /\ log[k].prev = i
\* The person moved the message of this copy elsewhere after the copy came here.
MovedAway(i, n) ==
  /\ log[n].kind = "copy" /\ log[n].of # None
  /\ \E k \in DOMAIN log :
       k > n /\ log[k].kind = "attributed" /\ log[k].of = log[n].of /\ log[k].prev = i
Kept(i) == {n \in Unread(i) : ~MovedAway(i, n)}

\* A message that reads as the person's, or a parent's.
Personal(n) == log[n].kind = "copy"

\* Every message was moved away, or the words go to the execution that runs.
ManagerSkips(i) ==
  /\ On(i, "idle") /\ Unread(i) # {}
  /\ Kept(i) = {} \/ (i \in active /\ \A n \in Kept(i) : Personal(n))
  /\ Consumes(i, Unread(i))
  /\ Quiet /\ UNCHANGED <<log, call>>

\* Cancelled executions are acknowledged without the model, unless the person's words
\* came too late for one of them.
ManagerAcknowledges(i) ==
  /\ On(i, "idle") /\ Kept(i) # {} /\ \A n \in Kept(i) : log[n].kind = "cancelled"
  /\ Record(Answer("reply", i, None, Kept(i)))
  /\ Consumes(i, Unread(i))
  /\ Quiet /\ UNCHANGED call

ManagerBegins(i) ==
  /\ On(i, "idle") /\ Kept(i) # {}
  /\ ~(i \in active /\ \A n \in Kept(i) : Personal(n))
  /\ Thinks(i, [NoTurn EXCEPT !.batch = Kept(i), !.upto = MaxOf(Unread(i))])
  /\ Quiet /\ UNCHANGED <<log, call>>

\* The turn is stopped: its messages will be read again.
Aborts(a) ==
  /\ On(a, "think")
  /\ turn' = [turn EXCEPT ![a] = NoTurn]
  /\ Quiet /\ UNCHANGED <<log, call, read, asked>>

\* The model failed, or twice gave no list of effects: its words are the answer.
ManagerFallsBack(i) ==
  /\ On(i, "think")
  /\ Record(Answer("reply", i, None, Batch(i)))
  /\ Ends(i)
  /\ Quiet /\ UNCHANGED call

\* Mutant: the replies come last.
NextPhaseLate(pc) ==
  CASE pc = "think" -> "attach" [] pc = "attach" -> "work" [] pc = "work" -> "done"
    [] pc = "done" -> "reply" [] pc = "reply" -> "end"
NextPhase(pc) ==
  CASE pc = "think" -> "attach" [] pc = "attach" -> "work" [] pc = "work" -> "reply"
    [] pc = "reply" -> "done" [] pc = "done" -> "end"

\* Mutant: the phases go on whatever was refused.
ManagerPhaseOn(i) ==
  /\ turn[i].pc \in {"think", "attach", "work", "reply", "done"} /\ At(i, "idle")
  /\ IF NextPhase(turn[i].pc) = "end" THEN Ends(i)
     ELSE turn' = [turn EXCEPT ![i].pc = NextPhase(@)] /\ UNCHANGED <<read, asked>>
  /\ Quiet /\ UNCHANGED <<log, call>>
\* After a phase with a refused dispatch the turn says no more.
ManagerPhase(i) ==
  /\ turn[i].pc \in {"think", "attach", "work", "reply", "done"} /\ At(i, "idle")
  /\ IF turn[i].refused \/ NextPhase(turn[i].pc) = "end" THEN Ends(i)
     ELSE turn' = [turn EXCEPT ![i].pc = NextPhase(@)] /\ UNCHANGED <<read, asked>>
  /\ Quiet /\ UNCHANGED <<log, call>>

\* A turn carries out an effect that only records one event.
Records(i, pc, kind, e) ==
  /\ Effect(i, pc, kind)
  /\ Post(e)
  /\ Quiet /\ UNCHANGED <<call, read, turn>>

\* attach_repo, when the person must be asked something first.
AttachAsks(i) == Records(i, "attach", "attach_repo", Answer("reply", i, None, Batch(i)))
ManagerReplies(i) == Records(i, "reply", "reply", Answer("reply", i, None, Batch(i)))

\* bubble
Bubble(i, kind, of) ==
  [Event(kind, ParentMailbox(i), i, of) EXCEPT !.hop = NextHop(i)]
Escalate(i) == Records(i, "work", "escalate", Bubble(i, "escalation.raised", None))

AnswerChild(i) ==
  \E c \in Children(i) :
    Records(i, "work", "answer", [Event("copy", c, c, None) EXCEPT !.hop = NextHop(i)])

\* Only what was the person's message in the first place, and not one they addressed to
\* several items.
Reroute(i) ==
  \E n \in Batch(i) :
    /\ log[n].of # None /\ log[n].kind \in {"copy", "reroute"}
    /\ \E k \in DOMAIN log : /\ log[k].kind = "message" /\ log[k].of = log[n].of
                             /\ {log[k].item, log[k].box} # {None}
    /\ Records(i, "work", "reroute", Bubble(i, "reroute", log[n].of))

\* CountExecutionsSinceInput
RunsSinceInput(i) ==
  Cardinality({n \in DOMAIN log : /\ log[n].kind = "started" /\ log[n].item = i
                                  /\ \A k \in DOMAIN log : log[k].kind = "copy" /\ log[k].box = i => k < n})

\* spawn, once a turn.
Spawn(i) ==
  /\ Asks(i, "work", "spawn") /\ ~turn[i].spawned
  /\ LET refused == RunsSinceInput(i) >= MaxRuns \/ NextHop(i) > MaxHops IN
       /\ turn' = [turn EXCEPT ![i].spawned = TRUE, ![i].refused = refused]
       /\ Record([Answer(IF refused THEN "escalation" ELSE "started", i, None, Batch(i))
                  EXCEPT !.hop = NextHop(i)])
       /\ active' = IF refused THEN active ELSE active \cup {i}
  /\ UNCHANGED <<parent, status, mutex, calls, faults, call, read, asked>>

\* create_children: the child and its brief.
CreateChild(i) ==
  /\ Effect(i, "work", "create_children") /\ Free # {}
  /\ parent' = [parent EXCEPT ![Fresh] = i]
  /\ status' = [status EXCEPT ![Fresh] = "open"]
  /\ Post([Event("copy", Fresh, Fresh, None) EXCEPT !.hop = NextHop(i)])
  /\ UNCHANGED <<active, mutex, calls, faults, call, read, turn>>

Done(i) ==
  /\ Effect(i, "done", "done") /\ parent[i] # None
  /\ call' = [call EXCEPT ![i] = [Changing(<<i>>, "done", NextHop(i) - 1) EXCEPT !.re = Batch(i)]]
  /\ Quiet /\ UNCHANGED <<log, read, turn>>

ManagerTurn(i) ==
  \/ ManagerSkips(i) \/ ManagerAcknowledges(i) \/ ManagerBegins(i) \/ Aborts(i)
  \/ ManagerFallsBack(i) \/ ManagerPhase(i)
  \/ AttachAsks(i) \/ ManagerReplies(i) \/ Escalate(i) \/ AnswerChild(i) \/ Reroute(i)
  \/ Spawn(i) \/ CreateChild(i) \/ Done(i)

-----------------------------------------------------------------------------
(* PrimaryTurn *)

Routable(n) == log[n].kind \in {"message", "reroute", "recalled"}

\* Questions that reached the top are put to the person; the rest needs the model.
PrimaryBegins ==
  LET unread == Unread(Primary)
      batch  == {n \in unread : Routable(n)}
  IN  /\ On(Primary, "idle") /\ unread # {}
      /\ Answers("escalation", unread \ batch)
      /\ IF batch = {} THEN Consumes(Primary, unread)
         ELSE Thinks(Primary, [NoTurn EXCEPT !.batch = batch, !.upto = MaxOf(unread), !.all = status])
      /\ Quiet /\ UNCHANGED call

\* No list of effects, twice: the model's words answer each message.
PrimaryFallsBack ==
  /\ On(Primary, "think")
  /\ Answers("reply", Batch(Primary))
  /\ Ends(Primary)
  /\ Quiet /\ UNCHANGED call

PrimaryDecides ==
  /\ On(Primary, "think")
  /\ turn' = [turn EXCEPT ![Primary].pc = "act"]
  /\ Quiet /\ UNCHANGED <<log, call, read, asked>>

\* An effect on message n covers it, and what the model folded into it.
Covers(n, also) == [turn[Primary] EXCEPT !.covered = @ \cup {n} \cup also]
Covering(n, also) == turn' = [turn EXCEPT ![Primary] = Covers(n, also)]
\* What really happened is told once, after all of it.
Confirming(n) ==
  turn' = [turn EXCEPT ![Primary] = [Covers(n, {}) EXCEPT !.confirmed = @ \cup {n}]]
Does(kind) == Effect(Primary, "act", kind)

Recall(n, also) ==
  /\ Does("recall") /\ log[n].kind # "recalled"
  /\ Covering(n, also)
  /\ Post([Event("recalled", Primary, None, log[n].of) EXCEPT !.hop = log[n].hop + 1, !.re = {n}])
  /\ Quiet /\ UNCHANGED <<call, read>>

\* The items that refused the message, as its reroute says.
Excluded(n) == IF log[n].kind = "reroute" THEN {log[n].item} ELSE {}

\* Any item may hold a worktree of its work and be a target, closed or not.
Route(n, also, i) ==
  /\ Does("route") /\ turn[Primary].all[i] # "none" /\ i \notin Excluded(n)
  /\ Covering(n, also)
  /\ call' = [call EXCEPT ![Primary] = Delivering(<<For(log[n].of, i)>>, turn[Primary].all, None, {n})]
  /\ Quiet /\ UNCHANGED <<log, read>>

\* "ambiguous", or a route the model is not sure of: the person is asked.
AskWhich(n, also) ==
  /\ Does("ambiguous")
  /\ Covering(n, also)
  /\ Record(Answer("ambiguous", None, log[n].of, {n}))
  /\ Quiet /\ UNCHANGED <<call, read>>

\* The repositories cannot be settled: nothing is created.
CreateRefused(n, also) ==
  /\ Does("create_work_item")
  /\ Covering(n, also)
  /\ Record(Answer("told", None, log[n].of, {n}))
  /\ Quiet /\ UNCHANGED <<call, read>>

\* The messages folded into it are delivered too.
Create(n, also) ==
  LET extras == SetToSeq({For(log[k].of, Fresh) : k \in also}) IN
  /\ Does("create_work_item") /\ Free # {}
  /\ Covering(n, also)
  /\ Creates(Fresh)
  /\ call' = [call EXCEPT ![Primary] =
       Delivering(<<For(log[n].of, Fresh)>> \o extras, status', None, {n})]
  /\ UNCHANGED <<active, mutex, calls, faults, log, read>>

\* dispatch = false: the item is made, and its Manager is not woken: the copy is on the
\* item's thread only.
CreateDeferred(n, also) ==
  /\ Does("create_work_item") /\ Free # {}
  /\ Covering(n, also)
  /\ Creates(Fresh)
  /\ log' = log \o <<Answer("attributed", Fresh, log[n].of, {n}), Event("copy", None, Fresh, log[n].of),
                      Answer("told", None, log[n].of, {n})>>
  /\ UNCHANGED <<active, mutex, calls, faults, call, read>>

\* set_status, on items of the list or on all that were open: the statuses are read
\* again, and an open one that is no longer so refuses the lot.
SetStatusOf(n, items, want, allOpen) ==
  LET gone   == {i \in items : status[i] # "open"}
      change == {i \in items : status[i] # want}
  IN  /\ Does("set_status") /\ \A i \in items : turn[Primary].all[i] # "none"
      /\ Confirming(n)
      /\ call' = IF change = {} \/ (allOpen /\ gone # {}) THEN call
                 ELSE [call EXCEPT ![Primary] = Changing(SetToSeq(change), want, log[n].hop)]
      /\ Quiet /\ UNCHANGED <<log, read>>

\* cancel, of an item of the list or one that was at work; several are several effects.
CancelOf(n, i) ==
  /\ Does("cancel") /\ turn[Primary].all[i] # "none"
  /\ Confirming(n)
  /\ call' = [call EXCEPT ![Primary] = Cancelling(i)]
  /\ Quiet /\ UNCHANGED <<log, read>>

\* update_repo, forget_repo and arguments that make no sense: only a confirmation.
ConfirmOnly(n) ==
  /\ Does("repo")
  /\ Confirming(n)
  /\ Quiet /\ UNCHANGED <<log, call, read>>

\* Every effect but the replies is done.
Flush ==
  /\ On(Primary, "act")
  /\ turn' = [turn EXCEPT ![Primary].pc = "reply"]
  /\ Answers("confirm", turn[Primary].confirmed)
  /\ Quiet /\ UNCHANGED <<call, read, asked>>

\* Mutant: the model's reply follows the confirmation.
PrimaryRepliesTwice(n, also) ==
  /\ Effect(Primary, "reply", "reply")
  /\ Covering(n, also)
  /\ Record(Answer("reply", None, log[n].of, {n}))
  /\ Quiet /\ UNCHANGED <<call, read>>
\* A confirmation stands in for the reply.
PrimaryReplies(n, also) ==
  /\ Effect(Primary, "reply", "reply")
  /\ Covering(n, also)
  /\ IF n \in turn[Primary].confirmed THEN UNCHANGED log
     ELSE Record(Answer("reply", None, log[n].of, {n}))
  /\ Quiet /\ UNCHANGED <<call, read>>

\* What the model skipped is answered for it.
PrimaryEnds ==
  /\ On(Primary, "reply")
  /\ Answers("reply", Batch(Primary) \ turn[Primary].covered)
  /\ Ends(Primary)
  /\ Quiet /\ UNCHANGED call

PrimaryActs(n) ==
  \/ \E also \in SUBSET (Batch(Primary) \ {n}) :
       \/ Recall(n, also) \/ AskWhich(n, also) \/ CreateRefused(n, also) \/ Create(n, also)
       \/ CreateDeferred(n, also) \/ PrimaryReplies(n, also)
       \/ \E i \in Item : Route(n, also, i)
  \/ \E items \in SUBSET Item, want \in Statuses : SetStatusOf(n, items, want, FALSE)
  \/ \E want \in Statuses :
       SetStatusOf(n, {i \in Item : turn[Primary].all[i] = "open"}, want, TRUE)
  \/ \E i \in Item : CancelOf(n, i)
  \/ ConfirmOnly(n)

PrimaryTurn ==
  \/ PrimaryBegins \/ Aborts(Primary) \/ PrimaryFallsBack \/ PrimaryDecides \/ Flush \/ PrimaryEnds
  \/ \E n \in Batch(Primary) : PrimaryActs(n)

-----------------------------------------------------------------------------
\* An execution ends by itself; its outcome is always delivered.
ExecutionEnds(i) ==
  /\ i \in active
  /\ active' = active \ {i}
  /\ Record([Event("finished", i, i, None) EXCEPT !.hop = OutcomeHop(i)])
  /\ UNCHANGED <<parent, status, mutex, calls, faults, call, read, turn, asked>>

Init == TreeInit /\ read = [a \in Agent |-> 0] /\ turn = [a \in Agent |-> NoTurn] /\ asked = 0

Next ==
  \/ \E p \in Proc : Step(p) /\ UNCHANGED <<read, turn, asked>>
  \/ \E p \in Caller : More /\ (Ask(p) \/ CallFails(p)) /\ UNCHANGED <<read, turn, asked>>
  \/ \E i \in Item : ManagerTurn(i) \/ ExecutionEnds(i)
  \/ PrimaryTurn

Spec == Init /\ [][Next]_vars
=============================================================================
