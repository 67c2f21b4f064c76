------------------------------ MODULE WorkTree ------------------------------
(***************************************************************************)
(* The tree of work items of internal/kernel/workitems.go and the door the  *)
(* person's messages come through, internal/agents/ingress.go.              *)
(*                                                                         *)
(* Handlers of several channels, the Primary's turn and the Managers' turns *)
(* change the tree and deliver messages at once; only ChangeStatus holds a  *)
(* lock.  A process is a call of the person's or an agent's turn, and a     *)
(* step of it is one database statement (or a few whose order nobody else   *)
(* can tell).  The log is the events table: mailboxes, attributions and the *)
(* history of statuses are all read off it.                                 *)
(***************************************************************************)
EXTENDS Integers, FiniteSets, SequencesExt

CONSTANTS
  Item,         \* work items
  Tree,         \* parent of each item there is at the start, None for a root
  Message,      \* the person's messages
  Caller,       \* calls through the API or a channel
  Primary, None,
  MaxHops,      \* Cfg.MaxHops
  (* Bounds on the environment; the code has no such limits. *)
  MaxCalls,     \* calls of the person
  MaxFaults     \* calls cut short by an error or a request that went away

ASSUME WorkTreeAssumption ==
  /\ IsFiniteSet(Item)
  /\ Primary \notin Item \cup Caller /\ Item \cap Caller = {}
  /\ None \notin Item \cup Caller \cup Message \cup {Primary}
  /\ DOMAIN Tree \subseteq Item /\ \A i \in DOMAIN Tree : Tree[i] \in DOMAIN Tree \cup {None}
  /\ {MaxHops, MaxCalls, MaxFaults} \subseteq Nat

VARIABLES
  parent,       \* parent[i], None for a root
  status,       \* status[i]: "none" without a row
  active,       \* items with a queued or running execution
  log,          \* the events, in order
  mutex,        \* who holds System.statusMu
  call,         \* call[p]: where p is in the handler it runs
  calls, faults

treeVars == <<parent, status, active, log, mutex, call, calls, faults>>

Proc == Caller \cup Item \cup {Primary}
Statuses == {"open", "done", "closed"}

\* An event: its mailbox (None when only recorded), the item and the person's message it
\* is about, the item the message came from, the log positions of the messages it
\* answers, and its hop.
Event(kind, box, item, of) ==
  [kind |-> kind, box |-> box, item |-> item, of |-> of, prev |-> None, re |-> {}, hop |-> 0]

\* A handler between two calls, or a turn that calls none of these operations now.
Idle == [pc |-> "idle", todo |-> <<>>, saw |-> [i \in Item |-> "none"], prev |-> None,
         re |-> {}, want |-> "open", hop |-> 0]

Exists(i) == status[i] # "none"
Children(i) == {c \in Item : Exists(c) /\ parent[c] = i}
\* The item and every descendant, to a depth no tree of these items exceeds.
SubtreeOf(i) ==
  LET within[n \in Nat] ==
        IF n = 0 THEN {i} ELSE within[n - 1] \cup UNION {Children(c) : c \in within[n - 1]}
  IN  within[Cardinality(Item)]
\* Ids are new; which of the free ones is taken makes no difference.
Free == {i \in Item : ~Exists(i)}
Fresh == CHOOSE i \in Free : TRUE
ParentMailbox(i) == IF parent[i] = None THEN Primary ELSE parent[i]

At(p, pc) == call[p].pc = pc
Goto(p, pc) == call' = [call EXCEPT ![p].pc = pc]
\* What p is about: a message and an item.
Now(p) == Head(call[p].todo)
For(m, i) == [of |-> m, item |-> i]
\* The operation is over for Now(p): it starts again for the next, or p is done.
Proceeds(p, pc) ==
  call' = [call EXCEPT ![p] =
    IF Len(call[p].todo) = 1 THEN Idle ELSE [call[p] EXCEPT !.todo = Tail(@), !.pc = pc]]

Record(e) == log' = Append(log, e)
\* Post: over the hop budget, an escalation for the person stands in.
Posted(e) ==
  IF e.hop > MaxHops THEN [Event("refused", None, e.item, e.of) EXCEPT !.re = e.re] ELSE e
Post(e) == Record(Posted(e))

MaxOf(S) == CHOOSE n \in S : \A k \in S : k <= n
Of(kind) == {n \in DOMAIN log : log[n].kind = kind}

\* The attributions of a message; the last of them says whose it is.
Attributions(m) == {n \in Of("attributed") : log[n].of = m}
Owner(m) == IF Attributions(m) = {} THEN None ELSE log[MaxOf(Attributions(m))].item
\* An outcome is one hop after the execution.started it is about.
OutcomeHop(i) == log[MaxOf({n \in Of("started") : log[n].item = i})].hop + 1
Known(m) == \E n \in DOMAIN log : log[n].kind = "message" /\ log[n].of = m

-----------------------------------------------------------------------------
(* DeliverToWorkItem: call[p].todo are the messages and the items still to be given them,
   and saw what the caller read of the statuses *)

Delivering(todo, saw, prev, re) ==
  [Idle EXCEPT !.pc = "deliver", !.todo = todo, !.saw = saw, !.prev = prev, !.re = re]

\* A closed item the person talks to again.
Reopen(p) ==
  /\ At(p, "deliver") /\ call[p].saw[Now(p).item] # "open"
  /\ status' = [status EXCEPT ![Now(p).item] = "open"]
  /\ Record(Event("reopened", None, Now(p).item, None))
  /\ call' = [call EXCEPT ![p].saw[Now(p).item] = "open"]
  /\ UNCHANGED <<parent, active, mutex, calls, faults>>

Attribute(p) ==
  /\ At(p, "deliver") /\ call[p].saw[Now(p).item] = "open"
  /\ Record([Event("attributed", None, Now(p).item, Now(p).of) EXCEPT
               !.prev = call[p].prev, !.re = call[p].re])
  /\ Goto(p, "copy")
  /\ UNCHANGED <<parent, status, active, mutex, calls, faults>>

\* The Manager's copy, caused by the person's message.
Copy(p) ==
  /\ At(p, "copy")
  /\ Post([Event("copy", Now(p).item, Now(p).item, Now(p).of) EXCEPT !.hop = 1])
  /\ Proceeds(p, "deliver")
  /\ UNCHANGED <<parent, status, active, mutex, calls, faults>>

-----------------------------------------------------------------------------
(* The person's calls *)

Called(p) ==
  /\ p \in Caller /\ At(p, "idle") /\ calls < MaxCalls
  /\ calls' = calls + 1

\* SubmitMessage: with no target the Primary reads it; a message for several items
\* belongs to none of them.
Submit(p, m, targets) ==
  /\ Called(p) /\ ~Known(m)
  /\ IsInjective(targets) /\ \A i \in ToSet(targets) : Exists(i)
  /\ Record(Event("message", IF targets = <<>> THEN Primary ELSE None,
                  IF Len(targets) = 1 THEN Head(targets) ELSE None, m))
  /\ call' = [call EXCEPT ![p] =
       IF targets = <<>> THEN Idle
       ELSE Delivering([n \in DOMAIN targets |-> For(m, targets[n])], status, None, {})]
  /\ UNCHANGED <<parent, status, active, mutex, faults>>

\* Reattribute: a message is not moved to where it is.
Reattribute(p, m, i) ==
  /\ Called(p) /\ Known(m) /\ Exists(i)
  /\ Owner(m) # i
  /\ call' = [call EXCEPT ![p] = Delivering(<<For(m, i)>>, status, Owner(m), {})]
  /\ UNCHANGED <<parent, status, active, log, mutex, faults>>

\* A new root item.
Creates(i) ==
  /\ parent' = [parent EXCEPT ![i] = None]
  /\ status' = [status EXCEPT ![i] = "open"]

\* startFromMessage: Reattribute to "new", and Promote, which wants a message that was
\* given to no item.
StartFromMessage(p, m) ==
  /\ Called(p) /\ Known(m) /\ Free # {}
  /\ Creates(Fresh)
  /\ call' = [call EXCEPT ![p] = Delivering(<<For(m, Fresh)>>, status', Owner(m), {})]
  /\ UNCHANGED <<active, log, mutex, faults>>

\* An error, or a request that went away, ends a call between two of its statements.
CallFails(p) ==
  /\ p \in Caller /\ ~At(p, "idle") /\ faults < MaxFaults
  /\ faults' = faults + 1
  /\ call' = [call EXCEPT ![p] = Idle]
  /\ mutex' = IF mutex = p THEN None ELSE mutex
  /\ UNCHANGED <<parent, status, active, log, calls>>

-----------------------------------------------------------------------------
(* ChangeStatus *)

\* The status of the items is to be set, on account of an event of this hop (0: the
\* person asked).
Changing(items, want, hop) ==
  [Idle EXCEPT !.pc = "lock", !.todo = [n \in DOMAIN items |-> For(None, items[n])],
               !.want = want, !.hop = hop]

SetStatus(p, i, want) ==
  /\ Called(p) /\ Exists(i)
  /\ call' = [call EXCEPT ![p] = Changing(<<i>>, want, 0)]
  /\ UNCHANGED <<parent, status, active, log, mutex, faults>>

\* Mutant: the lock is not waited for.
ChangeRowUnlocked(p) ==
  /\ At(p, "lock")
  /\ mutex' = p
  /\ status' = [status EXCEPT ![Now(p).item] = call[p].want]
  /\ Record([Event(IF call[p].want = "open" THEN "reopened" ELSE "settles", None, Now(p).item, None)
              EXCEPT !.re = call[p].re])
  /\ Goto(p, "siblings")
  /\ UNCHANGED <<parent, active, calls, faults>>
\* The lock, and SetWorkItemStatus.
ChangeRow(p) ==
  /\ At(p, "lock") /\ mutex = None
  /\ mutex' = p
  /\ status' = [status EXCEPT ![Now(p).item] = call[p].want]
  /\ Record([Event(IF call[p].want = "open" THEN "reopened" ELSE "settles", None, Now(p).item, None)
              EXCEPT !.re = call[p].re])
  /\ Goto(p, "siblings")
  /\ UNCHANGED <<parent, active, calls, faults>>

\* Mutant: a closed sibling still counts as work to come.
SettledDoneOnly(i) == \A c \in Children(parent[i]) : status[c] = "done"
Settled(i) == \A c \in Children(parent[i]) : status[c] # "open"

\* notifyParentIfSettled reads the siblings.
Siblings(p) ==
  LET i == Now(p).item IN
  /\ At(p, "siblings")
  /\ IF call[p].want # "open" /\ parent[i] # None /\ Settled(i)
     THEN Goto(p, "notify") /\ UNCHANGED mutex
     ELSE Proceeds(p, "lock") /\ mutex' = None
  /\ UNCHANGED <<parent, status, active, log, calls, faults>>

NotifyParent(p) ==
  LET up == parent[Now(p).item] IN
  /\ At(p, "notify")
  /\ Post([Event("settled", up, up, None) EXCEPT !.hop = call[p].hop + 1])
  /\ Proceeds(p, "lock") /\ mutex' = None
  /\ UNCHANGED <<parent, status, active, calls, faults>>

-----------------------------------------------------------------------------
(* CancelTree.  How it stops an execution is in module WorkerPool; here it has none
   afterwards, and each outcome reaches its Manager. *)

\* The parts that are open now are closed at the end.
Cancelling(i) ==
  LET tree == SubtreeOf(i)
      parts == SetToSeq({c \in Item \ {i} : c \in tree /\ status[c] = "open"})
  IN  [Idle EXCEPT !.pc = "stop", !.todo = [n \in DOMAIN parts |-> For(None, parts[n])],
                   !.saw = [j \in Item |-> IF j \in tree THEN status[j] ELSE "none"]]

Cancel(p, i) ==
  /\ Called(p) /\ Exists(i)
  /\ call' = [call EXCEPT ![p] = Cancelling(i)]
  /\ UNCHANGED <<parent, status, active, log, mutex, faults>>

StopExecutions(p) ==
  LET stopped == {i \in active : call[p].saw[i] # "none"} IN
  /\ At(p, "stop")
  /\ active' = active \ stopped
  /\ log' = log \o SetToSeq({[Event("cancelled", i, i, None) EXCEPT !.hop = OutcomeHop(i)] : i \in stopped})
  /\ call' = [call EXCEPT ![p] = IF @.todo = <<>> THEN Idle ELSE [@ EXCEPT !.pc = "close"]]
  /\ UNCHANGED <<parent, status, mutex, calls, faults>>

\* Without the lock, and without a word to the parent.
ClosePart(p) ==
  /\ At(p, "close")
  /\ status' = [status EXCEPT ![Now(p).item] = "closed"]
  /\ Record(Event("stops", None, Now(p).item, None))
  /\ Proceeds(p, "close")
  /\ UNCHANGED <<parent, active, mutex, calls, faults>>

-----------------------------------------------------------------------------
TreeInit ==
  /\ parent = [i \in Item |-> IF i \in DOMAIN Tree THEN Tree[i] ELSE None]
  /\ status = [i \in Item |-> IF i \in DOMAIN Tree THEN "open" ELSE "none"]
  /\ active = {} /\ log = <<>> /\ mutex = None
  /\ call = [p \in Proc |-> Idle] /\ calls = 0 /\ faults = 0

\* What a handler does from its first statement on.
Step(p) ==
  \/ Reopen(p) \/ Attribute(p) \/ Copy(p)
  \/ ChangeRow(p) \/ Siblings(p) \/ NotifyParent(p)
  \/ StopExecutions(p) \/ ClosePart(p)

Ask(p) ==
  \/ \E m \in Message, targets \in {<<>>} \cup {<<i>> : i \in Item} \cup {<<i, j>> : i, j \in Item} :
       Submit(p, m, targets)
  \/ \E m \in Message, i \in Item : Reattribute(p, m, i)
  \/ \E m \in Message : StartFromMessage(p, m)
  \/ \E i \in Item, s \in Statuses : SetStatus(p, i, s)
  \/ \E i \in Item : Cancel(p, i)
=============================================================================
