--------------------------- MODULE TurnsProperties ---------------------------
(***************************************************************************)
(* What the tree of work items and the agents' turns over it are expected   *)
(* to guarantee: a message of the person is worked on in one place, a       *)
(* parent hears when its parts have settled, and the person is told what    *)
(* happened, once, and nothing that did not happen.                         *)
(***************************************************************************)
EXTENDS Turns

EventKinds == {"message", "copy", "attributed", "reopened", "settles", "stops", "settled", "cancelled",
               "started", "finished", "refused", "escalation", "escalation.raised", "reroute", "recalled",
               "ambiguous", "reply", "told", "confirm"}
CallPcs == {"idle", "deliver", "copy", "lock", "siblings", "notify", "stop", "close"}
TurnPcs == {"idle", "think", "attach", "work", "reply", "done", "act"}

\* The state has the shape of the tables and of the Go structs; the lock is held by the
\* one call that is between its first and its last statement under it.
TurnsTypeOK ==
  /\ parent \in [Item -> Item \cup {None}] /\ status \in [Item -> Statuses \cup {"none"}]
  /\ active \subseteq {i \in Item : Exists(i)}
  /\ \A n \in DOMAIN log :
       /\ log[n].kind \in EventKinds /\ log[n].box \in Agent \cup {None}
       /\ log[n].item \in Item \cup {None} /\ log[n].of \in Message \cup {None}
       /\ log[n].re \subseteq 1..Len(log)
  /\ \A p \in Proc : call[p].pc \in CallPcs /\ (call[p].pc \in {"siblings", "notify"} <=> mutex = p)
  /\ \A a \in Agent : /\ turn[a].pc \in TurnPcs /\ read[a] \in 0..Len(log)
                      /\ turn[a].batch \subseteq 1..Len(log)

OfMessage(kind, m) == {n \in Of(kind) : log[n].of = m}

\* A call is about to give this message to an item.
InFlight(m) == \E p \in Proc : \E n \in DOMAIN call[p].todo : call[p].todo[n].of = m

\* One delivery of m at a time: each move read where the message was, and began when
\* the Manager there had its copy.
Orderly(m) ==
  LET at == Attributions(m)
      before(n) == {k \in at : k < n}
  IN  \A n \in at :
        IF before(n) = {} THEN log[n].prev = None
        ELSE LET k == MaxOf(before(n)) IN
               /\ log[n].prev = log[k].item
               /\ \E c \in OfMessage("copy", m) : c \in k..n /\ log[c].item = log[k].item

\* The copies that a Manager does not drop.
LiveAt(m) == {log[n].item : n \in {k \in OfMessage("copy", m) : ~MovedAway(log[k].item, k)}}

\* A message that was moved, also back and forth, is for the Manager of the item it was
\* moved to last and for no other (ingress.go:272-274, manager.go:451-455).
MovedOnce ==
  faults = 0 =>
    \A m \in Message :
      Orderly(m) /\ Attributions(m) # {} /\ ~InFlight(m) => LiveAt(m) = {Owner(m)}

\* When the last of the parts of an item settles, its Manager is told so, or the person
\* is told that the chain was too long; unless a cancel, which tells nobody, closed a part
\* after it (ingress.go:389-390, workerpool.go:547-552).
SettledIsHeard ==
  mutex = None /\ faults = 0 =>
    \A p \in Item :
      Children(p) # {} /\ (\A c \in Children(p) : status[c] # "open") =>
        LET about(kind) == {n \in Of(kind) : parent[log[n].item] = p}
            told == {n \in Of("settled") \cup Of("refused") : log[n].item = p}
        IN  about("settles") # {} =>
              \E n \in told \cup about("stops") : n > MaxOf(about("settles"))

\* The notice is given once: between two of them a part settled again (ingress.go:389-390).
HeardOnce ==
  \A n, k \in Of("settled") :
    n < k /\ log[n].item = log[k].item
    => \E l \in Of("settles") : l \in n..k /\ parent[log[l].item] = log[n].item

\* A Manager that closes its item has said its last reply before, so that the parent is
\* told of the result (manager.go:741-743).
ResultBeforeSettled ==
  \A n \in Of("settles"), k \in Of("reply") :
    log[n].re # {} /\ k > n /\ log[k].item = log[n].item => log[k].re # log[n].re

\* A reply written as if its dispatch happened does not reach the person when a budget
\* refused the dispatch (manager.go:738-741).
NoReplyAfterRefusal ==
  \A n \in Of("escalation"), k \in Of("reply") :
    log[n].re # {} /\ log[n].item # None /\ k > n => log[k].re # log[n].re

\* What was changed or cancelled for a message is told once, and not again in the words
\* the model wrote before it happened (primary.go:114-117).
ConfirmedOnce ==
  \A n \in Of("confirm"), k \in Of("confirm") \cup Of("reply") :
    log[k].item = None /\ n # k => log[k].re # log[n].re
=============================================================================
