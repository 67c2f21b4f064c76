----------------------------- MODULE MCConsumers -----------------------------
(* An instance of Consumers for TLC. *)
EXTENDS Consumers

CONSTANTS s1, s2, m1, m2, m3, m4, oc, group, wi, h1, h2, c1, c2, ticker, e1, e2, distiller, tea
MCSched == {s1, s2}
MCCallers == {c1, c2}
Def(action, every) == [action |-> action, cron |-> every = 0, every |-> every, enabled |-> TRUE]
MCDefinitions == {Def("wake", 2), Def("prompt", 0), [Def("http", 2) EXCEPT !.enabled = FALSE]}
\* Off, on, from cron to an interval in one patch, and a patch that leaves both.
MCPatches == {[enabled |-> FALSE], [enabled |-> TRUE], [cron |-> FALSE, every |-> 1], [cron |-> TRUE]}

MCMsgs == {m1, m2, m3, m4}
MCChats == {oc, group}
MCPrivate == {oc}
MCChatOf == (m1 :> oc) @@ (m2 :> oc) @@ (m3 :> group) @@ (m4 :> oc)
MCThreadOf == (m1 :> None) @@ (m2 :> wi) @@ (m3 :> None) @@ (m4 :> None)
MCWordless == {m4}
MCHandlers == {h1, h2}

Nothing == [time |-> 0, calls |-> 0, deliveries |-> 0, passes |-> 0, captures |-> 0, answers |-> 0,
            crashes |-> 0, faults |-> 0, distills |-> 0, edits |-> 0, hides |-> 0]
Scene(start, spends) == [start |-> start, log |-> <<>>, outbox |-> 0, left |-> spends @@ Nothing]
\* The log as the distiller finds it.
Past(events, spends) == [Scene(<<>>, spends) EXCEPT !.log = events, !.outbox = Len(events)]
Said(m) == <<[kind |-> "feishu", of |-> m], [kind |-> "user", of |-> m, item |-> None]>>
Replied(n) == <<[kind |-> "reply", of |-> n, item |-> None, parts |-> 1]>>
Beat == <<[kind |-> "heartbeat", of |-> None]>>
Idea(layer, sure) == [what |-> tea, layer |-> layer, sure |-> sure]
MCLayers == {"global", wi}
MCIdeas == {<<>>, <<Idea("global", TRUE), Idea(wi, FALSE)>>, <<Idea(wi, TRUE), Idea(wi, TRUE)>>}
MCEditors == {e1, e2}
MCScenes == {
  \* a schedule or two, changed, run by hand, missed
  Scene(s1 :> Def("wake", 1), [time |-> 3, calls |-> 2, crashes |-> 1]),
  Scene(s1 :> Def("wake", 1), [time |-> 3, calls |-> 1, crashes |-> 1, faults |-> 1]),
  Scene((s1 :> Def("wake", 2)) @@ (s2 :> Def("prompt", 0)), [time |-> 3, calls |-> 1, crashes |-> 1]),
  \* messages delivered and delivered again
  Scene(<<>>, [deliveries |-> 4, crashes |-> 1, faults |-> 1]),
  \* answers: of a fresh install, in a thread, to a schedule
  [Scene(<<>>, [deliveries |-> 1, answers |-> 2, crashes |-> 1, faults |-> 2]) EXCEPT !.outbox = None],
  Scene(<<>>, [deliveries |-> 2, answers |-> 1, crashes |-> 1, faults |-> 1]),
  Scene(s1 :> Def("prompt", 0), [time |-> 2, deliveries |-> 1, answers |-> 1, crashes |-> 1]),
  \* triage of everything that is triaged
  Scene(<<>>, [captures |-> 2, passes |-> 3, crashes |-> 1, faults |-> 1]),
  Scene(<<>>, [captures |-> 1, deliveries |-> 1, passes |-> 3, crashes |-> 1]),
  Scene(s1 :> Def("wake", 1), [time |-> 1, captures |-> 1, passes |-> 3, crashes |-> 1, faults |-> 1]),
  \* enough in two pages, then too little; at the cap; hidden; added and forgotten by hand
  Past(Said(m1) \o Replied(2) \o Said(m3), [distills |-> 3, hides |-> 1, crashes |-> 1, faults |-> 1]),
  Past(Said(m1) \o Beat \o Beat \o Replied(2), [distills |-> 3, hides |-> 1, crashes |-> 1]),
  Past(Said(m1) \o Replied(2), [distills |-> 2, edits |-> 2, crashes |-> 1])}
MCSymmetry == Permutations(MCCallers) \cup Permutations(MCHandlers) \cup Permutations(MCEditors)
=============================================================================
