------------------------------- MODULE Feishu -------------------------------
(***************************************************************************)
(* The Feishu channel: internal/feishu/feishu.go over the bindings of        *)
(* internal/kernel/misc.go.  Messages come in on the long connection, each   *)
(* delivery on a goroutine of its own; answers go out through a consumer of  *)
(* the log.                                                                  *)
(***************************************************************************)
EXTENDS EventLog

CONSTANTS
  Msg,          \* messages people send, each an event of the platform
  Chat, Item,
  ChatOf,       \* ChatOf[m]: its chat
  ThreadOf,     \* ThreadOf[m]: the item whose thread it answers in, or None
  Private,      \* the p2p chats
  Wordless,     \* messages with neither words nor images
  AllowedChats, \* what the allowlist lets through; {} when there is none
  Handler,      \* goroutines of HandleMessage
  MaxParts,     \* bound: messages one answer is split into
  SeenMax,      \* ids remembered before the oldest go (2000)
  SeenDrop,     \* how many then go (1000)
  OutBatch      \* answers read at once (50)

ASSUME FeishuAssumption ==
  /\ SeenMax \in Nat /\ SeenDrop \in 1..SeenMax /\ {OutBatch, MaxParts} \subseteq Nat \ {0}
  /\ ChatOf \in [Msg -> Chat] /\ None \notin Chat

VARIABLES
  ring,      \* ids of the events handled in this life, oldest first: Channel.seen
  hand,      \* hand[h]: the delivery a goroutine is at
  bindings,  \* the channel_bindings rows, oldest first
  out,       \* where the outbox consumer is
  sent,      \* what Feishu was given, in order: of which answer, part (0 opens the thread), to, breaks
  tail,      \* the seq the outbox began after
  cut        \* messages and answers whose handling failures or a crash cut short

feishuVars == <<ring, hand, bindings, out, sent, tail, cut>>

Free == [at |-> "idle"]
Handling(h, at) == up /\ hand[h].at = at
Hands(h, to) == hand' = [hand EXCEPT ![h] = to]
Goes(h, at) == Hands(h, [hand[h] EXCEPT !.at = at])

FindMain == {n \in DOMAIN bindings : bindings[n].kind = "main"}
MainChat == bindings[CHOOSE n \in FindMain : \A k \in FindMain : k <= n].chat
FindByWorkItem(i) == {n \in DOMAIN bindings : bindings[n].kind = "work_item" /\ bindings[n].item = i}
Bound(chat) == \E n \in DOMAIN bindings : bindings[n].kind = "main" /\ bindings[n].chat = chat
FindByThread(i, chat) == {n \in FindByWorkItem(i) : bindings[n].chat = chat}
\* The person sees the item's thread in the chat once its root is posted.
Opened(i, chat) == \E n \in DOMAIN sent : sent[n].part = 0 /\ sent[n].to = chat /\ log[sent[n].of].item = i

-----------------------------------------------------------------------------
(* HandleMessage *)

Remembered == ToSet(ring)
Remembers(m) ==
  ring' = IF Len(ring) < SeenMax THEN Append(ring, m)
          ELSE SubSeq(Append(ring, m), SeenDrop + 1, SeenMax + 1)

\* The platform delivers, and delivers again what it has seen no acknowledgement of: duplicate()
\* lets an id through once per life.  No goroutine lives through a thousand newer messages.
Delivers(h, m) ==
  /\ Handling(h, "idle") /\ m \notin Remembered /\ Spends("deliveries")
  /\ ThreadOf[m] = None \/ Opened(ThreadOf[m], ChatOf[m])
  /\ Remembers(m) /\ \A g \in Handler : hand[g].at # "idle" => hand[g].msg \in ToSet(ring')
  /\ Hands(h, [at |-> "look", msg |-> m])
  /\ UNCHANGED <<log, cursor, up, breaks, bindings, out, sent, tail, cut>>

\* Mutant: only the ids of this life count.
LooksAway(h) ==
  /\ Handling(h, "look") /\ Goes(h, "judge")
  /\ UNCHANGED <<shared, ring, bindings, out, sent, tail, cut>>
\* The durable half of the gate: was it recorded in an earlier life?
Looks(h) ==
  /\ Handling(h, "look")
  /\ \/ Has("feishu", hand[h].msg) /\ Hands(h, Free) /\ UNCHANGED left
     \/ ~Has("feishu", hand[h].msg) /\ Goes(h, "judge") /\ UNCHANGED left
     \/ Fault /\ Hands(h, Free)
  /\ UNCHANGED <<log, cursor, up, breaks, ring, bindings, out, sent, tail, cut>>

Allowed(m) ==
  IF AllowedChats # {} THEN ChatOf[m] \in AllowedChats
  ELSE IF FindMain # {} THEN ChatOf[m] = MainChat ELSE ChatOf[m] \in Private

\* Who may drive the agents is read before the images are fetched.
Judges(h) ==
  /\ Handling(h, "judge")
  /\ Hands(h, [at |-> "record", msg |-> hand[h].msg, ok |-> Allowed(hand[h].msg)])
  /\ UNCHANGED <<shared, ring, bindings, out, sent, tail, cut>>

\* Everything is recorded first; without words that is all.
Records(h) ==
  /\ Handling(h, "record")
  /\ \/ /\ Record([kind |-> "feishu", of |-> hand[h].msg]) /\ UNCHANGED left
        /\ IF hand[h].msg \in Wordless THEN Hands(h, Free) ELSE Goes(h, "act")
     \/ Fault /\ Hands(h, Free) /\ UNCHANGED log
  /\ UNCHANGED <<cursor, up, breaks, ring, bindings, out, sent, tail, cut>>

\* One who may not is recorded as ignored; a private chat becomes the main thread's.
Acts(h) ==
  /\ Handling(h, "act")
  /\ IF ~hand[h].ok
     THEN Record([kind |-> "ignored", of |-> hand[h].msg]) /\ Hands(h, Free)
     ELSE /\ UNCHANGED log
          /\ Goes(h, IF ChatOf[hand[h].msg] \in Private /\ ~Bound(ChatOf[hand[h].msg]) THEN "bind" ELSE "submit")
  /\ UNCHANGED <<cursor, up, breaks, left, ring, bindings, out, sent, tail, cut>>

Main(chat) == [kind |-> "main", chat |-> chat]
Binds(h) ==
  /\ Handling(h, "bind")
  /\ \/ /\ bindings' = Append(bindings, Main(ChatOf[hand[h].msg])) /\ Goes(h, "submit")
        /\ UNCHANGED <<left, cut>>
     \/ Fault /\ Hands(h, Free) /\ cut' = cut \cup {hand[h].msg} /\ UNCHANGED bindings
  /\ UNCHANGED <<log, cursor, up, breaks, ring, out, sent, tail>>

\* The item whose bound thread it came in; elsewhere it is for Primary.
Target(m) == IF FindByThread(ThreadOf[m], ChatOf[m]) # {} THEN ThreadOf[m] ELSE None
\* SubmitMessage
Submits(h) ==
  /\ Handling(h, "submit") /\ Hands(h, Free)
  /\ \/ /\ Record([kind |-> "user", of |-> hand[h].msg, item |-> Target(hand[h].msg)])
        /\ UNCHANGED <<left, cut>>
     \/ Fault /\ cut' = cut \cup {hand[h].msg} /\ UNCHANGED log
  /\ UNCHANGED <<cursor, up, breaks, ring, bindings, out, sent, tail>>

-----------------------------------------------------------------------------
(* OutboxOnce *)

Outbox(at) == up /\ out.at = at
Out(at) == out' = [out EXCEPT !.at = at]
Answer == log[Head(out.batch)]
Root == log[Answer.of]
\* Where the conversation began: its chat, the main chat for a schedule's, or nowhere.
Origin == IF Root.kind = "user" THEN ChatOf[Root.of]
          ELSE IF Root.kind = "prompt" /\ FindMain # {} THEN MainChat ELSE None

Sends(part, to) == sent' = Append(sent, [of |-> Head(out.batch), part |-> part, to |-> to, breaks |-> breaks])

\* A fresh install starts at the tail.
OutboxStarts ==
  /\ Outbox("idle") /\ cursor.outbox = None
  /\ out' = [at |-> "tail", last |-> Len(log)]
  /\ UNCHANGED <<shared, ring, hand, bindings, sent, tail, cut>>
OutboxTail ==
  /\ Outbox("tail") /\ CommitCursor("outbox", out.last) /\ tail' = out.last /\ out' = Free
  /\ UNCHANGED <<log, up, breaks, left, ring, hand, bindings, sent, cut>>

\* What OutboundText has words for.
Outbound == Kind("reply")
OutboxReads ==
  /\ Outbox("idle") /\ cursor.outbox # None
  /\ LET answers == {n \in Outbound : n > cursor.outbox}
     IN /\ answers # {}
        /\ out' = [at |-> "route", batch |-> Ordered({n \in answers : Cardinality({k \in answers : k <= n}) <= OutBatch}),
                    part |-> 1, to |-> None]
  /\ UNCHANGED <<shared, ring, hand, bindings, sent, tail, cut>>

\* deliver: into the item's thread, opened on first use, or to the chat.
OutboxRoutes ==
  /\ Outbox("route")
  /\ IF Origin = None THEN Out("commit")
     ELSE IF Root.kind = "prompt" \/ Answer.item = None THEN out' = [out EXCEPT !.at = "send", !.to = Origin]
     ELSE IF FindByWorkItem(Answer.item) # {} THEN out' = [out EXCEPT !.at = "send", !.to = Answer.item]
     ELSE Out("open")
  /\ UNCHANGED <<shared, ring, hand, bindings, sent, tail, cut>>

\* workItemRoot: the thread's root is posted, then bound.
OutboxOpens ==
  /\ Outbox("open")
  /\ \/ Out("bind") /\ Sends(0, Origin) /\ UNCHANGED left
     \/ Fault /\ Out("fail") /\ UNCHANGED sent
  /\ UNCHANGED <<log, cursor, up, breaks, ring, hand, bindings, tail, cut>>
OutboxBinds ==
  /\ Outbox("bind")
  /\ \/ /\ bindings' = Append(bindings, [kind |-> "work_item", item |-> Answer.item, chat |-> Origin])
        /\ out' = [out EXCEPT !.at = "send", !.to = Answer.item] /\ UNCHANGED left
     \/ Fault /\ Out("fail") /\ UNCHANGED bindings
  /\ UNCHANGED <<log, cursor, up, breaks, ring, hand, sent, tail, cut>>

\* One message per part; the first that fails ends it.
OutboxSends ==
  /\ Outbox("send")
  /\ \/ /\ Sends(out.part, out.to)
        /\ out' = IF out.part = Answer.parts THEN [out EXCEPT !.at = "commit"] ELSE [out EXCEPT !.part = @ + 1]
        /\ UNCHANGED left
     \/ Fault /\ Out("fail") /\ UNCHANGED sent
  /\ UNCHANGED <<log, cursor, up, breaks, ring, hand, bindings, tail, cut>>

\* A failure is recorded, if it can be, and the answer skipped.
OutboxFails ==
  /\ Outbox("fail") /\ Out("commit")
  /\ \/ Record([kind |-> "error", of |-> Head(out.batch)]) /\ UNCHANGED <<left, cut>>
     \/ Fault /\ cut' = cut \cup {Head(out.batch)} /\ UNCHANGED log
  /\ UNCHANGED <<cursor, up, breaks, ring, hand, bindings, sent, tail>>

\* Mutant: the whole batch is committed with its first answer.
OutboxCommitsBatch ==
  /\ Outbox("commit")
  /\ CommitCursor("outbox", Last(out.batch))
  /\ out' = IF Len(out.batch) = 1 THEN Free
            ELSE [at |-> "route", batch |-> Tail(out.batch), part |-> 1, to |-> None]
  /\ UNCHANGED <<log, up, breaks, left, ring, hand, bindings, sent, tail, cut>>
OutboxCommits ==
  /\ Outbox("commit")
  /\ \/ /\ CommitCursor("outbox", Head(out.batch)) /\ UNCHANGED <<left, breaks>>
        /\ out' = IF Len(out.batch) = 1 THEN Free
                  ELSE [at |-> "route", batch |-> Tail(out.batch), part |-> 1, to |-> None]
     \/ Fault /\ breaks' = breaks + 1 /\ out' = Free /\ UNCHANGED cursor
  /\ UNCHANGED <<log, up, ring, hand, bindings, sent, tail, cut>>

-----------------------------------------------------------------------------
FeishuInit(outbox) ==
  /\ ring = <<>> /\ hand = [h \in Handler |-> Free] /\ bindings = <<>> /\ out = Free /\ sent = <<>>
  /\ tail = IF outbox = None THEN 0 ELSE outbox
  /\ cut = {}

\* What a crash takes: the ids, and the deliveries under way.
FeishuForgets ==
  /\ ring' = <<>> /\ hand' = [h \in Handler |-> Free] /\ out' = Free
  /\ cut' = cut \cup {hand[h].msg : h \in {g \in Handler : hand[g].at \in {"act", "bind", "submit"}}}
  /\ UNCHANGED <<bindings, sent, tail>>

FeishuNext ==
  \/ \E h \in Handler : \/ \E m \in Msg : Delivers(h, m)
                        \/ Looks(h) \/ Judges(h) \/ Records(h) \/ Acts(h) \/ Binds(h) \/ Submits(h)
  \/ OutboxStarts \/ OutboxTail \/ OutboxReads \/ OutboxRoutes \/ OutboxOpens \/ OutboxBinds
  \/ OutboxSends \/ OutboxFails \/ OutboxCommits
=============================================================================
