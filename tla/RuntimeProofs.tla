--------------------------- MODULE RuntimeProofs ---------------------------
(***************************************************************************)
(* Proofs about Runtime, for every set of mailboxes and every bound: its     *)
(* types, and the safety of the turns and of the cursors (the turns respect  *)
(* the mailboxes and the limit, no message is skipped, no cursor moves back). *)
(***************************************************************************)
EXTENDS RuntimeProperties, FiniteSetTheorems, FunctionTheorems, SequenceTheorems,
        WellFoundedInduction, TLAPS

\* A nonempty set of naturals has a least element (mailbox.go: min(e.seq)).
LEMMA OldestExists ==
  ASSUME NEW S \in SUBSET Nat, S # {}
  PROVE  Oldest(S) \in S /\ \A t \in S : Oldest(S) <= t
<1>1. PICK x \in S : \A y \in S : ~ (<<y, x>> \in OpToRel(<, Nat))
  BY NatLessThanWellFounded, WFMin
<1>2. OpToRel(<, Nat) = {p \in Nat \X Nat : p[1] < p[2]}
  BY DEF OpToRel
<1>3. \A y \in S : x <= y
  <2> TAKE y \in S
  <2>1. <<y, x>> \notin {p \in Nat \X Nat : p[1] < p[2]}
    BY <1>1, <1>2
  <2> QED
    BY <2>1
<1>4. QED
  BY <1>3 DEF Oldest

\* A nonempty set of naturals with a bound has a greatest element (runTurn: last).
LEMMA NewestExists ==
  ASSUME NEW n \in Nat, NEW S \in SUBSET (0 .. n), S # {}
  PROVE  Newest(S) \in S /\ \A t \in S : t <= Newest(S)
<1> DEFINE M == {n - s : s \in S}
<1>1. M \in SUBSET Nat /\ M # {}
  <2>1. \A s \in S : s \in Nat /\ s <= n
    OBVIOUS
  <2>2. PICK s \in S : TRUE
    OBVIOUS
  <2>3. n - s \in M
    OBVIOUS
  <2> QED
    BY <2>1, <2>3
<1>2. Oldest(M) \in M /\ \A t \in M : Oldest(M) <= t
  BY <1>1, OldestExists
<1>3. PICK x \in S : Oldest(M) = n - x
  BY <1>2
<1>4. \A t \in S : t <= x
  <2> TAKE t \in S
  <2>1. n - t \in M
    OBVIOUS
  <2>2. Oldest(M) <= n - t
    BY <1>2, <2>1
  <2>3. x \in Nat /\ t \in Nat
    OBVIOUS
  <2> QED
    BY <2>2, <2>3, <1>3
<1>5. QED
  BY <1>4 DEF Newest

-----------------------------------------------------------------------------
(* Type correctness *)

USE DEF TypeOK

\* Committing one event extends the log by it (events.go: appendTx).
LEMMA AppendExtends ==
  ASSUME TypeOK, NEW e \in Event, Append1(e)
  PROVE  /\ log' \in Seq(Event) /\ given' \in Seq(Nat) /\ Len(given') = Len(log')
         /\ Len(log') = Len(log) + 1 /\ Seqs' = Seqs \cup {Len(log) + 1}
         /\ \A s \in Seqs : log'[s] = log[s] /\ given'[s] = given[s]
         /\ log'[Len(log) + 1] = e /\ given'[Len(log) + 1] = 0
         /\ unpublished' \in Nat /\ unpublished' > 0
<1>1. log \in Seq(Event) /\ given \in Seq(Nat) /\ Len(given) = Len(log)
      /\ unpublished \in Nat /\ Len(log) \in Nat
  BY DEF DbTypeOK, ProcessTypeOK
<1>2. /\ log' = Append(log, e) /\ given' = Append(given, 0)
      /\ unpublished' = unpublished + 1
  BY DEF Append1
<1>3. /\ log' \in Seq(Event) /\ Len(log') = Len(log) + 1
      /\ \A s \in 1 .. Len(log) : log'[s] = log[s]
      /\ log'[Len(log) + 1] = e
  BY <1>1, <1>2, AppendProperties
<1>4. /\ given' \in Seq(Nat) /\ Len(given') = Len(given) + 1
      /\ \A s \in 1 .. Len(given) : given'[s] = given[s]
      /\ given'[Len(given) + 1] = 0
  BY <1>1, <1>2, AppendProperties
<1>5. QED
  BY <1>1, <1>2, <1>3, <1>4 DEF Seqs

\* A Post extends the log by one event and at most seeds one cursor, below the
\* first message of that mailbox (mailbox.go: Post).
LEMMA PostEffect ==
  ASSUME TypeOK, NEW kind \in {"message", "outcome"}, NEW m \in Mailbox,
         NEW lane \in Lanes, NEW c \in Seqs \cup {0}, NEW always \in BOOLEAN,
         Post(kind, m, lane, c, always)
  PROVE  /\ log' \in Seq(Event) /\ given' \in Seq(Nat) /\ Len(given') = Len(log')
         /\ Len(log') = Len(log) + 1 /\ Seqs' = Seqs \cup {Len(log) + 1}
         /\ \A s \in Seqs : log'[s] = log[s] /\ given'[s] = given[s]
         /\ given'[Len(log) + 1] = 0
         /\ unpublished' \in Nat /\ unpublished' > 0
         /\ cursor' \in [Mailbox -> Nat \cup {NoCursor}]
         /\ \A n \in Mailbox : cursor[n] # NoCursor => cursor'[n] = cursor[n]
         /\ \/ /\ log'[Len(log) + 1].mb = None
               /\ log'[Len(log) + 1].kind = "escalation"
               /\ cursor' = cursor
            \/ /\ log'[Len(log) + 1].mb = m
               /\ log'[Len(log) + 1].kind = kind
               /\ log'[Len(log) + 1].hop = HopAfter(c)
               /\ always \/ c = 0 \/ ~OverBudget(log[c].hop)
               /\ cursor'[m] # NoCursor
               /\ \A n \in Mailbox \ {m} : cursor'[n] = cursor[n]
               /\ cursor[m] = NoCursor =>
                    \A s \in Mail(m) \cup {Len(log) + 1} : cursor'[m] < s
<1>1. HopAfter(c) \in Nat
  <2>1. c # 0 => log[c] \in Event
    BY LenProperties DEF DbTypeOK, Seqs
  <2> QED
    BY <2>1 DEF HopAfter, Event
<1>2. CASE ~always /\ c # 0 /\ OverBudget(log[c].hop)
  <2> DEFINE e == [kind |-> "escalation", mb |-> None, lane |-> "normal",
                   hop |-> HopAfter(c)]
  <2>1. e \in Event
    BY <1>1, RuntimeAssumption DEF Event, Kinds
  <2>2. Append1(e) /\ cursor' = cursor
    BY <1>2 DEF Post, BudgetEscalation
  <2>3. cursor' \in [Mailbox -> Nat \cup {NoCursor}]
    BY <2>2 DEF DbTypeOK, ProcessTypeOK
  <2> QED
    BY <2>1, <2>2, <2>3, AppendExtends
<1>3. CASE ~(~always /\ c # 0 /\ OverBudget(log[c].hop))
  <2> DEFINE e == [kind |-> kind, mb |-> m, lane |-> lane, hop |-> HopAfter(c)]
             S == Mail(m) \cup {Len(log) + 1}
  <2>1. e \in Event
    BY <1>1, RuntimeAssumption DEF Event, Kinds
  <2>2. /\ Append1(e)
        /\ cursor' = [cursor EXCEPT ![m] = IF @ = NoCursor THEN Oldest(S) - 1 ELSE @]
    BY <1>3 DEF Post, Deliver
  <2>3. S \subseteq Nat \ {0} /\ S # {}
    BY DEF Mail, Seqs, DbTypeOK
  <2>4. Oldest(S) \in S /\ \A s \in S : Oldest(S) <= s
    <3> HIDE DEF S
    <3> QED
      BY <2>3, OldestExists
  <2>5. Oldest(S) - 1 \in Nat /\ \A s \in S : Oldest(S) - 1 < s
    <3> HIDE DEF S
    <3>1. Oldest(S) \in Nat \ {0} /\ \A s \in S : s \in Nat
      BY <2>3, <2>4
    <3> QED
      BY <2>4, <3>1
  <2>6. /\ cursor' \in [Mailbox -> Nat \cup {NoCursor}]
        /\ \A n \in Mailbox : cursor[n] # NoCursor => cursor'[n] = cursor[n]
        /\ \A n \in Mailbox \ {m} : cursor'[n] = cursor[n]
        /\ cursor'[m] # NoCursor
        /\ cursor[m] = NoCursor => \A s \in S : cursor'[m] < s
    <3> HIDE DEF S
    <3> QED
      BY <2>2, <2>5 DEF DbTypeOK, NoCursor
  <2>7. /\ log'[Len(log) + 1].mb = m /\ log'[Len(log) + 1].kind = kind
        /\ log'[Len(log) + 1].hop = HopAfter(c)
    BY <2>1, <2>2, AppendExtends
  <2>8. always \/ c = 0 \/ ~OverBudget(log[c].hop)
    BY <1>3
  <2> HIDE DEF e
  <2> QED
    BY <2>1, <2>2, <2>6, <2>7, <2>8, AppendExtends
<1>4. QED
  BY <1>2, <1>3

\* The posts from outside and from turns are Posts of a known cause.
LEMMA PostCases ==
  ASSUME TypeOK
  PROVE  /\ \A m \in Mailbox, lane \in Lanes : OutsidePost(m, lane) =>
              Post("message", m, lane, 0, FALSE)
         /\ \A o \in owed : OutcomePost(o) =>
              /\ o[1] \in Seqs /\ o[2] \in Mailbox /\ "normal" \in Lanes
              /\ Post("outcome", o[2], "normal", o[1], TRUE)
         /\ \A g \in Gor, m \in Mailbox, lane \in Lanes : \A c \in run[g].batch :
              TurnPost(g, m, lane, c) =>
                c \in Seqs /\ Post("message", m, lane, c, FALSE)
<1>1. "normal" \in Lanes
  BY RuntimeAssumption
<1>2. \A g \in Gor : run[g].batch \subseteq Seqs
  BY DEF RunTypeOK
<1>3. QED
  BY <1>1, <1>2 DEF OutsidePost, OutcomePost, TurnPost, DbTypeOK

\* What a dispatch or a failed turn appends is an event.
LEMMA OtherAppends ==
  ASSUME TypeOK, NEW g \in Gor
  PROVE  /\ \A c \in run[g].batch : TurnDispatch(g, c) =>
              \E e \in Event : /\ Append1(e) /\ e.mb = None
                               /\ \/ e.kind = "escalation" /\ UNCHANGED owed
                                  \/ /\ e.kind = "started" /\ e.hop <= MaxHops
                                     /\ owed' = owed \cup {<<Len(log) + 1, run[g].mb>>}
         /\ TurnError(g) => \E e \in Event : Append1(e) /\ e.mb = None /\ e.kind = "error"
<1>1. ASSUME NEW c \in run[g].batch, TurnDispatch(g, c)
      PROVE  \E e \in Event : /\ Append1(e) /\ e.mb = None
                              /\ \/ e.kind = "escalation" /\ UNCHANGED owed
                                 \/ /\ e.kind = "started" /\ e.hop <= MaxHops
                                    /\ owed' = owed \cup {<<Len(log) + 1, run[g].mb>>}
  <2>1. c \in Seqs /\ c # 0
    BY DEF RunTypeOK, Seqs
  <2>2. log[c] \in Event
    BY <2>1, LenProperties DEF DbTypeOK, Seqs
  <2>3. HopAfter(c) \in Nat /\ HopAfter(c) = log[c].hop + 1
    BY <2>1, <2>2 DEF HopAfter, Event
  <2> DEFINE esc == [kind |-> "escalation", mb |-> None, lane |-> "normal",
                     hop |-> HopAfter(c)]
             sta == [kind |-> "started", mb |-> None, lane |-> "normal",
                     hop |-> HopAfter(c)]
  <2>4. esc \in Event /\ sta \in Event
    BY <2>3, RuntimeAssumption DEF Event, Kinds
  <2>5. CASE OverBudget(log[c].hop)
    <3>1. Append1(esc) /\ UNCHANGED owed
      BY <1>1, <2>5 DEF TurnDispatch, BudgetEscalation
    <3> QED
      BY <2>4, <3>1
  <2>6. CASE ~OverBudget(log[c].hop)
    <3>1. Append1(sta) /\ owed' = owed \cup {<<Len(log) + 1, run[g].mb>>}
      BY <1>1, <2>6 DEF TurnDispatch
    <3>2. sta.hop <= MaxHops
      BY <2>3, <2>6, RuntimeAssumption DEF OverBudget
    <3> QED
      BY <2>4, <3>1, <3>2
  <2> QED
    BY <2>5, <2>6
<1>2. ASSUME TurnError(g)
      PROVE  \E e \in Event : Append1(e) /\ e.mb = None /\ e.kind = "error"
  <2> DEFINE e == [kind |-> "error", mb |-> None, lane |-> "normal", hop |-> 0]
  <2>1. e \in Event /\ Append1(e)
    BY <1>2, RuntimeAssumption DEF TurnError, Event, Kinds
  <2> QED
    BY <2>1
<1>3. QED
  BY <1>1, <1>2

\* Which steps write the database.
LEMMA DbFrame ==
  ASSUME [Next]_vars
  PROVE  \/ UNCHANGED <<dbVars, given>>
         \/ \E m \in Mailbox, lane \in Lanes : OutsidePost(m, lane)
         \/ \E o \in owed : OutcomePost(o)
         \/ \E g \in Gor :
              \/ \E c \in run[g].batch :
                   \/ \E m \in Mailbox, lane \in Lanes : TurnPost(g, m, lane, c)
                   \/ TurnDispatch(g, c)
              \/ \E failed \in BOOLEAN : TurnReturn(g, failed)
              \/ TurnError(g) \/ TurnCommit(g)
<1> USE DEF histVars
<1>1. CASE UNCHANGED vars
  BY <1>1 DEF vars
<1>2. CASE Publish \/ Scheduling
  BY <1>2 DEF Publish, Scheduling, LoopKick, LoopWake, LoopTicker, LoopStop, PassBegin,
              PassQuery, PassQueryFails, PassSchedule, PassCheck, KickAfterTurn, TaskDone
<1>3. CASE Life
  BY <1>3 DEF Life, Start, Stop, Cancel, Exit, Crash
<1>4. CASE Environment
  BY <1>4 DEF Environment
<1>5. CASE \E g \in Gor : Turn(g)
  BY <1>5 DEF Turn, TurnRead, TurnReadFails, TurnCommitFails, TurnExit
<1>6. QED
  BY <1>1, <1>2, <1>3, <1>4, <1>5 DEF Next

\* Every step keeps the types of the database.
LEMMA DbTypeStep ==
  ASSUME TypeOK, [Next]_vars
  PROVE  DbTypeOK' /\ Seqs \subseteq Seqs'
<1>1. CASE UNCHANGED <<dbVars, given>>
  BY <1>1 DEF DbTypeOK, dbVars, Seqs
<1>2. ASSUME NEW m \in Mailbox, NEW lane \in Lanes, OutsidePost(m, lane)
      PROVE  DbTypeOK' /\ Seqs \subseteq Seqs'
  <2>1. UNCHANGED owed
    BY <1>2 DEF OutsidePost
  <2> QED
    BY <1>2, <2>1, PostCases, PostEffect DEF DbTypeOK
<1>3. ASSUME NEW o \in owed, OutcomePost(o)
      PROVE  DbTypeOK' /\ Seqs \subseteq Seqs'
  <2>1. owed' \subseteq owed
    BY <1>3 DEF OutcomePost
  <2>2. /\ o[1] \in Seqs /\ o[2] \in Mailbox /\ "normal" \in Lanes
        /\ Post("outcome", o[2], "normal", o[1], TRUE)
    BY <1>3, PostCases
  <2>3. /\ log' \in Seq(Event) /\ given' \in Seq(Nat) /\ Len(given') = Len(log')
        /\ Seqs \subseteq Seqs' /\ cursor' \in [Mailbox -> Nat \cup {NoCursor}]
    BY <2>2, PostEffect
  <2> QED
    BY <2>1, <2>3 DEF DbTypeOK
<1>4. ASSUME NEW g \in Gor, NEW m \in Mailbox, NEW lane \in Lanes,
             NEW c \in run[g].batch, TurnPost(g, m, lane, c)
      PROVE  DbTypeOK' /\ Seqs \subseteq Seqs'
  <2>1. UNCHANGED owed
    BY <1>4 DEF TurnPost
  <2> QED
    BY <1>4, <2>1, PostCases, PostEffect DEF DbTypeOK
<1>5. ASSUME NEW g \in Gor, NEW c \in run[g].batch, TurnDispatch(g, c)
      PROVE  DbTypeOK' /\ Seqs \subseteq Seqs'
  <2>1. PICK e \in Event : Append1(e)
    BY <1>5, OtherAppends
  <2>2. cursor' = cursor /\ owed' \subseteq owed \cup {<<Len(log) + 1, run[g].mb>>}
    BY <1>5 DEF TurnDispatch, BudgetEscalation
  <2>3. run[g].mb \in Mailbox
    BY <1>5 DEF TurnDispatch, CanAct, TurnAt, RunTypeOK
  <2> QED
    BY <2>1, <2>2, <2>3, AppendExtends DEF DbTypeOK
<1>6. ASSUME NEW g \in Gor, TurnError(g)
      PROVE  DbTypeOK' /\ Seqs \subseteq Seqs'
  <2>1. PICK e \in Event : Append1(e)
    BY <1>6, OtherAppends
  <2>2. UNCHANGED <<cursor, owed>>
    BY <1>6 DEF TurnError
  <2> QED
    BY <2>1, <2>2, AppendExtends DEF DbTypeOK
<1>7. ASSUME NEW g \in Gor, NEW failed \in BOOLEAN, TurnReturn(g, failed)
      PROVE  DbTypeOK' /\ Seqs \subseteq Seqs'
  <2>1. given \in Seq(Nat) /\ given \in [1 .. Len(given) -> Nat] /\ Len(given) \in Nat
    BY LenProperties DEF DbTypeOK
  <2>2. given' \in [1 .. Len(given) -> Nat]
    BY <1>7, <2>1 DEF TurnReturn
  <2>3. given' \in Seq(Nat) /\ Len(given') = Len(given)
    BY <2>1, <2>2
  <2>4. UNCHANGED dbVars
    BY <1>7 DEF TurnReturn
  <2> QED
    BY <2>3, <2>4 DEF DbTypeOK, dbVars, Seqs
<1>8. ASSUME NEW g \in Gor, TurnCommit(g)
      PROVE  DbTypeOK' /\ Seqs \subseteq Seqs'
  <2>1. Newest(run[g].batch) \in Nat
    <3>1. run[g].batch \in SUBSET (0 .. Len(log)) /\ run[g].batch # {} /\ Len(log) \in Nat
      <4>1. log \in Seq(Event) /\ Len(log) \in Nat
        BY LenProperties DEF DbTypeOK
      <4> QED
        BY <1>8, <4>1 DEF RunTypeOK, Seqs, TurnCommit, TurnAt
    <3>2. \A n \in Nat : \A S \in SUBSET (0 .. n) : S # {} => Newest(S) \in S
      BY NewestExists
    <3> QED
      BY <3>1, <3>2
  <2>2. /\ cursor' = [cursor EXCEPT ![run[g].mb] = Newest(run[g].batch)]
        /\ UNCHANGED <<log, owed, given>>
    BY <1>8 DEF TurnCommit, histVars
  <2>3. cursor' \in [Mailbox -> Nat \cup {NoCursor}]
    BY <2>1, <2>2 DEF DbTypeOK
  <2> QED
    BY <2>2, <2>3 DEF DbTypeOK, Seqs
<1>9. QED
  BY <1>1, <1>2, <1>3, <1>4, <1>5, <1>6, <1>7, <1>8, DbFrame

\* Every append owes the Hub one publication.
LEMMA PostPublishes ==
  ASSUME NEW kind, NEW m, NEW lane, NEW c, NEW always, Post(kind, m, lane, c, always)
  PROVE  unpublished' = unpublished + 1
BY DEF Post, BudgetEscalation, Deliver, Append1

\* Every step keeps the types of the process and its channels.
LEMMA ProcessTypeStep ==
  ASSUME TypeOK, [Next]_vars
  PROVE  ProcessTypeOK'
<1> USE DEF ProcessTypeOK, histVars, procVars, hubVars
<1>0. WakeCap \in Nat \ {0}
  BY RuntimeAssumption
<1>1. CASE UNCHANGED vars
  BY <1>1 DEF vars
<1>2. CASE Publish
  BY <1>0, <1>2 DEF Publish
<1>3. CASE Scheduling
  <2>1. CASE LoopKick \/ LoopTicker
    BY <2>1 DEF LoopKick, LoopTicker
  <2>2. CASE LoopWake \/ LoopStop
    BY <2>2, <1>0 DEF LoopWake, LoopStop
  <2>3. CASE PassBegin
    BY <2>3 DEF PassBegin
  <2>4. CASE PassQuery \/ PassCheck
    BY <2>4 DEF PassQuery, PassCheck
  <2>5. CASE PassQueryFails
    BY <2>5 DEF PassQueryFails
  <2>6. CASE KickAfterTurn
    BY <2>6 DEF KickAfterTurn
  <2>7. CASE PassSchedule
    <3>1. tasks' \subseteq Tasks
      BY <2>7 DEF PassSchedule, IdleStarts
    <3>2. UNCHANGED <<procVars, loop, hubVars, kicks, histVars>>
      BY <2>7 DEF PassSchedule
    <3> QED
      BY <3>1, <3>2
  <2>8. CASE \E t \in tasks : TaskDone(t)
    BY <2>8 DEF TaskDone
  <2> QED
    BY <1>3, <2>1, <2>2, <2>3, <2>4, <2>5, <2>6, <2>7, <2>8 DEF Scheduling
<1>4. CASE Life
  <2>0. FreshMemory => /\ cancelled' = FALSE /\ wake' = 0 /\ unpublished' = 0
                       /\ kicks' = 0 /\ tasks' = {}
    BY DEF FreshMemory
  <2>a. ASSUME FreshMemory, up' \in BOOLEAN, stopped' \in BOOLEAN,
               loop' \in {"off", "kick"}, stops' \in Nat, faults' \in Nat
        PROVE  ProcessTypeOK'
    <3>1. cancelled' \in BOOLEAN /\ tasks' \subseteq Tasks
      BY <2>a, <2>0
    <3>2. wake' \in 0 .. WakeCap /\ unpublished' \in Nat /\ kicks' \in Nat
      BY <2>a, <2>0, <1>0
    <3> QED
      BY <2>a, <3>1, <3>2
  <2>b. stops \in Nat /\ faults \in Nat
    OBVIOUS
  <2>1. CASE Start
    BY <2>1, <2>a, <2>b DEF Start
  <2>2. CASE Exit
    BY <2>2, <2>a, <2>b DEF Exit, Down
  <2>3. CASE Crash
    <3>1. Down /\ stops' = stops + 1 /\ UNCHANGED faults
      BY <2>3 DEF Crash
    <3>2. stops' \in Nat /\ faults' \in Nat
      BY <3>1, <2>b
    <3> QED
      BY <3>1, <3>2, <2>a DEF Down
  <2>4. CASE Stop
    BY <2>4 DEF Stop
  <2>5. CASE Cancel
    BY <2>5 DEF Cancel
  <2> QED
    BY <1>4, <2>1, <2>2, <2>3, <2>4, <2>5 DEF Life
<1>5. CASE Environment
  <2>1. unpublished' = unpublished + 1
    BY <1>5, PostPublishes DEF Environment, OutsidePost, OutcomePost
  <2>2. UNCHANGED <<procVars, loop, wake, kicks, tasks, stops, faults>>
    BY <1>5 DEF Environment, OutsidePost, OutcomePost
  <2> QED
    BY <2>1, <2>2
<1>6. ASSUME NEW g \in Gor, Turn(g)
      PROVE  ProcessTypeOK'
  <2>1. ASSUME NEW c \in run[g].batch, NEW m \in Mailbox, NEW lane \in Lanes,
               TurnPost(g, m, lane, c)
        PROVE  ProcessTypeOK'
    <3>1. unpublished' = unpublished + 1
      BY <2>1, PostPublishes DEF TurnPost
    <3> QED
      BY <2>1, <3>1 DEF TurnPost
  <2>2. ASSUME NEW c \in run[g].batch, TurnDispatch(g, c)
        PROVE  ProcessTypeOK'
    <3>1. unpublished' = unpublished + 1
      BY <2>2 DEF TurnDispatch, BudgetEscalation, Append1
    <3> QED
      BY <2>2, <3>1 DEF TurnDispatch
  <2>3. CASE TurnRead(g) \/ TurnReadFails(g)
    BY <2>3 DEF TurnRead, TurnReadFails
  <2>4. CASE \E failed \in BOOLEAN : TurnReturn(g, failed)
    BY <2>4 DEF TurnReturn
  <2>5. CASE TurnError(g)
    <3>1. unpublished' = unpublished + 1
      BY <2>5 DEF TurnError, Append1
    <3> QED
      BY <2>5, <3>1 DEF TurnError
  <2>6. CASE TurnCommit(g) \/ TurnCommitFails(g)
    BY <2>6 DEF TurnCommit, TurnCommitFails
  <2>7. CASE TurnExit(g)
    BY <2>7 DEF TurnExit
  <2> QED
    BY <1>6, <2>1, <2>2, <2>3, <2>4, <2>5, <2>6, <2>7 DEF Turn
<1>7. QED
  BY <1>1, <1>2, <1>3, <1>4, <1>5, <1>6 DEF Next

\* Which steps write what a scheduling pass works on.
LEMMA SchedulerFrame ==
  ASSUME [Next]_vars
  PROVE  \/ UNCHANGED schedVars
         \/ Kick /\ UNCHANGED <<active, snap>>
         \/ PassBegin \/ PassQuery \/ PassQueryFails \/ PassSchedule \/ PassCheck
         \/ \E g \in Gor : TurnExit(g)
         \/ FreshMemory /\ Life
<1> USE DEF schedVars
<1>1. CASE UNCHANGED vars
  BY <1>1 DEF vars
<1>2. CASE Publish \/ Scheduling
  BY <1>2 DEF Publish, Scheduling, LoopKick, LoopWake, LoopTicker, LoopStop,
              KickAfterTurn, TaskDone
<1>3. CASE Life
  BY <1>3 DEF Life, Start, Stop, Cancel, Exit, Crash, Down
<1>4. CASE Environment
  BY <1>4 DEF Environment, OutsidePost, OutcomePost
<1>5. CASE \E g \in Gor : Turn(g)
  <2> SUFFICES ASSUME NEW g \in Gor, Turn(g), ~TurnExit(g)
               PROVE  UNCHANGED schedVars
    BY <1>5
  <2>1. CASE TurnRead(g) \/ TurnReadFails(g) \/ TurnError(g) \/ TurnCommit(g) \/ TurnCommitFails(g)
    BY <2>1 DEF TurnRead, TurnReadFails, TurnError, TurnCommit, TurnCommitFails
  <2>2. CASE ~(TurnRead(g) \/ TurnReadFails(g) \/ TurnError(g) \/ TurnCommit(g) \/ TurnCommitFails(g))
    BY <2>2 DEF Turn, TurnPost, TurnDispatch, TurnReturn
  <2> QED
    BY <2>1, <2>2
<1>6. QED
  BY <1>1, <1>2, <1>3, <1>4, <1>5 DEF Next

\* A pass starts turns for rows of its list only.
LEMMA ScheduleEffect ==
  ASSUME PassSchedule
  PROVE  \E Started \in SUBSET Startable :
           /\ Chosen(Started)
           /\ active' = active \cup {p.mb : p \in Started}
           /\ \E who \in [Started -> Free] :
                /\ \A p, q \in Started : who[p] = who[q] => p = q
                /\ \A g \in Gor \ {who[p] : p \in Started} : run'[g] = run[g]
                /\ \A p \in Started :
                     run'[who[p]] = [pc |-> "read", batch |-> {}, effects |-> 0, mb |-> p.mb]
                /\ DOMAIN run' = Gor
<1>1. PICK Started \in SUBSET Startable :
        /\ Chosen(Started)
        /\ active' = active \cup {p.mb : p \in Started}
        /\ \E who \in [Started -> Free] :
            /\ \A p, q \in Started : who[p] = who[q] => p = q
            /\ run' = [g \in Gor |->
                 IF \E p \in Started : who[p] = g
                 THEN [pc |-> "read", batch |-> {}, effects |-> 0,
                       mb |-> (CHOOSE p \in Started : who[p] = g).mb]
                 ELSE run[g]]
  BY DEF PassSchedule
<1>2. PICK who \in [Started -> Free] :
            /\ \A p, q \in Started : who[p] = who[q] => p = q
            /\ run' = [g \in Gor |->
                 IF \E p \in Started : who[p] = g
                 THEN [pc |-> "read", batch |-> {}, effects |-> 0,
                       mb |-> (CHOOSE p \in Started : who[p] = g).mb]
                 ELSE run[g]]
  BY <1>1
<1>3. \A g \in Gor \ {who[p] : p \in Started} : run'[g] = run[g]
  BY <1>2
<1>4. ASSUME NEW p \in Started
      PROVE  run'[who[p]] = [pc |-> "read", batch |-> {}, effects |-> 0, mb |-> p.mb]
  <2>1. who[p] \in Gor
    BY DEF Free
  <2>2. (CHOOSE q \in Started : who[q] = who[p]) = p
    BY <1>2
  <2> QED
    BY <1>2, <2>1, <2>2
<1>5. QED
  BY <1>1, <1>2, <1>3, <1>4

\* Every step keeps the types of what a scheduling pass works on.
LEMMA SchedulerTypeStep ==
  ASSUME TypeOK, [Next]_vars
  PROVE  SchedulerTypeOK'
<1> USE DEF SchedulerTypeOK
<1>1. CASE UNCHANGED schedVars
  BY <1>1 DEF schedVars
<1>2. CASE Kick /\ UNCHANGED <<active, snap>>
  BY <1>2 DEF Kick
<1>3. CASE PassBegin \/ PassQueryFails
  BY <1>3 DEF PassBegin, PassQueryFails
<1>4. CASE PassQuery
  <2>1. MailboxesWithPending \subseteq [mb : Mailbox, urgent : BOOLEAN, oldest : Nat]
    <3>1. ASSUME NEW m \in Listed
          PROVE  PendingRow(m) \in [mb : Mailbox, urgent : BOOLEAN, oldest : Nat]
      <4>1. Pending(m) \subseteq Nat /\ Pending(m) # {} /\ m \in Mailbox
        BY <3>1 DEF Listed, Pending, Mail, Seqs
      <4>2. Oldest(Pending(m)) \in Nat
        BY <4>1, OldestExists
      <4> QED
        BY <4>1, <4>2 DEF PendingRow
    <3> QED
      BY <3>1 DEF MailboxesWithPending
  <2> QED
    BY <1>4, <2>1 DEF PassQuery
<1>5. CASE PassSchedule
  <2>1. PICK Started \in SUBSET Startable : active' = active \cup {p.mb : p \in Started}
    BY <1>5, ScheduleEffect
  <2>2. \A p \in Started : p.mb \in Mailbox
    BY <2>1 DEF Startable
  <2>3. pass' = "check" /\ UNCHANGED <<ticking, again, snap>>
    BY <1>5 DEF PassSchedule
  <2> QED
    BY <2>1, <2>2, <2>3
<1>6. CASE PassCheck
  BY <1>6 DEF PassCheck
<1>7. CASE \E g \in Gor : TurnExit(g)
  BY <1>7 DEF TurnExit
<1>8. CASE FreshMemory
  BY <1>8 DEF FreshMemory
<1>9. QED
  BY <1>1, <1>2, <1>3, <1>4, <1>5, <1>6, <1>7, <1>8, SchedulerFrame

\* Which steps move a turn.
LEMMA RunFrame ==
  ASSUME [Next]_vars
  PROVE  \/ UNCHANGED run
         \/ PassSchedule
         \/ \E g \in Gor : Turn(g)
         \/ FreshMemory /\ Life
<1>1. CASE UNCHANGED vars
  BY <1>1 DEF vars
<1>2. CASE Publish \/ Scheduling
  BY <1>2 DEF Publish, Scheduling, LoopKick, LoopWake, LoopTicker, LoopStop,
              KickAfterTurn, TaskDone, PassBegin, PassQuery, PassQueryFails, PassCheck
<1>3. CASE Life
  BY <1>3 DEF Life, Start, Stop, Cancel, Exit, Crash, Down
<1>4. CASE Environment
  BY <1>4 DEF Environment, OutsidePost, OutcomePost
<1>6. QED
  BY <1>1, <1>2, <1>3, <1>4 DEF Next

\* A turn as the variable run holds it, given the events there are.
TurnRecord == [pc : Turns, mb : Mailbox \cup {None}, batch : SUBSET Seqs, effects : Nat]

\* One step of runTurn: from the turn t to the turn u of the same mailbox.
TurnStep(t, u) ==
  /\ u.mb = t.mb
  /\ \/ t.pc = "read" /\ u.pc = "exit"
     \/ /\ t.pc = "read" /\ u.pc = "handle"
        /\ u.batch = PendingMessages(t.mb) /\ u.batch # {}
     \/ t.pc = "handle" /\ u.pc \in {"handle", "error", "commit", "exit"} /\ u.batch = t.batch
     \/ t.pc = "error" /\ u.pc = "commit" /\ u.batch = t.batch
     \/ t.pc = "commit" /\ u.pc = "exit"

\* A step of a turn goroutine moves its own turn only, along runTurn, and gives its
\* mailbox up only when it ends.
LEMMA TurnEffect ==
  ASSUME TypeOK, NEW g \in Gor, Turn(g)
  PROVE  /\ run[g].pc # "free"
         /\ \E u \in TurnRecord : run' = [run EXCEPT ![g] = u] /\
              \/ TurnStep(run[g], u) /\ UNCHANGED active
              \/ run[g].pc = "exit" /\ u = NoTurn /\ active' = active \ {run[g].mb}
<1> DEFINE t == run[g]
<1>1. run \in [Gor -> TurnRecord] /\ t \in TurnRecord
  BY DEF RunTypeOK, TurnRecord
<1>2. CASE TurnRead(g)
  <2> DEFINE batch == PendingMessages(t.mb)
             u == [t EXCEPT !.pc = IF batch = {} THEN "exit" ELSE "handle", !.batch = batch]
  <2>1. run' = [run EXCEPT ![g] = u] /\ t.pc = "read" /\ UNCHANGED active
    BY <1>1, <1>2 DEF TurnRead, TurnAt, TurnRecord, schedVars
  <2>2. batch \subseteq Seqs
    BY DEF PendingMessages, Pending, Mail
  <2>3. u \in TurnRecord /\ u.mb = t.mb /\ u.batch = batch
        /\ u.pc = IF batch = {} THEN "exit" ELSE "handle"
    <3> HIDE DEF batch
    <3> QED
      BY <1>1, <2>2 DEF TurnRecord, Turns
  <2>4. TurnStep(t, u)
    BY <2>1, <2>3 DEF TurnStep
  <2> HIDE DEF u
  <2> QED
    BY <2>1, <2>3, <2>4
<1>3. ASSUME NEW pc \in Turns, TurnGoto(g, pc), UNCHANGED active, t.pc # "free",
             \/ t.pc = "read" /\ pc = "exit"
             \/ t.pc = "handle" /\ pc \in {"error", "commit", "exit"}
             \/ t.pc = "error" /\ pc = "commit"
             \/ t.pc = "commit" /\ pc = "exit"
      PROVE  \E u \in TurnRecord : run' = [run EXCEPT ![g] = u] /\
               TurnStep(t, u) /\ UNCHANGED active
  <2> DEFINE u == [t EXCEPT !.pc = pc]
  <2>1. run' = [run EXCEPT ![g] = u]
    BY <1>1, <1>3 DEF TurnGoto
  <2>2. u \in TurnRecord /\ u.mb = t.mb /\ u.batch = t.batch /\ u.pc = pc
    BY <1>1 DEF TurnRecord
  <2> HIDE DEF u
  <2> QED
    BY <1>3, <2>1, <2>2 DEF TurnStep
<1>4. CASE TurnReadFails(g)
  BY <1>3, <1>4 DEF TurnReadFails, TurnAt, schedVars, Turns
<1>5. ASSUME NEW failed \in BOOLEAN, TurnReturn(g, failed)
      PROVE  t.pc = "handle" /\ UNCHANGED active /\
             \E pc \in {"error", "commit", "exit"} : TurnGoto(g, pc)
  BY <1>5 DEF TurnReturn, TurnAt, schedVars
<1>6. CASE \E failed \in BOOLEAN : TurnReturn(g, failed)
  BY <1>3, <1>5, <1>6 DEF Turns
<1>7. CASE TurnError(g)
  BY <1>3, <1>7 DEF TurnError, TurnAt, schedVars, Turns
<1>8. CASE TurnCommit(g) \/ TurnCommitFails(g)
  BY <1>3, <1>8 DEF TurnCommit, TurnCommitFails, TurnAt, schedVars, Turns
<1>9. CASE TurnExit(g)
  <2>1. NoTurn \in TurnRecord
    BY DEF NoTurn, TurnRecord, Turns
  <2> QED
    BY <1>9, <2>1 DEF TurnExit, TurnAt
<1>10. CASE \E c \in run[g].batch :
              \/ \E m \in Mailbox, lane \in Lanes : TurnPost(g, m, lane, c)
              \/ TurnDispatch(g, c)
  <2> DEFINE u == [t EXCEPT !.effects = @ + 1]
  <2>1. run' = [run EXCEPT ![g].effects = @ + 1] /\ t.pc = "handle" /\ UNCHANGED active
    BY <1>10 DEF TurnPost, TurnDispatch, CanAct, TurnAt, schedVars
  <2>2. run' = [run EXCEPT ![g] = u]
    BY <1>1, <2>1
  <2>3. u \in TurnRecord /\ u.mb = t.mb /\ u.batch = t.batch /\ u.pc = t.pc
    BY <1>1 DEF TurnRecord
  <2> HIDE DEF u
  <2> QED
    BY <2>1, <2>2, <2>3 DEF TurnStep
<1>11. QED
  BY <1>2, <1>3, <1>4, <1>6, <1>7, <1>8, <1>9, <1>10 DEF Turn, TurnStep

\* Every step keeps the types of the turns.
LEMMA RunTypeStep ==
  ASSUME TypeOK, [Next]_vars
  PROVE  RunTypeOK'
<1>0. Seqs \subseteq Seqs'
  BY DbTypeStep
<1>1. /\ run \in [Gor -> TurnRecord]
      /\ \A g \in Gor :
           /\ run[g].pc # "free" => run[g].mb \in Mailbox
           /\ run[g].pc \in {"handle", "error", "commit"} => run[g].batch # {}
  BY DEF RunTypeOK, TurnRecord
<1>2. ASSUME run' \in [Gor -> TurnRecord],
             \A g \in Gor :
               /\ run'[g].pc # "free" => run'[g].mb \in Mailbox
               /\ run'[g].pc \in {"handle", "error", "commit"} => run'[g].batch # {}
      PROVE  RunTypeOK'
  <2>1. ASSUME NEW g \in Gor
        PROVE  run'[g] \in [pc : Turns, mb : Mailbox \cup {None}, batch : SUBSET (Seqs'),
                            effects : Nat]
    BY <1>0, <1>2 DEF TurnRecord
  <2> QED
    BY <1>2, <2>1 DEF RunTypeOK
<1>3. CASE UNCHANGED run
  BY <1>1, <1>2, <1>3
<1>4. CASE PassSchedule
  <2>1. PICK Started \in SUBSET Startable :
          \E who \in [Started -> Free] :
                /\ \A g \in Gor \ {who[p] : p \in Started} : run'[g] = run[g]
                /\ \A p \in Started :
                     run'[who[p]] = [pc |-> "read", batch |-> {}, effects |-> 0, mb |-> p.mb]
    BY <1>4, ScheduleEffect
  <2>2. PICK who \in [Started -> Free] :
                /\ \A g \in Gor \ {who[p] : p \in Started} : run'[g] = run[g]
                /\ \A p \in Started :
                     run'[who[p]] = [pc |-> "read", batch |-> {}, effects |-> 0, mb |-> p.mb]
    BY <2>1
  <2>3. \A p \in Started : p.mb \in Mailbox
    BY <2>1 DEF Startable, SchedulerTypeOK
  <2>4. ASSUME NEW g \in Gor
        PROVE  /\ run'[g] \in TurnRecord
               /\ run'[g].pc # "free" => run'[g].mb \in Mailbox
               /\ run'[g].pc \in {"handle", "error", "commit"} => run'[g].batch # {}
    <3>1. CASE g \in {who[p] : p \in Started}
      <4>1. PICK p \in Started : who[p] = g
        BY <3>1
      <4>2. run'[g] = [pc |-> "read", batch |-> {}, effects |-> 0, mb |-> p.mb]
        BY <2>2, <4>1
      <4> QED
        BY <2>3, <4>2 DEF TurnRecord, Turns
    <3>2. CASE g \notin {who[p] : p \in Started}
      BY <1>1, <2>2, <3>2
    <3> QED
      BY <3>1, <3>2
  <2>5. run' \in [Gor -> TurnRecord]
    <3>1. run' = [g \in Gor |-> run'[g]]
      BY <1>4 DEF PassSchedule
    <3> QED
      BY <2>4, <3>1
  <2> QED
    BY <1>2, <2>4, <2>5
<1>5. ASSUME NEW g \in Gor, Turn(g)
      PROVE  RunTypeOK'
  <2>1. PICK u \in TurnRecord : run' = [run EXCEPT ![g] = u] /\
              \/ TurnStep(run[g], u)
              \/ run[g].pc = "exit" /\ u = NoTurn
    BY <1>5, TurnEffect
  <2>2. run[g].pc # "free"
    BY <1>5, TurnEffect
  <2>3. /\ u.pc # "free" => u.mb \in Mailbox
        /\ u.pc \in {"handle", "error", "commit"} => u.batch # {}
    BY <1>1, <2>1, <2>2 DEF TurnStep, NoTurn
  <2> QED
    BY <1>1, <1>2, <2>1, <2>3
<1>6. CASE FreshMemory
  <2>1. run' = [g \in Gor |-> NoTurn]
    BY <1>6 DEF FreshMemory
  <2>2. NoTurn \in TurnRecord /\ NoTurn.pc = "free"
    BY DEF NoTurn, TurnRecord, Turns
  <2> HIDE DEF NoTurn
  <2> QED
    BY <1>2, <2>1, <2>2
<1>7. QED
  BY <1>3, <1>4, <1>5, <1>6, RunFrame

LEMMA TypeInit ==
  ASSUME Init
  PROVE  TypeOK
<1>1. log = <<>> /\ given = <<>> /\ Seqs = {}
  BY DEF Init, Seqs
<1>2. DbTypeOK
  BY <1>1 DEF Init, DbTypeOK
<1>3. ProcessTypeOK
  <2>1. 0 \in 0 .. WakeCap
    BY RuntimeAssumption
  <2>2. /\ up = FALSE /\ stopped = TRUE /\ cancelled = FALSE /\ loop = "off" /\ wake = 0
        /\ unpublished = 0 /\ kicks = 0 /\ tasks = {} /\ stops = 0 /\ faults = 0
    BY DEF Init
  <2> QED
    BY <2>1, <2>2 DEF ProcessTypeOK
<1>4. SchedulerTypeOK
  BY DEF Init, SchedulerTypeOK
<1>5. RunTypeOK
  <2>1. run = [g \in Gor |-> NoTurn] /\ NoTurn \in TurnRecord /\ NoTurn.pc = "free"
    BY DEF Init, NoTurn, TurnRecord, Turns
  <2> HIDE DEF NoTurn
  <2> QED
    BY <2>1 DEF RunTypeOK, TurnRecord
<1> QED
  BY <1>2, <1>3, <1>4, <1>5

LEMMA TypeStep ==
  ASSUME TypeOK, [Next]_vars
  PROVE  TypeOK'
BY DbTypeStep, ProcessTypeStep, SchedulerTypeStep, RunTypeStep

\* The variables keep the shape of the Go structs and the tables.
THEOREM TypeCorrect == Spec => []TypeOK
<1>1. Init => TypeOK
  BY TypeInit
<1>2. TypeOK /\ [Next]_vars => TypeOK'
  BY TypeStep
<1> QED
  BY <1>1, <1>2, PTL DEF Spec

-----------------------------------------------------------------------------
(* Slots *)

\* Two sets with a bijection onto each other's image: a pass adds to active at most
\* as many mailboxes as it chose rows.
LEMMA ImageBound ==
  ASSUME NEW S, IsFiniteSet(S)
  PROVE  LET T == {p.mb : p \in S}
         IN  IsFiniteSet(T) /\ Cardinality(T) <= Cardinality(S)
<1> DEFINE T == {p.mb : p \in S}
           f == [p \in S |-> p.mb]
<1>1. f \in [S -> T] /\ \A t \in T : \E p \in S : f[p] = t
  OBVIOUS
<1>2. f \in Surjection(S, T)
  <2> HIDE DEF f, T
  <2> QED
    BY <1>1, Fun_IsSurj
<1>3. IsFiniteSet(T) /\ Cardinality(T) <= Cardinality(S)
  <2> HIDE DEF f, T
  <2> QED
    BY <1>2, FS_Surjection
<1> QED
  BY <1>3

\* The rows a pass starts are finitely many: each gets a goroutine of its own.
LEMMA StartedFinite ==
  ASSUME NEW Started, NEW who \in [Started -> Free],
         \A p, q \in Started : who[p] = who[q] => p = q
  PROVE  IsFiniteSet(Started)
<1>1. IsFiniteSet(Free)
  BY RuntimeAssumption, FS_Subset DEF Free
<1>2. who \in Injection(Started, Free)
  BY Fun_IsInj
<1> QED
  BY <1>1, <1>2, FS_Injection

\* Every step keeps the mailboxes and the slots apart.
LEMMA SlotStep ==
  ASSUME TypeOK, SlotInv, [Next]_vars
  PROVE  SlotInv'
<1> USE DEF SlotInv, OneTurnPerMailbox, Busy
<1>0. run \in [Gor -> TurnRecord]
  BY DEF TypeOK, RunTypeOK, TurnRecord
<1>1. CASE PassSchedule
  <2>1. PICK Started \in SUBSET Startable :
           /\ Chosen(Started)
           /\ active' = active \cup {p.mb : p \in Started}
           /\ \E who \in [Started -> Free] :
                /\ \A p, q \in Started : who[p] = who[q] => p = q
                /\ \A g \in Gor \ {who[p] : p \in Started} : run'[g] = run[g]
                /\ \A p \in Started :
                     run'[who[p]] = [pc |-> "read", batch |-> {}, effects |-> 0, mb |-> p.mb]
    BY <1>1, ScheduleEffect
  <2>2. PICK who \in [Started -> Free] :
                /\ \A p, q \in Started : who[p] = who[q] => p = q
                /\ \A g \in Gor \ {who[p] : p \in Started} : run'[g] = run[g]
                /\ \A p \in Started :
                     run'[who[p]] = [pc |-> "read", batch |-> {}, effects |-> 0, mb |-> p.mb]
    BY <2>1
  <2> DEFINE T == {p.mb : p \in Started}
  <2>3. IsFiniteSet(active') /\ Cardinality(active') <= MaxTurns
    <3>1. IsFiniteSet(Started) /\ IsFiniteSet(T) /\ Cardinality(T) <= Cardinality(Started)
      BY <2>2, StartedFinite, ImageBound
    <3>2. active' = active \cup T
      BY <2>1
    <3> HIDE DEF T
    <3>3. /\ Cardinality(active) \in Nat /\ Cardinality(T) \in Nat
          /\ Cardinality(Started) \in Nat /\ Cardinality(active \cap T) \in Nat
      BY <3>1, FS_CardinalityType, FS_Intersection
    <3>4. /\ IsFiniteSet(active \cup T)
          /\ Cardinality(active \cup T)
               = Cardinality(active) + Cardinality(T) - Cardinality(active \cap T)
      BY <3>1, FS_Union
    <3>5. Cardinality(active) + Cardinality(Started) <= MaxTurns
      BY <2>1 DEF Chosen
    <3> QED
      BY <3>1, <3>2, <3>3, <3>4, <3>5, RuntimeAssumption
  <2>4. \A g \in Gor : run'[g].pc # "free" =>
          \/ g \in Busy /\ run'[g] = run[g]
          \/ \E p \in Started : g = who[p] /\ run'[g].mb = p.mb
    <3> TAKE g \in Gor
    <3>1. CASE g \in {who[p] : p \in Started}
      <4>1. PICK p \in Started : g = who[p]
        BY <3>1
      <4>2. run'[g] = [pc |-> "read", batch |-> {}, effects |-> 0, mb |-> p.mb]
        BY <2>2, <4>1
      <4> QED
        BY <4>1, <4>2
    <3>2. CASE g \notin {who[p] : p \in Started}
      BY <2>2, <3>2
    <3> QED
      BY <3>1, <3>2
  <2>5. \A p, q \in Started : p.mb = q.mb => p = q
    BY <2>1 DEF Startable
  <2>6. \A p \in Started : p.mb \notin active
    BY <2>1 DEF Startable
  <2>7. \A g \in Busy' : run'[g].mb \in active'
    BY <2>1, <2>4
  <2>8. \A g, h \in Busy' : run'[g].mb = run'[h].mb => g = h
    BY <2>4, <2>5, <2>6
  <2>9. snap' = snap
    BY <1>1 DEF PassSchedule
  <2> QED
    BY <2>3, <2>7, <2>8, <2>9
<1>2. ASSUME NEW g \in Gor, Turn(g)
      PROVE  SlotInv'
  <2>1. UNCHANGED snap
    BY <1>2 DEF Turn, TurnRead, TurnReadFails, TurnPost, TurnDispatch, TurnReturn, TurnError,
                TurnCommit, TurnCommitFails, TurnExit, schedVars
  <2>2. PICK u \in TurnRecord : run' = [run EXCEPT ![g] = u] /\
              \/ TurnStep(run[g], u) /\ UNCHANGED active
              \/ run[g].pc = "exit" /\ u = NoTurn /\ active' = active \ {run[g].mb}
    BY <1>2, TurnEffect
  <2>3. g \in Busy
    BY <1>2, TurnEffect
  <2>4. CASE TurnStep(run[g], u) /\ UNCHANGED active
    BY <1>0, <2>1, <2>2, <2>3, <2>4 DEF TurnStep
  <2>5. CASE run[g].pc = "exit" /\ u = NoTurn /\ active' = active \ {run[g].mb}
    <3>1. NoTurn.pc = "free"
      BY DEF NoTurn
    <3>2. \A h \in Busy' : h # g /\ h \in Busy /\ run'[h] = run[h]
      BY <1>0, <2>2, <2>5, <3>1
    <3>3. IsFiniteSet(active') /\ Cardinality(active') <= MaxTurns
      <4>1. Cardinality(active) \in Nat /\ Cardinality(active') \in Nat
            /\ IsFiniteSet(active') /\ Cardinality(active') <= Cardinality(active)
        BY <2>5, FS_Subset, FS_CardinalityType
      <4> QED
        BY <4>1, RuntimeAssumption
    <3> QED
      BY <2>1, <2>3, <2>5, <3>2, <3>3
  <2> QED
    BY <2>2, <2>4, <2>5
<1>3. CASE FreshMemory
  <2>1. active' = {} /\ snap' = {} /\ run' = [g \in Gor |-> NoTurn] /\ NoTurn.pc = "free"
    BY <1>3 DEF FreshMemory, NoTurn
  <2>2. Busy' = {}
    BY <2>1
  <2>3. IsFiniteSet(active') /\ Cardinality(active') <= MaxTurns
    BY <2>1, FS_EmptySet, RuntimeAssumption
  <2> QED
    BY <2>1, <2>2, <2>3
<1>4. CASE UNCHANGED <<run, active>> /\ (UNCHANGED snap \/ snap' = {})
  BY <1>4
<1>5. CASE PassQuery
  <2>1. UNCHANGED <<run, active>> /\ snap' = MailboxesWithPending
    BY <1>5 DEF PassQuery
  <2>2. \A p, q \in MailboxesWithPending : p.mb = q.mb => p = q
    <3>1. \A m \in Listed : PendingRow(m).mb = m
      BY DEF PendingRow
    <3> QED
      BY <3>1 DEF MailboxesWithPending
  <2> QED
    BY <2>1, <2>2
<1>6. CASE UNCHANGED run /\ ~FreshMemory
  <2>1. CASE UNCHANGED schedVars \/ (Kick /\ UNCHANGED <<active, snap>>)
    BY <1>4, <1>6, <2>1 DEF schedVars
  <2>2. CASE PassBegin \/ PassQueryFails \/ PassCheck
    BY <1>4, <1>6, <2>2 DEF PassBegin, PassQueryFails, PassCheck
  <2>3. ASSUME NEW g \in Gor, TurnExit(g)
        PROVE  SlotInv'
    BY <1>2, <2>3 DEF Turn
  <2> QED
    BY <1>1, <1>5, <1>6, <2>1, <2>2, <2>3, SchedulerFrame
<1> QED
  BY <1>1, <1>2, <1>3, <1>6, RunFrame

\* A busy goroutine holds a mailbox of its own in Runtime.active, which never has
\* more than maxTurns of them (runtime.go: tick).
THEOREM SlotsCorrect == Spec => [](TypeOK /\ SlotInv)
<1>1. Init => TypeOK /\ SlotInv
  <2> SUFFICES ASSUME Init PROVE SlotInv
    BY TypeInit
  <2>1. active = {} /\ snap = {} /\ run = [g \in Gor |-> NoTurn] /\ NoTurn.pc = "free"
    BY DEF Init, NoTurn
  <2>2. IsFiniteSet(active) /\ Cardinality(active) <= MaxTurns
    BY <2>1, FS_EmptySet, RuntimeAssumption
  <2> QED
    BY <2>1, <2>2 DEF SlotInv, OneTurnPerMailbox, Busy
<1>2. TypeOK /\ SlotInv /\ [Next]_vars => (TypeOK /\ SlotInv)'
  BY TypeStep, SlotStep
<1> QED
  BY <1>1, <1>2, PTL DEF Spec

\* Two turns of one mailbox never overlap (runtime.go: Runtime.active), although a
\* pass decides on a list it read before it took the lock.
THEOREM OneTurnAtATime == Spec => []OneTurnPerMailbox
<1>1. SlotInv => OneTurnPerMailbox
  BY DEF SlotInv
<1> QED
  BY <1>1, SlotsCorrect, PTL

\* At most maxTurns turns run at once (runtime.go: the break in tick).
THEOREM WithinTurnLimit == Spec => []TurnsWithinLimit
<1>1. ASSUME TypeOK, SlotInv
      PROVE  TurnsWithinLimit
  <2> DEFINE f == [g \in Busy |-> run[g].mb]
  <2>1. f \in [Busy -> active] /\ \A g, h \in Busy : f[g] = f[h] => g = h
    BY <1>1 DEF SlotInv, OneTurnPerMailbox
  <2>2. f \in Injection(Busy, active)
    <3> HIDE DEF f
    <3> QED
      BY <2>1, Fun_IsInj
  <2>3. IsFiniteSet(active) /\ Cardinality(active) <= MaxTurns
    BY <1>1 DEF SlotInv
  <2>4. IsFiniteSet(Busy) /\ Cardinality(Busy) <= Cardinality(active)
    <3> HIDE DEF f
    <3> QED
      BY <2>2, <2>3, FS_Injection
  <2>5. Cardinality(Busy) \in Nat /\ Cardinality(active) \in Nat
    BY <2>3, <2>4, FS_CardinalityType
  <2> QED
    BY <2>3, <2>4, <2>5, RuntimeAssumption DEF TurnsWithinLimit
<1> QED
  BY <1>1, SlotsCorrect, PTL

-----------------------------------------------------------------------------
(* Cursors *)

\* The messages a turn reads are the first ones that wait, with no gap between them
\* (mailbox.go: ORDER BY seq ASC LIMIT).
LEMMA PendingMessagesIsPrefix ==
  ASSUME TypeOK, NEW m \in Mailbox,
         NEW b \in PendingMessages(m), NEW s \in Pending(m), s < b
  PROVE  s \in PendingMessages(m)
<1> DEFINE Older(x) == {t \in Pending(m) : t < x}
<1>1. Pending(m) \subseteq 1 .. Len(log) /\ Len(log) \in Nat
  BY LenProperties DEF Pending, Mail, Seqs, TypeOK, DbTypeOK
<1>2. IsFiniteSet(Pending(m))
  <2>1. IsFiniteSet(1 .. Len(log))
    BY <1>1, FS_Interval
  <2> QED
    BY <1>1, <2>1, FS_Subset
<1>3. b \in Pending(m) /\ Cardinality(Older(b)) < BatchSize
  BY DEF PendingMessages
<1>4. Older(s) \subseteq Older(b)
  BY <1>1, <1>3
<1>5. IsFiniteSet(Older(b)) /\ IsFiniteSet(Older(s))
  BY <1>2, FS_Subset
<1>6. Cardinality(Older(s)) <= Cardinality(Older(b))
  BY <1>4, <1>5, FS_Subset
<1>7. Cardinality(Older(s)) \in Nat /\ Cardinality(Older(b)) \in Nat
  BY <1>5, FS_CardinalityType
<1>8. Cardinality(Older(s)) < BatchSize
  BY <1>3, <1>6, <1>7, RuntimeAssumption
<1> QED
  BY <1>8 DEF PendingMessages

\* The log grew by one event at most, and only cursors that did not exist were set,
\* below the first message of their mailbox.
LogGrew ==
  /\ Len(log') = Len(log) + 1
  /\ \A s \in Seqs : log'[s] = log[s] /\ given'[s] = given[s]
  /\ Seqs' = Seqs \cup {Len(log) + 1}
  /\ \A n \in Mailbox : cursor[n] # NoCursor => cursor'[n] = cursor[n]
  /\ \A n \in Mailbox : cursor[n] = NoCursor /\ cursor'[n] # NoCursor =>
       \A s \in Mail(n) \cup {Len(log) + 1} : cursor'[n] < s
  /\ \A n \in Mailbox : log'[Len(log) + 1].mb = n => cursor'[n] # NoCursor

\* An append leaves the open turns as they were: their messages still wait, and the
\* new one comes after them.
LEMMA LogGrewKeeps ==
  ASSUME TypeOK, TypeOK', NoMessageSkipped, BatchInv, LogGrew
  PROVE  /\ NoMessageSkipped'
         /\ \A m \in Mailbox : cursor'[m] <= Len(log')
         /\ \A m \in Mailbox : Pending(m) # {} =>
              /\ Pending(m) \subseteq Pending(m)'
              /\ Pending(m)' \subseteq Pending(m) \cup {Len(log) + 1}
<1>1. /\ cursor \in [Mailbox -> Nat \cup {NoCursor}] /\ Len(log) \in Nat /\ Seqs = 1 .. Len(log)
      /\ cursor' \in [Mailbox -> Nat \cup {NoCursor}] /\ Len(log') \in Nat
  BY LenProperties DEF TypeOK, DbTypeOK, Seqs
<1>2. \A m \in Mailbox : Mail(m)' \subseteq Mail(m) \cup {Len(log) + 1} /\ Mail(m) \subseteq Mail(m)'
  BY DEF LogGrew, Mail
<1>3. \A m \in Mailbox : Len(log) + 1 \in Mail(m)' => cursor'[m] # NoCursor
  BY DEF LogGrew, Mail
<1>4. ASSUME NEW m \in Mailbox, cursor[m] = NoCursor
      PROVE  Mail(m) = {}
  BY <1>4 DEF NoMessageSkipped
<1>5. ASSUME NEW m \in Mailbox, NEW s \in Mail(m)'
      PROVE  cursor'[m] # NoCursor /\ (s <= cursor'[m] => given'[s] > 0)
  <2>1. CASE cursor[m] = NoCursor
    <3>1. s = Len(log) + 1
      BY <1>2, <1>4, <1>5, <2>1
    <3>2. cursor'[m] # NoCursor
      BY <1>3, <1>5, <3>1
    <3>3. cursor'[m] < s
      BY <2>1, <3>1, <3>2 DEF LogGrew
    <3> QED
      BY <1>1, <3>1, <3>2, <3>3 DEF NoCursor
  <2>2. CASE cursor[m] # NoCursor
    <3>1. cursor'[m] = cursor[m] /\ cursor[m] <= Len(log) /\ cursor[m] \in Nat
      BY <1>1, <2>2 DEF LogGrew, BatchInv
    <3>2. CASE s \in Mail(m)
      <4>1. s \in Seqs /\ given'[s] = given[s]
        BY <3>2 DEF LogGrew, Mail
      <4> QED
        BY <2>2, <3>1, <3>2, <4>1 DEF NoMessageSkipped
    <3>3. CASE s = Len(log) + 1
      BY <1>1, <2>2, <3>1, <3>3
    <3> QED
      BY <1>2, <3>2, <3>3
  <2> QED
    BY <2>1, <2>2
<1>6. NoMessageSkipped'
  BY <1>5 DEF NoMessageSkipped
<1>7. ASSUME NEW m \in Mailbox
      PROVE  cursor'[m] <= Len(log')
  <2>1. Len(log') = Len(log) + 1
    BY DEF LogGrew
  <2>2. CASE cursor[m] # NoCursor
    <3>1. cursor'[m] = cursor[m] /\ cursor[m] <= Len(log) /\ cursor[m] \in Nat
      BY <1>1, <2>2 DEF LogGrew, BatchInv
    <3>2. Len(log) \in Nat
      BY <1>1
    <3> QED
      BY <2>1, <3>1, <3>2
  <2>3. CASE cursor'[m] = NoCursor
    BY <1>1, <2>3 DEF NoCursor
  <2>4. CASE cursor[m] = NoCursor /\ cursor'[m] # NoCursor
    <3>1. cursor'[m] < Len(log) + 1
      BY <2>4 DEF LogGrew
    <3>2. cursor'[m] \in Nat /\ Len(log) \in Nat
      BY <1>1, <2>4
    <3> QED
      BY <2>1, <3>1, <3>2
  <2> QED
    BY <2>2, <2>3, <2>4
<1>8. ASSUME NEW m \in Mailbox, Pending(m) # {}
      PROVE  /\ Pending(m) \subseteq Pending(m)'
             /\ Pending(m)' \subseteq Pending(m) \cup {Len(log) + 1}
  <2>1. cursor[m] # NoCursor
    BY <1>8, <1>4 DEF Pending
  <2>2. cursor'[m] = cursor[m]
    BY <2>1 DEF LogGrew
  <2>3. CursorOf(m)' = CursorOf(m)
    BY <2>2 DEF CursorOf
  <2> QED
    BY <1>2, <2>3 DEF Pending
<1> QED
  BY <1>6, <1>7, <1>8

\* An append that leaves the turns reading what they read keeps the invariant.
LEMMA LogGrewBatch ==
  ASSUME TypeOK, TypeOK', NoMessageSkipped, BatchInv, LogGrew,
         \A g \in Reading' : /\ g \in Reading
                             /\ run'[g].batch = run[g].batch /\ run'[g].mb = run[g].mb
                             /\ run'[g].pc # "handle" => run[g].pc # "handle"
  PROVE  NoMessageSkipped' /\ BatchInv'
<1>1. ASSUME NEW g \in Reading', NEW m \in Mailbox, m = run[g].mb
      PROVE  /\ run'[g].batch \subseteq Pending(m)'
             /\ \A b \in run'[g].batch : \A s \in Pending(m)' :
                  s < b => s \in run'[g].batch
             /\ run'[g].pc # "handle" => \A s \in run'[g].batch : given'[s] > 0
             /\ m = run'[g].mb
  <2> DEFINE B == run[g].batch
  <2>1. /\ g \in Reading /\ run'[g].batch = B /\ run'[g].mb = m
        /\ run'[g].pc # "handle" => run[g].pc # "handle"
    BY <1>1
  <2>2. B # {} /\ B \subseteq Seqs
    BY <2>1 DEF TypeOK, RunTypeOK, Reading
  <2>3. /\ B \subseteq Pending(m)
        /\ \A b \in B : \A s \in Pending(m) : s < b => s \in B
        /\ run[g].pc # "handle" => \A s \in B : given[s] > 0
    BY <1>1, <2>1 DEF BatchInv
  <2>4. Pending(m) \subseteq Pending(m)' /\ Pending(m)' \subseteq Pending(m) \cup {Len(log) + 1}
    BY <2>2, <2>3, LogGrewKeeps
  <2>5. \A s \in B : given'[s] = given[s] /\ s \in 1 .. Len(log)
    BY <2>2 DEF LogGrew, Seqs
  <2>6. Len(log) \in Nat
    BY LenProperties DEF TypeOK, DbTypeOK
  <2>7. \A b \in B : ~(Len(log) + 1 < b)
    BY <2>5, <2>6
  <2> HIDE DEF B
  <2> QED
    BY <2>1, <2>3, <2>4, <2>5, <2>7
<1>2. \A g \in Reading' : run[g].mb \in Mailbox
  BY DEF TypeOK, RunTypeOK, Reading
<1>3. ASSUME NEW g \in Reading'
      PROVE  (/\ run[g].batch \subseteq Pending(run[g].mb)
              /\ \A b \in run[g].batch : \A s \in Pending(run[g].mb) :
                   s < b => s \in run[g].batch
              /\ run[g].pc # "handle" => \A s \in run[g].batch : given[s] > 0)'
  <2>1. PICK m \in Mailbox : m = run[g].mb
    BY <1>2, <1>3
  <2>2. m = run'[g].mb
    BY <1>1, <1>3, <2>1
  <2> QED
    BY <1>1, <1>3, <2>1, <2>2
<1>4. NoMessageSkipped' /\ \A m \in Mailbox : cursor'[m] <= Len(log')
  BY LogGrewKeeps
<1> QED
  BY <1>3, <1>4 DEF BatchInv

\* The posts extend the log.
LEMMA PostGrows ==
  ASSUME TypeOK, NEW kind \in {"message", "outcome"}, NEW m \in Mailbox,
         NEW lane \in Lanes, NEW c \in Seqs \cup {0}, NEW always \in BOOLEAN,
         Post(kind, m, lane, c, always)
  PROVE  LogGrew
<1>1. m # None /\ None \notin Mailbox
  BY RuntimeAssumption
<1> QED
  BY <1>1, PostEffect DEF LogGrew

\* Events that are no message extend the log too.
LEMMA AppendGrows ==
  ASSUME TypeOK, NEW e \in Event, Append1(e), e.mb = None, UNCHANGED cursor
  PROVE  LogGrew
BY AppendExtends, RuntimeAssumption DEF LogGrew

\* A step that writes neither the log nor the cursors keeps the invariant when the
\* turns still reading read what they read, and a turn leaves "handle" only when the
\* handler was given its messages.
LEMMA QuietBatch ==
  ASSUME TypeOK, TypeOK', NoMessageSkipped, BatchInv, UNCHANGED <<log, cursor>>,
         \A s \in Seqs : given'[s] >= given[s],
         \A g \in Reading' :
           \/ /\ g \in Reading
              /\ run'[g].batch = run[g].batch /\ run'[g].mb = run[g].mb
              /\ \/ run'[g].pc # "handle" => run[g].pc # "handle"
                 \/ \A s \in run[g].batch : given'[s] > 0
           \/ /\ run'[g].pc = "handle" /\ run'[g].mb \in Mailbox
              /\ run'[g].batch = PendingMessages(run'[g].mb)
  PROVE  NoMessageSkipped' /\ BatchInv'
<1>0. /\ given \in [Seqs -> Nat] /\ given' \in [Seqs -> Nat] /\ Seqs' = Seqs
  BY LenProperties DEF TypeOK, DbTypeOK, Seqs
<1>1. \A m \in Mailbox : Mail(m)' = Mail(m) /\ Pending(m)' = Pending(m) /\ Mail(m) \subseteq Seqs
  BY DEF Mail, Pending, CursorOf, Seqs
<1>2. ASSUME NEW s \in Seqs, given[s] > 0
      PROVE  given'[s] > 0
  <2>1. given[s] \in Nat /\ given'[s] \in Nat /\ given'[s] >= given[s]
    BY <1>0, <1>2
  <2> QED
    BY <1>2, <2>1
<1>3. NoMessageSkipped'
  BY <1>1, <1>2 DEF NoMessageSkipped
<1>4. \A m \in Mailbox : cursor'[m] <= Len(log')
  BY DEF BatchInv
<1>5. ASSUME NEW g \in Reading', NEW m \in Mailbox, m = run'[g].mb
      PROVE  /\ run'[g].batch \subseteq Pending(m)
             /\ \A b \in run'[g].batch : \A s \in Pending(m) : s < b => s \in run'[g].batch
             /\ run'[g].pc # "handle" => \A s \in run'[g].batch : given'[s] > 0
  <2>1. CASE run'[g].pc = "handle" /\ run'[g].batch = PendingMessages(m)
    <3>1. PendingMessages(m) \subseteq Pending(m)
      BY DEF PendingMessages
    <3> QED
      BY <2>1, <3>1, PendingMessagesIsPrefix
  <2>2. CASE /\ g \in Reading
             /\ run'[g].batch = run[g].batch /\ run'[g].mb = run[g].mb
             /\ \/ run'[g].pc # "handle" => run[g].pc # "handle"
                \/ \A s \in run[g].batch : given'[s] > 0
    <3>1. run[g].batch \subseteq Seqs
      BY <2>2 DEF TypeOK, RunTypeOK, Reading
    <3>2. /\ run[g].batch \subseteq Pending(m)
          /\ \A b \in run[g].batch : \A s \in Pending(m) : s < b => s \in run[g].batch
          /\ run[g].pc # "handle" => \A s \in run[g].batch : given[s] > 0
      BY <1>5, <2>2 DEF BatchInv
    <3> QED
      BY <1>2, <2>2, <3>1, <3>2
  <2> QED
    BY <1>5, <2>1, <2>2
<1>6. ASSUME NEW g \in Reading'
      PROVE  (/\ run[g].batch \subseteq Pending(run[g].mb)
              /\ \A b \in run[g].batch : \A s \in Pending(run[g].mb) :
                   s < b => s \in run[g].batch
              /\ run[g].pc # "handle" => \A s \in run[g].batch : given[s] > 0)'
  <2>1. PICK m \in Mailbox : m = run'[g].mb
    BY <1>6 DEF TypeOK, RunTypeOK, Reading
  <2>2. Pending(m)' = Pending(m)
    BY <1>1
  <2> QED
    BY <1>5, <1>6, <2>1, <2>2
<1> QED
  BY <1>3, <1>4, <1>6 DEF BatchInv

\* A commit moves one cursor over the messages of the turn that makes it.
LEMMA CommitBatch ==
  ASSUME TypeOK, TypeOK', SlotInv, NoMessageSkipped, BatchInv,
         NEW g \in Gor, TurnCommit(g)
  PROVE  /\ NoMessageSkipped' /\ BatchInv'
         /\ \A m \in Mailbox : cursor'[m] >= cursor[m]
<1>1. PICK n \in Mailbox : n = run[g].mb
  BY DEF TurnCommit, TurnAt, TypeOK, RunTypeOK
<1>2. PICK B : B = run[g].batch
  OBVIOUS
<1>3. /\ run \in [Gor -> TurnRecord] /\ run[g].pc = "commit"
      /\ run' = [run EXCEPT ![g].pc = "exit"]
      /\ cursor' = [cursor EXCEPT ![n] = Newest(B)]
      /\ UNCHANGED <<log, given>>
  BY <1>1, <1>2 DEF TurnCommit, TurnAt, TurnGoto, TypeOK, RunTypeOK, TurnRecord, histVars
<1>4. g \in Reading /\ g \in Busy
  BY <1>3 DEF Reading, Busy
<1>5. /\ B \subseteq Pending(n) /\ B # {} /\ B \subseteq Seqs
      /\ \A b \in B : \A s \in Pending(n) : s < b => s \in B
      /\ \A s \in B : given[s] > 0
  BY <1>1, <1>2, <1>3, <1>4 DEF BatchInv, TypeOK, RunTypeOK, Reading
<1>6. Len(log) \in Nat /\ Seqs = 1 .. Len(log) /\ Seqs' = Seqs /\ Len(log') = Len(log)
  BY <1>3, LenProperties DEF TypeOK, DbTypeOK, Seqs
<1>7. Newest(B) \in B /\ \A t \in B : t <= Newest(B)
  <2>1. B \in SUBSET (0 .. Len(log)) /\ B # {}
    BY <1>5, <1>6
  <2> QED
    BY <1>6, <2>1, NewestExists
<1>8. /\ cursor \in [Mailbox -> Nat \cup {NoCursor}]
      /\ cursor'[n] = Newest(B) /\ \A m \in Mailbox \ {n} : cursor'[m] = cursor[m]
  BY <1>3 DEF TypeOK, DbTypeOK
<1>9. \A m \in Mailbox : Mail(m)' = Mail(m) /\ Mail(m) \subseteq Seqs
  BY <1>3 DEF Mail, Seqs
<1>10. Newest(B) > CursorOf(n) /\ Newest(B) \in 1 .. Len(log) /\ CursorOf(n) >= cursor[n]
       /\ CursorOf(n) \in Nat /\ cursor[n] \in Nat \cup {NoCursor}
  <2>1. Newest(B) \in Pending(n) /\ Newest(B) \in Seqs
    BY <1>5, <1>7
  <2>2. cursor[n] \in Nat \cup {NoCursor}
    BY <1>8
  <2>3. CursorOf(n) >= cursor[n] /\ CursorOf(n) \in Nat
    BY <2>2 DEF CursorOf, NoCursor
  <2> QED
    BY <1>6, <2>1, <2>2, <2>3 DEF Pending
<1>11. \A m \in Mailbox : cursor'[m] >= cursor[m]
  <2>1. cursor'[n] >= cursor[n]
    BY <1>8, <1>10 DEF NoCursor
  <2> QED
    BY <1>8, <2>1 DEF NoCursor
<1>12. \A m \in Mailbox : cursor'[m] <= Len(log')
  <2>1. cursor'[n] <= Len(log')
    BY <1>6, <1>8, <1>10
  <2> QED
    BY <1>6, <1>8, <2>1 DEF BatchInv
<1>13. ASSUME NEW m \in Mailbox, NEW s \in Mail(m)'
       PROVE  cursor'[m] # NoCursor /\ (s <= cursor'[m] => given'[s] > 0)
  <2>1. s \in Mail(m) /\ s \in Nat
    BY <1>6, <1>9, <1>13
  <2>2. CASE m # n
    BY <1>3, <1>8, <2>1, <2>2 DEF NoMessageSkipped
  <2>3. CASE m = n
    <3>1. cursor'[n] # NoCursor
      BY <1>8, <1>10 DEF NoCursor
    <3>2. ASSUME s <= Newest(B)
          PROVE  given[s] > 0
      <4>1. CASE s \in Pending(n)
        <5>1. s = Newest(B) \/ s < Newest(B)
          BY <1>10, <2>1, <3>2
        <5> QED
          BY <1>5, <1>7, <4>1, <5>1
      <4>2. CASE s \notin Pending(n)
        <5>1. s <= CursorOf(n)
          BY <1>10, <2>1, <2>3, <4>2 DEF Pending
        <5>2. cursor[n] # NoCursor
          BY <2>1, <2>3 DEF NoMessageSkipped
        <5>3. s <= cursor[n]
          BY <5>1, <5>2 DEF CursorOf
        <5> QED
          BY <2>1, <2>3, <5>3 DEF NoMessageSkipped
      <4> QED
        BY <4>1, <4>2
    <3> QED
      BY <1>3, <1>8, <2>3, <3>1, <3>2
  <2> QED
    BY <2>2, <2>3
<1>14. NoMessageSkipped'
  BY <1>13 DEF NoMessageSkipped
<1>15. ASSUME NEW h \in Reading'
       PROVE  (/\ run[h].batch \subseteq Pending(run[h].mb)
               /\ \A b \in run[h].batch : \A s \in Pending(run[h].mb) :
                    s < b => s \in run[h].batch
               /\ run[h].pc # "handle" => \A s \in run[h].batch : given[s] > 0)'
  <2>1. h # g /\ h \in Reading /\ run'[h] = run[h]
    BY <1>3, <1>15 DEF Reading
  <2>2. run[h].mb # n
    BY <1>1, <1>4, <2>1 DEF SlotInv, OneTurnPerMailbox, Busy, Reading
  <2>3. PICK m \in Mailbox : m = run[h].mb
    BY <2>1 DEF TypeOK, RunTypeOK, Reading
  <2>4. cursor'[m] = cursor[m]
    BY <1>8, <2>2, <2>3
  <2>5. Pending(m)' = Pending(m)
    BY <1>9, <2>4 DEF Pending, CursorOf
  <2>6. m = run'[h].mb
    BY <2>1, <2>3
  <2>7. /\ run[h].batch \subseteq Pending(m)
        /\ \A b \in run[h].batch : \A s \in Pending(m) : s < b => s \in run[h].batch
        /\ run[h].pc # "handle" => \A s \in run[h].batch : given[s] > 0
    BY <2>1, <2>3 DEF BatchInv
  <2> QED
    BY <1>3, <2>1, <2>5, <2>6, <2>7
<1> QED
  BY <1>11, <1>12, <1>14, <1>15 DEF BatchInv

\* What a step of a turn does to the turns that hold messages.
LEMMA ReadingAfterTurn ==
  ASSUME TypeOK, TypeOK', NEW g \in Gor, Turn(g), NEW h \in Reading'
  PROVE  \/ /\ h \in Reading
            /\ run'[h].batch = run[h].batch /\ run'[h].mb = run[h].mb
            /\ \/ run'[h].pc # "handle" => run[h].pc # "handle"
               \/ h = g /\ run[g].pc = "handle" /\ run'[g].pc \in {"error", "commit"}
         \/ /\ h = g /\ run[g].pc = "read"
            /\ run'[h].pc = "handle" /\ run'[h].mb \in Mailbox
            /\ run'[h].batch = PendingMessages(run'[h].mb)
<1>1. PICK u \in TurnRecord : run' = [run EXCEPT ![g] = u] /\
              \/ TurnStep(run[g], u) /\ UNCHANGED active
              \/ run[g].pc = "exit" /\ u = NoTurn /\ active' = active \ {run[g].mb}
  BY TurnEffect
<1>2. run \in [Gor -> TurnRecord]
  BY DEF TypeOK, RunTypeOK, TurnRecord
<1>3. CASE h # g
  BY <1>1, <1>2, <1>3 DEF Reading
<1>4. CASE h = g
  <2>1. run'[g] = u /\ u.pc \in {"handle", "error", "commit"}
    BY <1>1, <1>2, <1>4 DEF Reading
  <2>2. TurnStep(run[g], u)
    BY <1>1, <2>1 DEF NoTurn
  <2>3. run'[h].mb \in Mailbox
    BY <1>4, <2>1 DEF TypeOK, RunTypeOK
  <2> QED
    BY <1>4, <2>1, <2>2, <2>3 DEF TurnStep, Reading
<1> QED
  BY <1>3, <1>4

\* A step of a turn keeps the invariant.
LEMMA TurnBatch ==
  ASSUME TypeOK, TypeOK', SlotInv, NoMessageSkipped, BatchInv, NEW g \in Gor, Turn(g)
  PROVE  /\ NoMessageSkipped' /\ BatchInv'
         /\ UNCHANGED cursor \/ LogGrew \/ TurnCommit(g)
<1>a. given \in [Seqs -> Nat] /\ run \in [Gor -> TurnRecord]
  BY LenProperties DEF TypeOK, DbTypeOK, Seqs, RunTypeOK, TurnRecord
<1>b. \A s \in Seqs : given[s] >= given[s]
  BY <1>a
<1>1. CASE TurnRead(g) \/ TurnReadFails(g) \/ TurnCommitFails(g) \/ TurnExit(g)
  <2>1. UNCHANGED <<log, cursor, given>> /\ run[g].pc # "handle"
    BY <1>1 DEF TurnRead, TurnReadFails, TurnCommitFails, TurnExit, TurnAt, dbVars, histVars
  <2> QED
    BY <1>b, <2>1, ReadingAfterTurn, QuietBatch
<1>2. ASSUME NEW failed \in BOOLEAN, TurnReturn(g, failed)
      PROVE  NoMessageSkipped' /\ BatchInv' /\ UNCHANGED cursor
  <2>1. /\ UNCHANGED <<log, cursor>> /\ run[g].pc = "handle"
        /\ given' = [s \in DOMAIN given |->
             IF s \in run[g].batch /\ ~cancelled THEN given[s] + 1 ELSE given[s]]
        /\ run' = [run EXCEPT ![g].pc =
                     IF cancelled THEN "exit" ELSE IF failed THEN "error" ELSE "commit"]
    BY <1>2 DEF TurnReturn, TurnAt, TurnGoto, dbVars
  <2>2. \A s \in Seqs : given'[s] >= given[s]
    BY <1>a, <2>1
  <2>3. run'[g].pc # "exit" => ~cancelled
    BY <1>a, <2>1
  <2>4. run[g].batch \subseteq Seqs
    BY <1>a DEF TurnRecord
  <2>5. run'[g].pc # "exit" => \A s \in run[g].batch : given'[s] > 0
    BY <1>a, <2>1, <2>3, <2>4
  <2> QED
    BY <2>1, <2>2, <2>5, ReadingAfterTurn, QuietBatch
<1>3. ASSUME NEW c \in run[g].batch, NEW m \in Mailbox, NEW lane \in Lanes,
             TurnPost(g, m, lane, c)
      PROVE  NoMessageSkipped' /\ BatchInv' /\ LogGrew
  <2>1. LogGrew
    BY <1>3, PostCases, PostGrows
  <2>2. run'[g].pc = "handle"
    BY <1>a, <1>3 DEF TurnPost, CanAct, TurnAt, TurnRecord
  <2>3. run[g].pc = "handle"
    BY <1>3 DEF TurnPost, CanAct, TurnAt
  <2> QED
    BY <2>1, <2>2, <2>3, ReadingAfterTurn, LogGrewBatch
<1>4. CASE (\E c \in run[g].batch : TurnDispatch(g, c)) \/ TurnError(g)
  <2>1. PICK e \in Event : Append1(e) /\ e.mb = None
    BY <1>4, OtherAppends
  <2>2. UNCHANGED cursor
    BY <1>4 DEF TurnDispatch, BudgetEscalation, TurnError
  <2>3. LogGrew
    BY <2>1, <2>2, AppendGrows
  <2>4. run[g].pc # "read" /\ (run[g].pc = "handle" => run'[g].pc = "handle")
    BY <1>a, <1>4 DEF TurnDispatch, CanAct, TurnError, TurnAt, TurnRecord
  <2> QED
    BY <2>3, <2>4, ReadingAfterTurn, LogGrewBatch
<1>5. CASE TurnCommit(g)
  BY <1>5, CommitBatch
<1> QED
  BY <1>1, <1>2, <1>3, <1>4, <1>5 DEF Turn, TurnRead, TurnReadFails, TurnCommitFails,
     TurnExit, dbVars

\* Every step keeps the messages of the open turns in front of the cursors, and no
\* step moves a cursor back.
LEMMA BatchStep ==
  ASSUME TypeOK, SlotInv, NoMessageSkipped, BatchInv, [Next]_vars
  PROVE  /\ NoMessageSkipped' /\ BatchInv'
         /\ \A m \in Mailbox : cursor'[m] >= cursor[m]
<1>0. TypeOK' /\ run \in [Gor -> TurnRecord]
  BY TypeStep DEF TypeOK, RunTypeOK, TurnRecord
<1>a. /\ cursor \in [Mailbox -> Nat \cup {NoCursor}] /\ cursor' \in [Mailbox -> Nat \cup {NoCursor}]
      /\ given \in [Seqs -> Nat]
  BY <1>0, LenProperties DEF TypeOK, DbTypeOK, Seqs
<1>b. ASSUME UNCHANGED cursor \/ LogGrew
      PROVE  \A m \in Mailbox : cursor'[m] >= cursor[m]
  <2> TAKE m \in Mailbox
  <2>1. cursor'[m] = cursor[m] \/ cursor[m] = NoCursor
    BY <1>b DEF LogGrew
  <2>2. cursor[m] \in Nat \cup {NoCursor} /\ cursor'[m] \in Nat \cup {NoCursor}
    BY <1>a
  <2> QED
    BY <2>1, <2>2 DEF NoCursor
<1>c. \A s \in Seqs : given[s] >= given[s]
  BY <1>a
<1>1. ASSUME NEW g \in Gor, Turn(g)
      PROVE  /\ NoMessageSkipped' /\ BatchInv'
             /\ \A m \in Mailbox : cursor'[m] >= cursor[m]
  BY <1>0, <1>1, <1>b, TurnBatch, CommitBatch
<1>2. ASSUME UNCHANGED <<log, cursor, given>>, \A g \in Reading' : g \in Reading /\ run'[g] = run[g]
      PROVE  /\ NoMessageSkipped' /\ BatchInv'
             /\ \A m \in Mailbox : cursor'[m] >= cursor[m]
  BY <1>0, <1>2, <1>b, <1>c, QuietBatch
<1>3. CASE UNCHANGED <<dbVars, given>>
  <2>1. UNCHANGED <<log, cursor, given>>
    BY <1>3 DEF dbVars
  <2>2. CASE UNCHANGED run
    BY <1>2, <2>1, <2>2 DEF Reading
  <2>3. CASE FreshMemory
    <3>1. Reading' = {}
      BY <2>3 DEF FreshMemory, NoTurn, Reading
    <3> QED
      BY <1>2, <2>1, <3>1
  <2>4. CASE PassSchedule
    <3>1. PICK Started \in SUBSET Startable : \E who \in [Started -> Free] :
              /\ \A g \in Gor \ {who[p] : p \in Started} : run'[g] = run[g]
              /\ \A p \in Started :
                   run'[who[p]] = [pc |-> "read", batch |-> {}, effects |-> 0, mb |-> p.mb]
      BY <2>4, ScheduleEffect
    <3>2. PICK who \in [Started -> Free] :
              /\ \A g \in Gor \ {who[p] : p \in Started} : run'[g] = run[g]
              /\ \A p \in Started :
                   run'[who[p]] = [pc |-> "read", batch |-> {}, effects |-> 0, mb |-> p.mb]
      BY <3>1
    <3>3. ASSUME NEW p \in Started
          PROVE  run'[who[p]].pc = "read"
      <4>1. run'[who[p]] = [pc |-> "read", batch |-> {}, effects |-> 0, mb |-> p.mb]
        BY <3>2
      <4> QED
        BY <4>1
    <3>4. \A g \in Reading' : g \in Reading /\ run'[g] = run[g]
      BY <3>2, <3>3 DEF Reading
    <3> QED
      BY <1>2, <2>1, <3>4
  <2> QED
    BY <1>1, <2>2, <2>3, <2>4, RunFrame
<1>4. ASSUME LogGrew, UNCHANGED run
      PROVE  /\ NoMessageSkipped' /\ BatchInv'
             /\ \A m \in Mailbox : cursor'[m] >= cursor[m]
  <2>1. \A g \in Reading' : g \in Reading /\ run'[g] = run[g]
    BY <1>4 DEF Reading
  <2> QED
    BY <1>0, <1>b, <1>4, <2>1, LogGrewBatch
<1>5. CASE \E m \in Mailbox, lane \in Lanes : OutsidePost(m, lane)
  <2>1. LogGrew
    BY <1>5, PostCases, PostGrows
  <2> QED
    BY <1>4, <1>5, <2>1 DEF OutsidePost
<1>6. ASSUME NEW o \in owed, OutcomePost(o)
      PROVE  /\ NoMessageSkipped' /\ BatchInv'
             /\ \A m \in Mailbox : cursor'[m] >= cursor[m]
  <2>1. LogGrew
    <3>1. /\ o[1] \in Seqs /\ o[2] \in Mailbox /\ "normal" \in Lanes
          /\ Post("outcome", o[2], "normal", o[1], TRUE)
      BY <1>6, PostCases
    <3> QED
      BY <3>1, PostGrows
  <2> QED
    BY <1>4, <1>6, <2>1 DEF OutcomePost
<1> QED
  BY <1>1, <1>3, <1>5, <1>6, DbFrame DEF Turn

\* The messages of an open turn start right after the cursor and leave none out
\* (mailbox.go: PendingMessages; runtime.go: runTurn); with it no message is skipped.
THEOREM BatchesCorrect == Spec => [](NoMessageSkipped /\ BatchInv)
<1>1. Init => NoMessageSkipped /\ BatchInv
  <2> SUFFICES ASSUME Init PROVE NoMessageSkipped /\ BatchInv
    OBVIOUS
  <2>1. /\ log = <<>> /\ cursor = [m \in Mailbox |-> NoCursor] /\ Seqs = {}
        /\ run = [g \in Gor |-> NoTurn] /\ NoTurn.pc = "free"
    BY DEF Init, Seqs, NoTurn
  <2>2. Reading = {} /\ \A m \in Mailbox : Mail(m) = {}
    BY <2>1 DEF Reading, Mail
  <2>3. Len(log) = 0
    BY <2>1
  <2> QED
    BY <2>1, <2>2, <2>3 DEF NoMessageSkipped, BatchInv, NoCursor
<1>2. TypeOK /\ SlotInv /\ NoMessageSkipped /\ BatchInv /\ [Next]_vars
        => (NoMessageSkipped /\ BatchInv)'
  BY BatchStep
<1> QED
  BY <1>1, <1>2, SlotsCorrect, PTL DEF Spec

\* No message is skipped: a cursor passes a message only once a handler that was not
\* interrupted has been given it, and every message is in sight of the scheduler's query
\* (mailbox.go: Post; runtime.go: runTurn).
THEOREM NothingSkipped == Spec => []NoMessageSkipped
BY BatchesCorrect, PTL

\* Cursors never move back, although CommitCursor sets them unconditionally.
THEOREM CursorsAdvance == Spec => CursorsOnlyAdvance
<1>1. /\ TypeOK /\ SlotInv /\ NoMessageSkipped /\ BatchInv /\ [Next]_vars
      => [\A m \in Mailbox : cursor'[m] >= cursor[m]]_cursor
  BY BatchStep
<1> QED
  BY <1>1, SlotsCorrect, BatchesCorrect, PTL DEF Spec, CursorsOnlyAdvance
=============================================================================
