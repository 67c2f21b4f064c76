------------------------ MODULE RuntimeDeliveryProofs ------------------------
(***************************************************************************)
(* What the event loop delivers, for every instance of Runtime: chains of   *)
(* messages stay within the hop budget, no message is given twice, no       *)
(* wake-up is lost, and the loop implements the abstract delivery.          *)
(***************************************************************************)
EXTENDS RuntimeProofs

(* The hop budget *)

\* An append that respects the budget keeps it: what was there stays, and what is owed
\* stays an execution.started.
LEMMA HopGrows ==
  ASSUME TypeOK, HopInv, NEW e, Len(log') = Len(log) + 1,
         Seqs' = Seqs \cup {Len(log) + 1},
         \A s \in Seqs : log'[s] = log[s], log'[Len(log) + 1] = e,
         e.kind \in {"message", "started"} => e.hop <= MaxHops,
         e.kind = "outcome" => e.hop <= MaxHops + 1,
         \A o \in owed' : o \in owed \/ (o[1] = Len(log) + 1 /\ e.kind = "started")
  PROVE  HopInv'
<1>1. HopsWithinBudget'
  BY DEF HopInv, HopsWithinBudget
<1>2. \A o \in owed : o[1] \in Seqs
  BY DEF TypeOK, DbTypeOK
<1>3. \A o \in owed' : log'[o[1]].kind = "started"
  BY <1>2 DEF HopInv
<1> QED
  BY <1>1, <1>3 DEF HopInv

\* A Post of a known cause respects the budget, an outcome by what it is about.
LEMMA HopPost ==
  ASSUME TypeOK, HopInv, NEW kind \in {"message", "outcome"}, NEW m \in Mailbox,
         NEW lane \in Lanes, NEW c \in Seqs \cup {0}, NEW always \in BOOLEAN,
         Post(kind, m, lane, c, always), owed' \subseteq owed,
         kind = "message" => ~always,
         kind = "outcome" => c # 0 /\ log[c].kind = "started"
  PROVE  HopInv'
<1> DEFINE e == log'[Len(log) + 1]
<1>1. /\ Len(log') = Len(log) + 1 /\ Seqs' = Seqs \cup {Len(log) + 1}
      /\ \A s \in Seqs : log'[s] = log[s]
      /\ \/ e.kind = "escalation"
         \/ /\ e.kind = kind /\ e.hop = HopAfter(c)
            /\ always \/ c = 0 \/ ~OverBudget(log[c].hop)
  <2>1. /\ Len(log') = Len(log) + 1 /\ Seqs' = Seqs \cup {Len(log) + 1}
        /\ \A s \in Seqs : log'[s] = log[s]
    BY PostEffect
  <2>2. \/ e.kind = "escalation"
        \/ /\ e.kind = kind /\ e.hop = HopAfter(c)
           /\ always \/ c = 0 \/ ~OverBudget(log[c].hop)
    <3>1. \/ log'[Len(log) + 1].kind = "escalation"
          \/ /\ log'[Len(log) + 1].kind = kind /\ log'[Len(log) + 1].hop = HopAfter(c)
             /\ always \/ c = 0 \/ ~OverBudget(log[c].hop)
      BY PostEffect, SMTT(30)
    <3> QED
      BY <3>1
  <2> QED
    BY <2>1, <2>2
<1>2. MaxHops \in Nat
  BY RuntimeAssumption
<1>3. c # 0 => c \in Seqs /\ log[c].hop \in Nat
  <2>1. c # 0 => log[c] \in Event
    BY LenProperties DEF TypeOK, DbTypeOK, Seqs
  <2> QED
    BY <2>1 DEF Event
<1>4. e.kind = "message" => e.hop <= MaxHops
  BY <1>1, <1>2, <1>3 DEF HopAfter, OverBudget
<1>5. e.kind = "outcome" => e.hop <= MaxHops + 1
  <2>1. kind = "outcome" => log[c].hop <= MaxHops
    BY <1>3 DEF HopInv, HopsWithinBudget
  <2> QED
    BY <1>1, <1>2, <1>3, <2>1 DEF HopAfter
<1>6. e.kind # "started"
  BY <1>1
<1> HIDE DEF e
<1> QED
  BY <1>1, <1>4, <1>5, <1>6, HopGrows DEF e

\* Every step keeps the budget.
LEMMA HopStep ==
  ASSUME TypeOK, HopInv, [Next]_vars
  PROVE  HopInv'
<1>1. CASE UNCHANGED <<log, owed>>
  BY <1>1 DEF HopInv, HopsWithinBudget, Seqs
<1>2. CASE \E m \in Mailbox, lane \in Lanes : OutsidePost(m, lane)
  <2>1. UNCHANGED owed
    BY <1>2 DEF OutsidePost
  <2> QED
    BY <1>2, <2>1, PostCases, HopPost
<1>3. ASSUME NEW o \in owed, OutcomePost(o)
      PROVE  HopInv'
  <2>1. /\ o[1] \in Seqs /\ o[2] \in Mailbox /\ "normal" \in Lanes
        /\ Post("outcome", o[2], "normal", o[1], TRUE)
    BY <1>3, PostCases
  <2>2. owed' \subseteq owed
    BY <1>3 DEF OutcomePost
  <2>3. o[1] # 0 /\ log[o[1]].kind = "started"
    BY <2>1 DEF HopInv, Seqs
  <2> QED
    BY <2>1, <2>2, <2>3, HopPost
<1>4. ASSUME NEW g \in Gor, NEW c \in run[g].batch, NEW m \in Mailbox, NEW lane \in Lanes,
             TurnPost(g, m, lane, c)
      PROVE  HopInv'
  <2>1. UNCHANGED owed
    BY <1>4 DEF TurnPost
  <2> QED
    BY <1>4, <2>1, PostCases, HopPost
<1>5. ASSUME NEW g \in Gor, NEW c \in run[g].batch, TurnDispatch(g, c)
      PROVE  HopInv'
  <2>1. PICK e \in Event : /\ Append1(e)
                           /\ \/ e.kind = "escalation" /\ UNCHANGED owed
                              \/ /\ e.kind = "started" /\ e.hop <= MaxHops
                                 /\ owed' = owed \cup {<<Len(log) + 1, run[g].mb>>}
    BY <1>5, OtherAppends
  <2> QED
    BY <2>1, AppendExtends, HopGrows
<1>6. ASSUME NEW g \in Gor, TurnError(g)
      PROVE  HopInv'
  <2>1. PICK e \in Event : Append1(e) /\ e.kind = "error"
    BY <1>6, OtherAppends
  <2>2. UNCHANGED owed
    BY <1>6 DEF TurnError
  <2> QED
    BY <2>1, <2>2, AppendExtends, HopGrows
<1>7. ASSUME NEW g \in Gor, \/ \E failed \in BOOLEAN : TurnReturn(g, failed)
                            \/ TurnCommit(g)
      PROVE  UNCHANGED <<log, owed>>
  BY <1>7 DEF TurnReturn, TurnCommit, dbVars
<1> QED
  BY <1>1, <1>2, <1>3, <1>4, <1>5, <1>6, <1>7, DbFrame DEF dbVars

\* Nothing stands past the hop budget but an outcome, one hop past it, and from that
\* outcome nothing follows (mailbox.go: Post, OverBudget; workerpool.go: Dispatch).
THEOREM HopsBounded == Spec => []HopsWithinBudget
<1>1. Init => HopInv
  BY DEF Init, HopInv, HopsWithinBudget, Seqs
<1>2. TypeOK /\ HopInv /\ [Next]_vars => HopInv'
  BY HopStep
<1>3. HopInv => HopsWithinBudget
  BY DEF HopInv
<1> QED
  BY <1>1, <1>2, <1>3, TypeCorrect, PTL DEF Spec

-----------------------------------------------------------------------------
(* Nothing is given twice *)

\* Only the calls of its life change whether the process runs, and nothing resets the
\* history of shutdowns and errors.
LEMMA LifeFrame ==
  ASSUME TypeOK, [Next]_vars
  PROVE  /\ Life \/ UNCHANGED <<procVars, stops>>
         /\ stops' = stops \/ stops' = stops + 1
         /\ faults' = faults \/ faults' = faults + 1
<1> USE DEF procVars, histVars
<1>1. CASE UNCHANGED vars
  BY <1>1 DEF vars
<1>2. CASE Publish \/ Scheduling
  BY <1>2 DEF Publish, Scheduling, LoopKick, LoopWake, LoopTicker, LoopStop, PassBegin,
              PassQuery, PassQueryFails, PassSchedule, PassCheck, KickAfterTurn, TaskDone
<1>3. CASE Life
  BY <1>3 DEF Life, Start, Stop, Cancel, Exit, Crash
<1>4. CASE Environment
  BY <1>4 DEF Environment, OutsidePost, OutcomePost
<1>5. CASE \E g \in Gor : Turn(g)
  BY <1>5 DEF Turn, TurnRead, TurnReadFails, TurnPost, TurnDispatch, TurnReturn, TurnError,
              TurnCommit, TurnCommitFails, TurnExit
<1> QED
  BY <1>1, <1>2, <1>3, <1>4, <1>5 DEF Next

\* What a Start, an Exit or a Crash leaves of the turns.
LEMMA FreshTurns ==
  ASSUME FreshMemory
  PROVE  Busy' = {} /\ pass' = "off" /\ cancelled' = FALSE
BY DEF FreshMemory, Busy, NoTurn

\* Every step keeps a process that is down at rest.
LEMMA LifeStep ==
  ASSUME TypeOK, LifeInv, [Next]_vars
  PROVE  LifeInv'
<1>0. stops \in Nat /\ up \in BOOLEAN /\ stopped \in BOOLEAN /\ cancelled \in BOOLEAN
  BY DEF TypeOK, ProcessTypeOK
<1>1. CASE Start
  BY <1>1, FreshTurns DEF Start, LifeInv
<1>2. CASE Stop
  BY <1>0, <1>2 DEF Stop, LifeInv, Busy, schedVars
<1>3. CASE Cancel
  BY <1>3 DEF Cancel, LifeInv, Busy, histVars, schedVars
<1>4. CASE Exit
  BY <1>4, FreshTurns DEF Exit, Down, LifeInv, histVars
<1>5. CASE Crash
  BY <1>0, <1>5, FreshTurns DEF Crash, Down, LifeInv
<1>6. CASE UNCHANGED <<procVars, stops>>
  <2>1. ASSUME ~up
        PROVE  pass' = "off" /\ Busy' = {}
    <3>1. stopped /\ pass = "off" /\ Busy = {}
      BY <2>1 DEF LifeInv
    <3>2. \A g \in Gor : run[g].pc = "free"
      BY <3>1 DEF Busy
    <3>3. ~PassBegin /\ ~PassQuery /\ ~PassQueryFails /\ ~PassSchedule /\ ~PassCheck
      BY <3>1 DEF PassBegin, PassQuery, PassQueryFails, PassSchedule, PassCheck
    <3>4. \A g \in Gor : ~Turn(g) /\ ~TurnExit(g)
      BY <3>2, TurnEffect DEF TurnExit, TurnAt
    <3>5. pass' = "off"
      BY <3>1, <3>3, <3>4, SchedulerFrame, FreshTurns DEF schedVars, Kick
    <3>6. Busy' = {}
      BY <3>1, <3>3, <3>4, RunFrame, FreshTurns DEF Busy
    <3> QED
      BY <3>5, <3>6
  <2> QED
    BY <1>6, <2>1 DEF LifeInv, procVars
<1> QED
  BY <1>1, <1>2, <1>3, <1>4, <1>5, <1>6, LifeFrame DEF Life

\* What was given once and is held by a turn stays so while the turns that are about to
\* commit go on, and what is new was given to nobody.
LEMMA HeldKept ==
  ASSUME GivenOnce, HeldUntilCommit,
         \A s \in Seqs' : (s \in Seqs /\ given'[s] = given[s]) \/ given'[s] = 0,
         \A m \in Mailbox : \A s \in Pending(m)' : given'[s] > 0 => s \in Pending(m),
         \A g \in Gor : run[g].pc \in {"error", "commit"} =>
            /\ run'[g].pc \in {"error", "commit"}
            /\ run'[g].mb = run[g].mb /\ run'[g].batch = run[g].batch
  PROVE  GivenOnce' /\ HeldUntilCommit'
<1>1. GivenOnce'
  BY DEF GivenOnce
<1>2. ASSUME NEW m \in Mailbox, NEW s \in Pending(m)', given'[s] > 0
      PROVE  \E g \in Gor : Holds(g, m, s)'
  <2>1. s \in Pending(m) /\ s \in Seqs'
    BY <1>2 DEF Pending, Mail
  <2>2. given[s] > 0
    BY <1>2, <2>1
  <2>3. PICK g \in Gor : Holds(g, m, s)
    BY <2>1, <2>2 DEF HeldUntilCommit
  <2> QED
    BY <2>3 DEF Holds
<1> QED
  BY <1>1, <1>2 DEF HeldUntilCommit

\* A step that grows the log, or writes neither the log nor a cursor, hands no message out.
LEMMA HeldGrows ==
  ASSUME TypeOK, TypeOK', NoMessageSkipped, BatchInv, GivenOnce, HeldUntilCommit,
         \/ LogGrew /\ given'[Len(log) + 1] = 0
         \/ UNCHANGED <<log, cursor, given>>,
         \A g \in Gor : run[g].pc \in {"error", "commit"} =>
            /\ run'[g].pc \in {"error", "commit"}
            /\ run'[g].mb = run[g].mb /\ run'[g].batch = run[g].batch
  PROVE  GivenOnce' /\ HeldUntilCommit'
<1>1. CASE LogGrew /\ given'[Len(log) + 1] = 0
  <2>1. \A s \in Seqs' : (s \in Seqs /\ given'[s] = given[s]) \/ given'[s] = 0
    BY <1>1 DEF LogGrew
  <2>2. ASSUME NEW m \in Mailbox, NEW s \in Pending(m)', given'[s] > 0
        PROVE  s \in Pending(m)
    <3>1. s \in Seqs' /\ log'[s].mb = m
      BY <2>2 DEF Pending, Mail
    <3>2. s # Len(log) + 1
      BY <1>1, <2>2
    <3>3. s \in Mail(m)
      BY <1>1, <3>1, <3>2 DEF LogGrew, Mail
    <3>4. cursor'[m] = cursor[m]
      BY <1>1, <3>3 DEF LogGrew, NoMessageSkipped
    <3>5. CursorOf(m)' = CursorOf(m)
      BY <3>4 DEF CursorOf
    <3> QED
      BY <3>3, <3>5 DEF Pending
  <2> QED
    BY <2>1, <2>2, HeldKept
<1>2. CASE UNCHANGED <<log, cursor, given>>
  <2>1. \A m \in Mailbox : Pending(m)' = Pending(m)
    BY <1>2 DEF Pending, Mail, CursorOf, Seqs
  <2>2. \A s \in Seqs' : s \in Seqs /\ given'[s] = given[s]
    BY <1>2 DEF Seqs
  <2> QED
    BY <2>1, <2>2, HeldKept
<1> QED
  BY <1>1, <1>2

\* A handler that returns was given messages no other turn had been given.
LEMMA HeldReturn ==
  ASSUME TypeOK, SlotInv, BatchInv, ~cancelled, GivenOnce, HeldUntilCommit,
         NEW g \in Gor, NEW failed \in BOOLEAN, TurnReturn(g, failed)
  PROVE  GivenOnce' /\ HeldUntilCommit'
<1>1. PICK n \in Mailbox : n = run[g].mb
  BY DEF TurnReturn, TurnAt, TypeOK, RunTypeOK
<1>2. PICK B : B = run[g].batch
  OBVIOUS
<1>3. /\ UNCHANGED <<log, cursor>> /\ run[g].pc = "handle"
      /\ given' = [s \in DOMAIN given |-> IF s \in B THEN given[s] + 1 ELSE given[s]]
      /\ run' = [run EXCEPT ![g].pc = IF failed THEN "error" ELSE "commit"]
  BY <1>2 DEF TurnReturn, TurnAt, TurnGoto, dbVars
<1>4. /\ run \in [Gor -> TurnRecord] /\ given \in [Seqs -> Nat]
      /\ Seqs' = Seqs
  BY <1>3, LenProperties DEF TypeOK, DbTypeOK, RunTypeOK, TurnRecord, Seqs
<1>5. \A m \in Mailbox : Pending(m)' = Pending(m) /\ Pending(m) \subseteq Seqs
  BY <1>3 DEF Pending, Mail, CursorOf, Seqs
<1>6. g \in Reading /\ g \in Busy
  BY <1>3 DEF Reading, Busy
<1>7. B \subseteq Pending(n)
  BY <1>1, <1>2, <1>6 DEF BatchInv
<1>8. ASSUME NEW s \in B
      PROVE  given[s] = 0
  <2>1. s \in Pending(n) /\ s \in Seqs
    BY <1>5, <1>7
  <2>2. ASSUME given[s] > 0
        PROVE  FALSE
    <3>1. PICK h \in Gor : Holds(h, n, s)
      BY <2>1, <2>2 DEF HeldUntilCommit
    <3>2. h \in Busy /\ run[h].mb = run[g].mb /\ run[h].pc # "handle"
      BY <1>1, <3>1 DEF Holds, Busy
    <3> QED
      BY <1>3, <1>6, <3>2 DEF SlotInv, OneTurnPerMailbox
  <2> QED
    BY <1>4, <2>1, <2>2
<1>9. GivenOnce'
  BY <1>3, <1>4, <1>8 DEF GivenOnce
<1>10. ASSUME NEW m \in Mailbox, NEW s \in Pending(m)', given'[s] > 0
       PROVE  \E h \in Gor : Holds(h, m, s)'
  <2>0. s \in Pending(m) /\ s \in Seqs
    BY <1>5
  <2>1. CASE s \in B
    <3>1. m = n
      BY <1>7, <2>0, <2>1 DEF Pending, Mail
    <3>2. /\ run'[g].pc \in {"error", "commit"}
          /\ run'[g].mb = run[g].mb /\ run'[g].batch = run[g].batch
      BY <1>3, <1>4 DEF TurnRecord
    <3> QED
      BY <1>1, <1>2, <2>1, <3>1, <3>2 DEF Holds
  <2>2. CASE s \notin B
    <3>1. given[s] > 0
      BY <1>3, <1>4, <1>10, <2>0, <2>2
    <3>2. PICK h \in Gor : Holds(h, m, s)
      BY <2>0, <3>1 DEF HeldUntilCommit
    <3>3. h # g
      BY <1>3, <3>2 DEF Holds
    <3>4. run'[h] = run[h]
      BY <1>3, <3>3
    <3> QED
      BY <3>2, <3>4 DEF Holds
  <2> QED
    BY <2>1, <2>2
<1> QED
  BY <1>9, <1>10 DEF HeldUntilCommit

\* A commit passes the messages its turn holds; what others hold stays.
LEMMA HeldCommit ==
  ASSUME TypeOK, SlotInv, BatchInv, GivenOnce, HeldUntilCommit,
         NEW g \in Gor, TurnCommit(g)
  PROVE  GivenOnce' /\ HeldUntilCommit'
<1>1. PICK n \in Mailbox : n = run[g].mb
  BY DEF TurnCommit, TurnAt, TypeOK, RunTypeOK
<1>2. PICK B : B = run[g].batch
  OBVIOUS
<1>3. /\ run \in [Gor -> TurnRecord] /\ run[g].pc = "commit"
      /\ run' = [run EXCEPT ![g].pc = "exit"]
      /\ cursor' = [cursor EXCEPT ![n] = Newest(B)]
      /\ UNCHANGED <<log, given>>
  BY <1>1, <1>2 DEF TurnCommit, TurnAt, TurnGoto, TypeOK, RunTypeOK, TurnRecord, histVars
<1>4. g \in Reading /\ g \in Busy
  BY <1>3 DEF Reading, Busy
<1>5. B # {} /\ B \in SUBSET (0 .. Len(log)) /\ Len(log) \in Nat /\ B \subseteq Pending(n)
  <2>1. B # {} /\ B \subseteq Seqs
    BY <1>2, <1>3 DEF TypeOK, RunTypeOK
  <2>2. Len(log) \in Nat
    BY LenProperties DEF TypeOK, DbTypeOK
  <2> QED
    BY <1>1, <1>2, <1>4, <2>1, <2>2 DEF Seqs, BatchInv
<1>6. Newest(B) \in B /\ \A t \in B : t <= Newest(B)
  BY <1>5, NewestExists
<1>7. Seqs' = Seqs /\ \A m \in Mailbox : Mail(m)' = Mail(m) /\ Mail(m) \subseteq Nat
  BY <1>3, <1>5 DEF Mail, Seqs
<1>8. /\ cursor \in [Mailbox -> Nat \cup {NoCursor}]
      /\ Newest(B) \in Nat /\ CursorOf(n) \in Nat /\ Newest(B) > CursorOf(n)
  <2>1. cursor \in [Mailbox -> Nat \cup {NoCursor}]
    BY DEF TypeOK, DbTypeOK
  <2>2. Newest(B) \in Pending(n) /\ Newest(B) \in Nat
    <3>1. Newest(B) \in 0 .. Len(log) /\ Len(log) \in Nat /\ Newest(B) \in Pending(n)
      BY ONLY <1>5, <1>6
    <3> QED
      BY <3>1
  <2>3. CursorOf(n) \in Nat
    BY <2>1 DEF CursorOf, NoCursor
  <2> QED
    BY <2>1, <2>2, <2>3 DEF Pending
<1>9. ASSUME NEW m \in Mailbox, NEW s \in Pending(m)', given'[s] > 0
      PROVE  \E h \in Gor : Holds(h, m, s)'
  <2>1. given[s] > 0 /\ s \in Mail(m) /\ s \in Nat
    BY <1>3, <1>7, <1>9 DEF Pending
  <2>2. CASE m # n
    <3>1. CursorOf(m)' = CursorOf(m)
      BY <1>3, <1>8, <2>2 DEF CursorOf
    <3>2. s \in Pending(m)
      BY <1>7, <1>9, <3>1 DEF Pending
    <3>3. PICK h \in Gor : Holds(h, m, s)
      BY <2>1, <3>2 DEF HeldUntilCommit
    <3>4. run'[h] = run[h]
      BY <1>1, <1>3, <2>2, <3>3 DEF Holds
    <3> QED
      BY <3>3, <3>4 DEF Holds
  <2>3. CASE m = n
    <3>1. s > Newest(B)
      <4>1. cursor'[n] = Newest(B) /\ Newest(B) # NoCursor
        BY <1>3, <1>8 DEF NoCursor
      <4> QED
        BY <1>9, <2>3, <4>1 DEF Pending, CursorOf
    <3>2. s \in Pending(n)
      BY <1>8, <2>1, <2>3, <3>1 DEF Pending
    <3>3. PICK h \in Gor : Holds(h, n, s)
      BY <2>1, <3>2 DEF HeldUntilCommit
    <3>4. h = g
      BY <1>1, <1>4, <3>3 DEF Holds, Busy, SlotInv, OneTurnPerMailbox
    <3>5. s <= Newest(B)
      BY <1>2, <1>6, <3>3, <3>4 DEF Holds
    <3> QED
      BY <1>8, <2>1, <3>1, <3>5
  <2> QED
    BY <2>2, <2>3
<1>10. GivenOnce'
  BY <1>3, <1>7 DEF GivenOnce
<1> QED
  BY <1>9, <1>10 DEF HeldUntilCommit

\* A step of a turn moves a turn that is about to commit only towards its commit.
LEMMA HeldTurn ==
  ASSUME TypeOK, TypeOK', SlotInv, NoMessageSkipped, BatchInv, ~cancelled,
         faults' = faults, GivenOnce, HeldUntilCommit, NEW g \in Gor, Turn(g)
  PROVE  GivenOnce' /\ HeldUntilCommit'
<1> DEFINE Kept == \A h \in Gor : run[h].pc \in {"error", "commit"} =>
                     /\ run'[h].pc \in {"error", "commit"}
                     /\ run'[h].mb = run[h].mb /\ run'[h].batch = run[h].batch
<1>1. run \in [Gor -> TurnRecord] /\ faults \in Nat
  BY DEF TypeOK, RunTypeOK, TurnRecord, ProcessTypeOK
<1>2. ASSUME TurnRead(g) \/ TurnExit(g)
      PROVE  GivenOnce' /\ HeldUntilCommit'
  <2>1. UNCHANGED <<log, cursor, given>>
    BY <1>2 DEF TurnRead, TurnExit, dbVars, histVars
  <2>2. Kept
    BY <1>1, <1>2 DEF TurnRead, TurnExit, TurnAt
  <2> QED
    BY <2>1, <2>2, HeldGrows
<1>3. ~TurnReadFails(g) /\ ~TurnCommitFails(g)
  BY <1>1 DEF TurnReadFails, TurnCommitFails
<1>4. ASSUME NEW c \in run[g].batch, NEW m \in Mailbox, NEW lane \in Lanes,
             TurnPost(g, m, lane, c)
      PROVE  GivenOnce' /\ HeldUntilCommit'
  <2>1. c \in Seqs /\ Post("message", m, lane, c, FALSE)
    BY <1>4, PostCases
  <2>2. LogGrew /\ given'[Len(log) + 1] = 0
    BY <2>1, PostGrows, PostEffect
  <2>3. Kept
    BY <1>1, <1>4 DEF TurnPost, CanAct, TurnAt
  <2> QED
    BY <2>2, <2>3, HeldGrows
<1>5. ASSUME (\E c \in run[g].batch : TurnDispatch(g, c)) \/ TurnError(g)
      PROVE  GivenOnce' /\ HeldUntilCommit'
  <2>1. PICK e \in Event : Append1(e) /\ e.mb = None
    BY <1>5, OtherAppends
  <2>2. UNCHANGED cursor
    BY <1>5 DEF TurnDispatch, BudgetEscalation, TurnError
  <2>3. LogGrew /\ given'[Len(log) + 1] = 0
    BY <2>1, <2>2, AppendGrows, AppendExtends
  <2>4. Kept
    <3>1. CASE \E c \in run[g].batch : TurnDispatch(g, c)
      BY <1>1, <3>1 DEF TurnDispatch, CanAct, TurnAt
    <3>2. CASE TurnError(g)
      <4>1. run' = [run EXCEPT ![g].pc = "commit"]
        BY <3>2 DEF TurnError, TurnGoto
      <4> QED
        BY <1>1, <4>1 DEF TurnRecord
    <3> QED
      BY <1>5, <3>1, <3>2
  <2> QED
    BY <2>3, <2>4, HeldGrows
<1> HIDE DEF Kept
<1> QED
  BY <1>2, <1>3, <1>4, <1>5, HeldReturn, HeldCommit DEF Turn

\* Every step keeps what was given given once, until a shutdown or an error.
LEMMA RepeatStep ==
  ASSUME TypeOK, SlotInv, NoMessageSkipped, BatchInv, LifeInv, RepeatInv, [Next]_vars
  PROVE  RepeatInv'
<1> SUFFICES ASSUME stops' = 0, faults' = 0
             PROVE  GivenOnce' /\ HeldUntilCommit'
  BY DEF RepeatInv
<1>1. TypeOK' /\ run \in [Gor -> TurnRecord]
  BY TypeStep DEF TypeOK, RunTypeOK, TurnRecord
<1>2. stops = 0 /\ faults = 0 /\ ~cancelled /\ (up => ~stopped)
  <2>1. stops \in Nat /\ faults \in Nat
    BY DEF TypeOK, ProcessTypeOK
  <2> QED
    BY <2>1, LifeFrame DEF LifeInv
<1>3. GivenOnce /\ HeldUntilCommit
  BY <1>2 DEF RepeatInv
<1>4. ASSUME NEW g \in Gor, Turn(g)
      PROVE  GivenOnce' /\ HeldUntilCommit'
  BY <1>1, <1>2, <1>3, <1>4, HeldTurn
<1>5. ASSUME UNCHANGED <<log, cursor, given>>, \A g \in Busy : run'[g] = run[g]
      PROVE  GivenOnce' /\ HeldUntilCommit'
  <2>1. \A g \in Gor : run[g].pc \in {"error", "commit"} => run'[g] = run[g]
    BY <1>5 DEF Busy
  <2> QED
    BY <1>1, <1>3, <1>5, <2>1, HeldGrows
<1>6. CASE UNCHANGED <<dbVars, given>> /\ (UNCHANGED run \/ PassSchedule)
  <2>1. CASE UNCHANGED run
    BY <1>5, <1>6, <2>1 DEF dbVars
  <2>2. CASE PassSchedule
    <3>1. PICK Started \in SUBSET Startable : \E who \in [Started -> Free] :
              \A g \in Gor \ {who[p] : p \in Started} : run'[g] = run[g]
      BY <2>2, ScheduleEffect
    <3>2. \A g \in Busy : run'[g] = run[g]
      BY <3>1 DEF Busy, Free
    <3> QED
      BY <1>5, <1>6, <3>2 DEF dbVars
  <2> QED
    BY <1>6, <2>1, <2>2
<1>7. CASE FreshMemory /\ Life
  <2>1. Start
    <3>1. stops \in Nat /\ cancelled' = FALSE
      BY <1>7 DEF TypeOK, ProcessTypeOK, FreshMemory
    <3> QED
      BY <1>2, <1>7, <3>1 DEF Life, Stop, Cancel, Exit, Crash
  <2>2. Busy = {} /\ UNCHANGED <<log, cursor, given>>
    BY <2>1 DEF Start, LifeInv, dbVars, histVars
  <2> QED
    BY <1>5, <2>2
<1>8. ASSUME LogGrew, given'[Len(log) + 1] = 0, UNCHANGED run
      PROVE  GivenOnce' /\ HeldUntilCommit'
  BY <1>1, <1>3, <1>8, HeldGrows
<1>9. CASE \E m \in Mailbox, lane \in Lanes : OutsidePost(m, lane)
  <2>1. LogGrew /\ given'[Len(log) + 1] = 0
    BY <1>9, PostCases, PostGrows, PostEffect
  <2> QED
    BY <1>8, <1>9, <2>1 DEF OutsidePost
<1>10. ASSUME NEW o \in owed, OutcomePost(o)
       PROVE  GivenOnce' /\ HeldUntilCommit'
  <2>1. /\ o[1] \in Seqs /\ o[2] \in Mailbox /\ "normal" \in Lanes
        /\ Post("outcome", o[2], "normal", o[1], TRUE)
    BY <1>10, PostCases
  <2>2. LogGrew /\ given'[Len(log) + 1] = 0
    BY <2>1, PostGrows, PostEffect
  <2> QED
    BY <1>8, <1>10, <2>2 DEF OutcomePost
<1> QED
  BY <1>4, <1>6, <1>7, <1>9, <1>10, RunFrame, DbFrame DEF Turn

\* Without a shutdown or a database error no message is given to two turns, although a
\* turn reads the cursor anew each time (runtime.go: runTurn, Runtime.active).
THEOREM NothingRepeated == Spec => []NoMessageRepeated
<1>1. Init => LifeInv /\ RepeatInv
  BY DEF Init, LifeInv, RepeatInv, GivenOnce, HeldUntilCommit, Busy, NoTurn, Seqs, Pending, Mail
<1>2. TypeOK /\ LifeInv /\ [Next]_vars => LifeInv'
  BY LifeStep
<1>3. TypeOK /\ SlotInv /\ NoMessageSkipped /\ BatchInv /\ LifeInv /\ RepeatInv /\ [Next]_vars
        => RepeatInv'
  BY RepeatStep
<1>4. TypeOK /\ RepeatInv => NoMessageRepeated
  BY LenProperties DEF TypeOK, DbTypeOK, RepeatInv, GivenOnce, NoMessageRepeated, Seqs
<1> QED
  BY <1>1, <1>2, <1>3, <1>4, SlotsCorrect, BatchesCorrect, PTL DEF Spec
-----------------------------------------------------------------------------
(* No wake-up is lost *)

\* Every step keeps the marks a Kick relies on.
LEMMA KickStep ==
  ASSUME TypeOK, LifeInv, KickInv, [Next]_vars
  PROVE  KickInv'
<1>1. (ticking <=> pass # "off")'
  <2>1. CASE UNCHANGED schedVars
    BY <2>1 DEF KickInv, schedVars
  <2>2. CASE Kick
    BY <2>2 DEF KickInv, Kick
  <2>3. CASE PassBegin \/ PassQuery \/ PassQueryFails \/ PassSchedule \/ PassCheck
    BY <2>3 DEF KickInv, PassBegin, PassQuery, PassQueryFails, PassSchedule, PassCheck
  <2>4. CASE \E g \in Gor : TurnExit(g)
    BY <2>4 DEF KickInv, TurnExit
  <2>5. CASE FreshMemory
    BY <2>5 DEF FreshMemory
  <2> QED
    BY <2>1, <2>2, <2>3, <2>4, <2>5, SchedulerFrame
<1>2. (up /\ ~stopped => loop # "off")'
  <2>1. CASE UNCHANGED <<procVars, loop>>
    BY <2>1 DEF KickInv, procVars
  <2>2. CASE LoopKick \/ LoopWake \/ LoopTicker
    BY <2>2 DEF LoopKick, LoopWake, LoopTicker
  <2>3. CASE LoopStop
    BY <2>3 DEF LoopStop, procVars
  <2>4. CASE Life
    BY <2>4 DEF Life, Start, Stop, Cancel, Exit, Crash, Down, KickInv
  <2>5. CASE UNCHANGED vars
    BY <2>1, <2>5 DEF vars
  <2>6. CASE Publish \/ Environment
    BY <2>1, <2>6 DEF Publish, Environment, OutsidePost, OutcomePost
  <2>7. CASE PassBegin \/ PassQuery \/ PassQueryFails \/ PassSchedule \/ PassCheck
    BY <2>1, <2>7 DEF PassBegin, PassQuery, PassQueryFails, PassSchedule, PassCheck
  <2>8. CASE KickAfterTurn \/ \E t \in tasks : TaskDone(t)
    BY <2>1, <2>8 DEF KickAfterTurn, TaskDone
  <2>9. CASE \E g \in Gor : Turn(g)
    <3>1. UNCHANGED <<procVars, loop>>
      BY <2>9 DEF Turn, TurnRead, TurnReadFails, TurnPost, TurnDispatch, TurnReturn,
                  TurnError, TurnCommit, TurnCommitFails, TurnExit
    <3> QED
      BY <2>1, <3>1
  <2> QED
    BY <2>2, <2>3, <2>4, <2>5, <2>6, <2>7, <2>8, <2>9 DEF Next, Scheduling
<1> QED
  BY <1>1, <1>2 DEF KickInv

\* A Kick starts a pass or leaves its mark for the one that runs (runtime.go: Kick).
LEMMA KickLooks ==
  ASSUME TypeOK, KickInv, Kick, ~stopped
  PROVE  \A m : WillLook(m)'
<1>1. pass \in {"off", "begin", "query", "schedule", "check"}
  BY DEF TypeOK, SchedulerTypeOK
<1> QED
  BY <1>1 DEF KickInv, Kick, WillLook

\* A pass that leaves a handled mailbox of its list waiting has filled every slot.
LEMMA PassFillsSlots ==
  ASSUME TypeOK, SlotInv, PassSchedule, NEW p \in snap, p.mb \in Handled, p.mb \notin active'
  PROVE  ~(Cardinality(active') < MaxTurns)
<1>1. PICK S \in SUBSET Startable :
        /\ Chosen(S)
        /\ active' = active \cup {q.mb : q \in S}
        /\ \E who \in [S -> Free] : \A q, r \in S : who[q] = who[r] => q = r
  BY ScheduleEffect
<1>2. IsFiniteSet(S)
  BY <1>1, StartedFinite
<1> DEFINE T == {q.mb : q \in S}
           f == [q \in S |-> q.mb]
<1>3. IsFiniteSet(T) /\ Cardinality(T) = Cardinality(S)
  <2>1. f \in [S -> T] /\ (\A t \in T : \E q \in S : f[q] = t)
    OBVIOUS
  <2>2. \A q, r \in S : f[q] = f[r] => q = r
    BY <1>1 DEF Startable, SlotInv
  <2> HIDE DEF f, T
  <2>3. f \in Surjection(S, T) /\ f \in Injection(S, T)
    BY <2>1, <2>2, Fun_IsSurj, Fun_IsInj
  <2> QED
    BY <1>2, <2>3, FS_Surjection
<1>4. p \in Startable /\ p \notin S
  BY <1>1 DEF Startable
<1>5. Cardinality(active) + Cardinality(S) = MaxTurns
  BY <1>1, <1>4 DEF Chosen
<1>6. active \cap T = {}
  BY <1>1 DEF Startable
<1>7. active' = active \cup T
  BY <1>1
<1> HIDE DEF T
<1>8. Cardinality(active') = Cardinality(active) + Cardinality(T) - Cardinality({})
  BY <1>3, <1>6, <1>7, FS_Union DEF SlotInv
<1>9. Cardinality({}) = 0 /\ Cardinality(active) \in Nat /\ Cardinality(S) \in Nat
  BY <1>2, FS_EmptySet, FS_CardinalityType DEF SlotInv
<1> QED
  BY <1>3, <1>5, <1>8, <1>9, RuntimeAssumption

\* A handled mailbox that waits is on the list the query returns (mailbox.go:
\* MailboxesWithPending).
LEMMA WaitingIsListed ==
  ASSUME NoMessageSkipped, NEW m \in Mailbox, Pending(m) # {}
  PROVE  \E p \in MailboxesWithPending : p.mb = m
<1>1. m \in Listed
  BY DEF NoMessageSkipped, Listed, Pending
<1>2. PendingRow(m) \in MailboxesWithPending /\ PendingRow(m).mb = m
  BY <1>1 DEF MailboxesWithPending, PendingRow
<1> QED
  BY <1>2

\* Every step keeps a wake-up, a Kick or a pass on its way to a mailbox that waits.
LEMMA WakeStep ==
  ASSUME TypeOK, SlotInv, NoMessageSkipped, BatchInv, LifeInv, KickInv, NoLostWakeup,
         [Next]_vars
  PROVE  NoLostWakeup'
<1> SUFFICES ASSUME up', ~stopped', faults' = 0, NEW m \in Handled,
                    Pending(m)' # {}, m \notin active', Cardinality(active') < MaxTurns
             PROVE  WillLook(m)'
  BY DEF NoLostWakeup
<1>0. m \in Mailbox /\ WakeCap \in Nat \ {0}
  BY RuntimeAssumption
<1>1. /\ stopped \in BOOLEAN /\ faults \in Nat /\ unpublished \in Nat /\ kicks \in Nat
      /\ wake \in 0 .. WakeCap
  BY DEF TypeOK, ProcessTypeOK
<1>2. ASSUME UNCHANGED <<procVars, faults>>
      PROVE  up /\ ~stopped /\ ~cancelled /\ faults = 0
  BY <1>2 DEF procVars, LifeInv
<1>3. ASSUME UNCHANGED <<procVars, faults, schedVars, loop, hubVars, kicks>>, Pending(m) # {}
      PROVE  WillLook(m)'
  BY <1>2, <1>3 DEF NoLostWakeup, WillLook, schedVars, hubVars
<1>4. ASSUME UNCHANGED <<log, cursor>>
      PROVE  Pending(m) # {}
  BY <1>4 DEF Pending, Mail, CursorOf, Seqs
<1>5. ASSUME unpublished' = unpublished + 1
      PROVE  WillLook(m)'
  BY <1>1, <1>5 DEF WillLook
<1>6. CASE UNCHANGED vars
  BY <1>3, <1>4, <1>6 DEF vars, dbVars, histVars
<1>7. CASE Environment
  BY <1>5, <1>7, PostPublishes DEF Environment, OutsidePost, OutcomePost
<1>8. CASE Publish
  <2>1. loop # "off"
    BY <1>2, <1>8 DEF Publish, histVars, KickInv
  <2>2. wake' > 0
    BY <1>0, <1>1, <1>8, <2>1 DEF Publish
  <2> QED
    BY <2>2 DEF WillLook
<1>9. CASE LoopKick \/ KickAfterTurn
  BY <1>2, <1>9, KickLooks DEF LoopKick, KickAfterTurn, histVars
<1>10. CASE LoopWake \/ LoopTicker
  BY <1>10 DEF LoopWake, LoopTicker, WillLook
<1>11. CASE LoopStop
  BY <1>2, <1>11 DEF LoopStop, histVars
<1>12. CASE PassBegin
  BY <1>12 DEF PassBegin, WillLook
<1>13. CASE PassQuery
  <2>1. pass' = "schedule" /\ snap' = MailboxesWithPending /\ Pending(m) # {}
    BY <1>4, <1>13 DEF PassQuery, dbVars
  <2> QED
    BY <1>0, <2>1, WaitingIsListed DEF WillLook
<1>14. ASSUME cancelled \/ faults' = faults + 1, UNCHANGED procVars
       PROVE  FALSE
  BY <1>1, <1>14 DEF procVars, LifeInv
<1>15. CASE PassQueryFails
  BY <1>14, <1>15 DEF PassQueryFails
<1>16. CASE PassSchedule
  <2>1. /\ UNCHANGED <<procVars, faults, ticking, again, snap, loop, hubVars, kicks>>
        /\ pass = "schedule" /\ pass' = "check" /\ Pending(m) # {}
    BY <1>4, <1>16 DEF PassSchedule, histVars, dbVars
  <2>2. active \subseteq active'
    BY <1>16 DEF PassSchedule
  <2>3. Cardinality(active) < MaxTurns
    <3>1. IsFiniteSet(active')
      BY <1>16, TypeStep, SlotStep DEF SlotInv
    <3>2. Cardinality(active) <= Cardinality(active')
      BY <2>2, <3>1, FS_Subset
    <3>3. Cardinality(active) \in Nat /\ Cardinality(active') \in Nat
      BY <3>1, FS_CardinalityType DEF SlotInv
    <3> QED
      BY <3>2, <3>3, RuntimeAssumption
  <2>4. WillLook(m)
    BY <1>2, <2>1, <2>2, <2>3 DEF NoLostWakeup
  <2>5. ~(\E p \in snap : p.mb = m)
    BY <1>16, PassFillsSlots
  <2> QED
    BY <2>1, <2>4, <2>5 DEF WillLook, hubVars
<1>17. CASE PassCheck
  <2>1. /\ UNCHANGED <<procVars, faults, active, again, loop, hubVars, kicks>>
        /\ pass = "check" /\ (again /\ ~stopped => pass' = "begin") /\ Pending(m) # {}
    BY <1>4, <1>17 DEF PassCheck, histVars, dbVars
  <2>2. WillLook(m)
    BY <1>2, <2>1 DEF NoLostWakeup
  <2> QED
    BY <1>2, <2>1, <2>2 DEF WillLook, hubVars
<1>18. CASE \E t \in tasks : TaskDone(t)
  BY <1>3, <1>4, <1>18 DEF TaskDone, dbVars, histVars
<1>19. CASE Life
  BY <1>1, <1>19 DEF Life, Start, Stop, Cancel, Exit, Crash, Down, LifeInv, WillLook
<1>20. ASSUME NEW g \in Gor, Turn(g)
       PROVE  WillLook(m)'
  <2>1. CASE TurnRead(g) \/ \E failed \in BOOLEAN : TurnReturn(g, failed)
    BY <1>3, <1>4, <2>1 DEF TurnRead, TurnReturn, dbVars, histVars
  <2>2. CASE TurnReadFails(g) \/ TurnCommitFails(g)
    BY <1>14, <2>2 DEF TurnReadFails, TurnCommitFails
  <2>3. CASE TurnExit(g)
    BY <1>1, <2>3 DEF TurnExit, WillLook
  <2>4. CASE TurnCommit(g)
    <3>1. UNCHANGED <<procVars, faults, schedVars, loop, hubVars, kicks, log>>
      BY <2>4 DEF TurnCommit, histVars
    <3>2. \A n \in Mailbox : cursor'[n] >= cursor[n]
      BY <2>4, TypeStep, CommitBatch
    <3>3. cursor[m] \in Nat \cup {NoCursor} /\ cursor'[m] \in Nat \cup {NoCursor}
      BY <1>0, TypeStep DEF TypeOK, DbTypeOK
    <3>4. CursorOf(m)' >= CursorOf(m) /\ CursorOf(m) \in Nat /\ CursorOf(m)' \in Nat
      BY <1>0, <3>2, <3>3 DEF CursorOf, NoCursor
    <3>5. Mail(m)' = Mail(m) /\ Mail(m) \subseteq Nat
      BY <3>1 DEF Mail, Seqs
    <3>6. Pending(m) # {}
      BY <3>4, <3>5 DEF Pending
    <3> QED
      BY <1>3, <3>1, <3>6
  <2>5. CASE \E c \in run[g].batch :
               \/ \E n \in Mailbox, lane \in Lanes : TurnPost(g, n, lane, c)
               \/ TurnDispatch(g, c)
    BY <1>5, <2>5, PostPublishes DEF TurnPost, TurnDispatch, BudgetEscalation, Append1
  <2>6. CASE TurnError(g)
    BY <1>5, <2>6 DEF TurnError, Append1
  <2> QED
    BY <1>20, <2>1, <2>2, <2>3, <2>4, <2>5, <2>6 DEF Turn
<1> QED
  BY <1>6, <1>7, <1>8, <1>9, <1>10, <1>11, <1>12, <1>13, <1>15, <1>16, <1>17, <1>18,
     <1>19, <1>20 DEF Next, Scheduling

\* While the process runs and the database answers, a handled mailbox with messages, no
\* turn and a free slot is never forgotten, although Kicks coalesce, the Hub drops
\* wake-ups and a pass works on an old list (runtime.go: Kick, tick; hub.go: Publish).
THEOREM WakeupsKept == Spec => []NoLostWakeup
<1>1. Init => LifeInv /\ KickInv /\ NoLostWakeup
  BY DEF Init, LifeInv, KickInv, NoLostWakeup, Busy, NoTurn
<1>2. TypeOK /\ LifeInv /\ [Next]_vars => LifeInv'
  BY LifeStep
<1>3. TypeOK /\ LifeInv /\ KickInv /\ [Next]_vars => KickInv'
  BY KickStep
<1>4. TypeOK /\ SlotInv /\ NoMessageSkipped /\ BatchInv /\ LifeInv /\ KickInv /\ NoLostWakeup
        /\ [Next]_vars => NoLostWakeup'
  BY WakeStep
<1> QED
  BY <1>1, <1>2, <1>3, <1>4, SlotsCorrect, BatchesCorrect, PTL DEF Spec
-----------------------------------------------------------------------------
(* The loop implements the abstract delivery *)

\* What the abstract delivery calls done with is the newest message the cursor passed:
\* the same messages wait.
LEMMA ConsumedIsCursor ==
  ASSUME TypeOK, NEW m \in Mailbox
  PROVE  /\ LastConsumed(m) \in Nat
         /\ Pending(m) = {s \in Mail(m) : s > LastConsumed(m)}
<1> DEFINE S == {0} \cup {s \in Mail(m) : s <= cursor[m]}
<1>1. /\ Len(log) \in Nat /\ Mail(m) \subseteq 1 .. Len(log)
      /\ cursor[m] \in Nat \cup {NoCursor}
  BY LenProperties DEF TypeOK, DbTypeOK, Mail, Seqs
<1>2. S \in SUBSET (0 .. Len(log)) /\ S # {}
  BY <1>1
<1>3. LastConsumed(m) = Newest(S)
  BY DEF LastConsumed
<1>4. Newest(S) \in S /\ \A t \in S : t <= Newest(S)
  <2> HIDE DEF S
  <2> QED
    BY <1>1, <1>2, NewestExists
<1>5. Newest(S) \in Nat
  <2> HIDE DEF S
  <2>1. Newest(S) \in 0 .. Len(log)
    BY ONLY <1>2, <1>4
  <2> QED
    BY <1>1, <2>1
<1>6. Newest(S) = 0 \/ (cursor[m] \in Nat /\ Newest(S) <= cursor[m])
  <2>1. \A x \in S : x = 0 \/ (cursor[m] \in Nat /\ x <= cursor[m])
    BY <1>1 DEF NoCursor
  <2> HIDE DEF S
  <2> QED
    BY <1>4, <2>1
<1>7. ASSUME NEW s \in Mail(m)
      PROVE  s > CursorOf(m) <=> s > Newest(S)
  <2>1. s \in Nat /\ s > 0
    BY <1>1
  <2>2. s > Newest(S) => ~(s <= cursor[m])
    BY <1>4, <1>5, <2>1
  <2> HIDE DEF S
  <2>3. CASE cursor[m] = NoCursor
    <3>1. Newest(S) = 0 /\ CursorOf(m) = 0
      BY <1>6, <2>3 DEF CursorOf, NoCursor
    <3> QED
      BY <3>1
  <2>4. CASE cursor[m] \in Nat
    <3>1. CursorOf(m) = cursor[m]
      BY <2>4 DEF CursorOf, NoCursor
    <3> QED
      BY <1>5, <1>6, <2>1, <2>2, <2>4, <3>1
  <2> QED
    BY <1>1, <2>3, <2>4
<1> HIDE DEF S
<1> QED
  BY <1>3, <1>5, <1>7 DEF Pending

\* The messages of a turn past its read are the open batch of its mailbox, and a
\* mailbox with no such turn has none open.
LEMMA OpenBatches ==
  ASSUME SlotInv
  PROVE  /\ \A g \in Reading : OpenBatch(run[g].mb) = run[g].batch
         /\ \A m : (\A g \in Reading : run[g].mb # m) => OpenBatch(m) = {}
<1>1. \A g, h \in Reading : run[g].mb = run[h].mb => g = h
  BY DEF SlotInv, OneTurnPerMailbox, Busy, Reading
<1>2. \A m : OpenBatch(m) = UNION {run[g].batch : g \in {h \in Reading : run[h].mb = m}}
  BY DEF OpenBatch, Reading
<1>3. ASSUME NEW g \in Reading
      PROVE  OpenBatch(run[g].mb) = run[g].batch
  <2>1. {h \in Reading : run[h].mb = run[g].mb} = {g}
    BY <1>1
  <2> QED
    BY <1>2, <2>1
<1>4. ASSUME NEW m, \A g \in Reading : run[g].mb # m
      PROVE  OpenBatch(m) = {}
  BY <1>2, <1>4
<1> QED
  BY <1>3, <1>4

\* Turns that keep reading what they read leave the open batches as they are.
LEMMA OpenSame ==
  ASSUME Reading' = Reading,
         \A g \in Reading : run'[g].batch = run[g].batch /\ run'[g].mb = run[g].mb
  PROVE  \A m : OpenBatch(m)' = OpenBatch(m)
<1>1. \A m : OpenBatch(m) = UNION {run[g].batch : g \in {h \in Reading : run[h].mb = m}}
  BY DEF OpenBatch, Reading
<1>2. \A m : OpenBatch(m)' = UNION {run'[g].batch : g \in {h \in Reading' : run'[h].mb = m}}
  BY DEF OpenBatch, Reading
<1>3. ASSUME NEW m
      PROVE  UNION {run'[g].batch : g \in {h \in Reading' : run'[h].mb = m}}
               = UNION {run[g].batch : g \in {h \in Reading : run[h].mb = m}}
  OBVIOUS
<1>4. ASSUME NEW m
      PROVE  OpenBatch(m)' = OpenBatch(m)
  <2>1. OpenBatch(m) = UNION {run[g].batch : g \in {h \in Reading : run[h].mb = m}}
    BY <1>1
  <2>2. OpenBatch(m)' = UNION {run'[g].batch : g \in {h \in Reading' : run'[h].mb = m}}
    BY <1>2
  <2> QED
    BY <1>3, <2>1, <2>2
<1> QED
  BY <1>4

\* A step that leaves the mail, the cursors and the open batches alone is none of the
\* abstract delivery's.
LEMMA AbstractStutter ==
  ASSUME \A m \in Mailbox : /\ Mail(m)' = Mail(m) /\ cursor'[m] = cursor[m]
                            /\ OpenBatch(m)' = OpenBatch(m)
  PROVE  UNCHANGED D!dvars
<1>1. ASSUME NEW m \in Mailbox
      PROVE  LastConsumed(m)' = LastConsumed(m)
  <2>1. {s \in Mail(m)' : s <= cursor'[m]} = {s \in Mail(m) : s <= cursor[m]}
    OBVIOUS
  <2> QED
    BY <2>1 DEF LastConsumed
<1> QED
  BY <1>1 DEF D!dvars

\* An append adds its event to the mailbox it names, if it names one.
LEMMA MailGrows ==
  ASSUME TypeOK, LogGrew
  PROVE  \A m \in Mailbox :
           Mail(m)' = IF log'[Len(log) + 1].mb = m THEN Mail(m) \cup {Len(log) + 1}
                                                   ELSE Mail(m)
<1>1. Len(log) \in Nat /\ Len(log) + 1 \notin Seqs
  BY LenProperties DEF TypeOK, DbTypeOK, Seqs
<1> QED
  BY <1>1 DEF LogGrew, Mail

\* A Post that is delivered is the abstract Post, and a refused one is none.
LEMMA AbstractPost ==
  ASSUME TypeOK, BatchInv, NEW kind \in {"message", "outcome"}, NEW m \in Mailbox,
         NEW lane \in Lanes, NEW c \in Seqs \cup {0}, NEW always \in BOOLEAN,
         Post(kind, m, lane, c, always),
         \A n \in Mailbox : OpenBatch(n)' = OpenBatch(n)
  PROVE  [D!Next]_(D!dvars)
<1> DEFINE new == Len(log) + 1
<1>1. LogGrew
  BY PostGrows
<1>2. \/ log'[new].mb = None /\ cursor' = cursor
      \/ /\ log'[new].mb = m
         /\ \A n \in Mailbox \ {m} : cursor'[n] = cursor[n]
         /\ cursor[m] # NoCursor => cursor'[m] = cursor[m]
         /\ cursor[m] = NoCursor => \A s \in Mail(m) \cup {new} : cursor'[m] < s
  <2>1. /\ \A n \in Mailbox : cursor[n] # NoCursor => cursor'[n] = cursor[n]
        /\ \/ log'[Len(log) + 1].mb = None /\ cursor' = cursor
           \/ /\ log'[Len(log) + 1].mb = m
              /\ \A n \in Mailbox \ {m} : cursor'[n] = cursor[n]
              /\ cursor[m] = NoCursor =>
                   \A s \in Mail(m) \cup {Len(log) + 1} : cursor'[m] < s
    BY PostEffect
  <2> QED
    BY <2>1
<1>3. CASE log'[new].mb = None /\ cursor' = cursor
  <2>1. \A n \in Mailbox : Mail(n)' = Mail(n)
    BY <1>1, <1>3, MailGrows, RuntimeAssumption
  <2> QED
    BY <1>3, <2>1, AbstractStutter
<1>4. CASE /\ log'[new].mb = m
           /\ \A n \in Mailbox \ {m} : cursor'[n] = cursor[n]
           /\ cursor[m] # NoCursor => cursor'[m] = cursor[m]
           /\ cursor[m] = NoCursor => \A s \in Mail(m) \cup {new} : cursor'[m] < s
  <2>1. /\ Mail(m)' = Mail(m) \cup {new}
        /\ \A n \in Mailbox \ {m} : Mail(n)' = Mail(n)
    BY <1>1, <1>4, MailGrows
  <2>2. /\ Len(log) \in Nat /\ Mail(m) \subseteq 1 .. Len(log)
        /\ cursor[m] \in Nat \cup {NoCursor} /\ cursor[m] <= Len(log)
    BY LenProperties DEF TypeOK, DbTypeOK, Mail, Seqs, BatchInv
  <2>3. cursor'[m] \in Nat \cup {NoCursor}
    BY PostEffect
  <2>4. {s \in Mail(m)' : s <= cursor'[m]} = {s \in Mail(m) : s <= cursor[m]}
    <3>1. CASE cursor[m] # NoCursor
      <4>1. cursor'[m] = cursor[m] /\ cursor[m] \in Nat
        BY <1>4, <2>2, <3>1
      <4>2. ~(new <= cursor[m])
        BY <2>2, <4>1
      <4> QED
        BY <2>1, <4>1, <4>2
    <3>2. CASE cursor[m] = NoCursor
      <4>1. \A s \in Mail(m)' : ~(s <= cursor'[m])
        BY <1>4, <2>1, <2>2, <2>3, <3>2 DEF NoCursor
      <4>2. \A s \in Mail(m) : ~(s <= cursor[m])
        BY <2>2, <3>2 DEF NoCursor
      <4> QED
        BY <4>1, <4>2
    <3> QED
      BY <3>1, <3>2
  <2>5. \A n \in Mailbox : LastConsumed(n)' = LastConsumed(n)
    <3>1. LastConsumed(m)' = LastConsumed(m)
      BY <2>4 DEF LastConsumed
    <3>2. ASSUME NEW n \in Mailbox \ {m}
          PROVE  LastConsumed(n)' = LastConsumed(n)
      <4>1. {s \in Mail(n)' : s <= cursor'[n]} = {s \in Mail(n) : s <= cursor[n]}
        BY <1>4, <2>1
      <4> QED
        BY <4>1 DEF LastConsumed
    <3> QED
      BY <3>1, <3>2
  <2>6. new \in Mail(m)' /\ \A t \in Mail(m) : t < new
    BY <2>1, <2>2
  <2> HIDE DEF new
  <2>7. D!Post(m)
    BY <2>1, <2>5, <2>6 DEF D!Post
  <2> QED
    BY <2>7 DEF D!Next
<1> QED
  BY <1>2, <1>3, <1>4
\* A turn that leaves its commit, its messages read or not, closes its mailbox's batch.
LEMMA TurnCloses ==
  ASSUME TypeOK, SlotInv, NEW g \in Reading, run' = [run EXCEPT ![g].pc = "exit"]
  PROVE  \A n : OpenBatch(n)' = IF n = run[g].mb THEN {} ELSE OpenBatch(n)
<1>0. run \in [Gor -> TurnRecord] /\ g \in Gor
  BY DEF TypeOK, RunTypeOK, TurnRecord, Reading
<1>1. Reading' = Reading \ {g} /\ \A h \in Reading \ {g} : run'[h] = run[h]
  BY <1>0 DEF Reading, TurnRecord
<1>2. \A h \in Reading \ {g} : run[h].mb # run[g].mb
  BY DEF SlotInv, OneTurnPerMailbox, Busy, Reading
<1>3. ASSUME NEW n
      PROVE  OpenBatch(n)' = IF n = run[g].mb THEN {} ELSE OpenBatch(n)
  <2>1. OpenBatch(n) = UNION {run[h].batch : h \in {h \in Reading : run[h].mb = n}}
    BY DEF OpenBatch, Reading
  <2>2. OpenBatch(n)' = UNION {run'[h].batch : h \in {h \in Reading' : run'[h].mb = n}}
    BY DEF OpenBatch, Reading
  <2>3. OpenBatch(n)' = UNION {run[h].batch : h \in {h \in Reading \ {g} : run[h].mb = n}}
    BY <1>1, <2>2
  <2>4. CASE n = run[g].mb
    <3>1. {h \in Reading \ {g} : run[h].mb = n} = {}
      BY <1>2, <2>4
    <3> QED
      BY <2>3, <2>4, <3>1
  <2>5. CASE n # run[g].mb
    <3>1. {h \in Reading \ {g} : run[h].mb = n} = {h \in Reading : run[h].mb = n}
      BY <2>5
    <3> QED
      BY <2>1, <2>3, <2>5, <3>1
  <2> QED
    BY <2>4, <2>5
<1> QED
  BY <1>3

\* A turn that read its messages opens its mailbox's batch, which was closed.
LEMMA TurnOpens ==
  ASSUME TypeOK, SlotInv, NEW g \in Gor, run[g].pc = "read", NEW B,
         run' = [run EXCEPT ![g].pc = "handle", ![g].batch = B]
  PROVE  /\ OpenBatch(run[g].mb) = {}
         /\ \A n : OpenBatch(n)' = IF n = run[g].mb THEN B ELSE OpenBatch(n)
<1>0. run \in [Gor -> TurnRecord]
  BY DEF TypeOK, RunTypeOK, TurnRecord
<1>1. /\ g \notin Reading /\ Reading' = Reading \cup {g}
      /\ run'[g].batch = B /\ run'[g].mb = run[g].mb
      /\ \A h \in Reading : run'[h] = run[h]
  BY <1>0 DEF Reading, TurnRecord
<1>2. \A h \in Reading : run[h].mb # run[g].mb
  BY <1>1 DEF SlotInv, OneTurnPerMailbox, Busy, Reading
<1>3. OpenBatch(run[g].mb) = {}
  BY <1>2, OpenBatches
<1>4. ASSUME NEW n
      PROVE  OpenBatch(n)' = IF n = run[g].mb THEN B ELSE OpenBatch(n)
  <2>1. OpenBatch(n) = UNION {run[h].batch : h \in {h \in Reading : run[h].mb = n}}
    BY DEF OpenBatch, Reading
  <2>2. OpenBatch(n)' = UNION {run'[h].batch : h \in {h \in Reading' : run'[h].mb = n}}
    BY DEF OpenBatch, Reading
  <2>3. CASE n = run[g].mb
    <3>1. {h \in Reading' : run'[h].mb = n} = {g}
      BY <1>1, <1>2, <2>3
    <3>2. UNION {run'[h].batch : h \in {g}} = B
      BY <1>1
    <3>3. OpenBatch(n)' = B
      BY <2>2, <3>1, <3>2
    <3> QED
      BY <2>3, <3>3
  <2>4. CASE n # run[g].mb
    <3>1. {h \in Reading' : run'[h].mb = n} = {h \in Reading : run[h].mb = n}
      BY <1>1, <2>4
    <3>2. UNION {run'[h].batch : h \in {h \in Reading : run[h].mb = n}}
            = UNION {run[h].batch : h \in {h \in Reading : run[h].mb = n}}
      BY <1>1
    <3> QED
      BY <2>1, <2>2, <2>4, <3>1, <3>2
  <2> QED
    BY <2>3, <2>4
<1> QED
  BY <1>3, <1>4

\* A step of a turn is one of the abstract delivery, or none.
LEMMA AbstractTurn ==
  ASSUME TypeOK, SlotInv, NoMessageSkipped, BatchInv, NEW g \in Gor, Turn(g)
  PROVE  [D!Next]_(D!dvars)
<1>0. run \in [Gor -> TurnRecord]
  BY DEF TypeOK, RunTypeOK, TurnRecord
<1>1. PICK n : n = run[g].mb
  OBVIOUS
<1>2. PICK B : B = run[g].batch
  OBVIOUS
<1>3. ASSUME UNCHANGED <<log, cursor>>
      PROVE  \A m \in Mailbox : Mail(m)' = Mail(m) /\ cursor'[m] = cursor[m]
  BY <1>3 DEF Mail, Seqs
<1>4. ASSUME UNCHANGED <<log, cursor>>, \A m : OpenBatch(m)' = OpenBatch(m)
      PROVE  [D!Next]_(D!dvars)
  BY <1>3, <1>4, AbstractStutter
<1>5. ASSUME g \in Reading, run' = [run EXCEPT ![g].pc = "exit"], UNCHANGED <<log, cursor>>
      PROVE  [D!Next]_(D!dvars)
  <2>1. n \in Mailbox /\ B # {} /\ OpenBatch(n) = B
    BY <1>1, <1>2, <1>5, OpenBatches DEF TypeOK, RunTypeOK, Reading
  <2>2. \A m : OpenBatch(m)' = IF m = n THEN {} ELSE OpenBatch(m)
    BY <1>1, <1>5, TurnCloses
  <2>3. ASSUME NEW m \in Mailbox
        PROVE  Mail(m)' = Mail(m) /\ LastConsumed(m)' = LastConsumed(m)
    <3>1. Mail(m)' = Mail(m) /\ cursor'[m] = cursor[m]
      BY <1>3, <1>5
    <3>2. {s \in Mail(m)' : s <= cursor'[m]} = {s \in Mail(m) : s <= cursor[m]}
      BY <3>1
    <3> QED
      BY <3>1, <3>2 DEF LastConsumed
  <2>4. D!Abandon(n)
    BY <2>1, <2>2, <2>3 DEF D!Abandon
  <2> QED
    BY <2>1, <2>4 DEF D!Next
<1>6. CASE TurnRead(g)
  <2>1. /\ run[g].pc = "read" /\ UNCHANGED <<log, cursor>>
        /\ run' = [run EXCEPT ![g].pc = IF PendingMessages(n) = {} THEN "exit" ELSE "handle",
                              ![g].batch = PendingMessages(n)]
    BY <1>1, <1>6 DEF TurnRead, TurnAt, dbVars
  <2>2. n \in Mailbox
    BY <1>1, <2>1 DEF TypeOK, RunTypeOK
  <2>3. CASE PendingMessages(n) = {}
    <3>1. Reading' = Reading /\ \A h \in Reading : run'[h] = run[h]
      BY <1>0, <2>1, <2>3 DEF Reading, TurnRecord
    <3> QED
      BY <1>4, <2>1, <3>1, OpenSame
  <2>4. CASE PendingMessages(n) # {}
    <3>1. run' = [run EXCEPT ![g].pc = "handle", ![g].batch = PendingMessages(n)]
      BY <2>1, <2>4
    <3>2. /\ OpenBatch(n) = {}
          /\ \A m : OpenBatch(m)' = IF m = n THEN PendingMessages(n) ELSE OpenBatch(m)
      BY <1>1, <2>1, <3>1, TurnOpens
    <3>3. ASSUME NEW m \in Mailbox
          PROVE  Mail(m)' = Mail(m) /\ LastConsumed(m)' = LastConsumed(m)
      <4>1. Mail(m)' = Mail(m) /\ cursor'[m] = cursor[m]
        BY <1>3, <2>1
      <4>2. {s \in Mail(m)' : s <= cursor'[m]} = {s \in Mail(m) : s <= cursor[m]}
        BY <4>1
      <4> QED
        BY <4>1, <4>2 DEF LastConsumed
    <3>4. D!Waiting(n) = Pending(n)
      BY <2>2, ConsumedIsCursor DEF D!Waiting
    <3>5. PendingMessages(n) \in SUBSET Pending(n)
      BY DEF PendingMessages
    <3>6. \A s \in PendingMessages(n) : \A t \in Pending(n) :
            t < s => t \in PendingMessages(n)
      BY <2>2, PendingMessagesIsPrefix
    <3>7. D!Begin(n, PendingMessages(n))
      BY <2>2, <2>4, <3>2, <3>3, <3>4, <3>6 DEF D!Begin
    <3> QED
      BY <2>2, <3>4, <3>5, <3>7 DEF D!Next
  <2> QED
    BY <2>3, <2>4
<1>7. CASE TurnReadFails(g) \/ TurnExit(g)
  <2>1. UNCHANGED <<log, cursor>> /\ g \notin Reading /\ g \notin Reading'
        /\ \A h \in Gor \ {g} : run'[h] = run[h]
    <3>1. NoTurn.pc = "free"
      BY DEF NoTurn
    <3> QED
      BY <1>0, <1>7, <3>1 DEF TurnReadFails, TurnExit, TurnAt, TurnGoto, dbVars, Reading,
         TurnRecord
  <2>2. Reading' = Reading /\ \A h \in Reading : run'[h] = run[h]
    BY <2>1 DEF Reading
  <2> QED
    BY <1>4, <2>1, <2>2, OpenSame
<1>8. ASSUME NEW c \in run[g].batch, NEW m \in Mailbox, NEW lane \in Lanes,
             TurnPost(g, m, lane, c)
      PROVE  [D!Next]_(D!dvars)
  <2>1. Reading' = Reading
        /\ \A h \in Reading : run'[h].batch = run[h].batch /\ run'[h].mb = run[h].mb
    BY <1>0, <1>8 DEF TurnPost, Reading, TurnRecord
  <2>2. c \in Seqs /\ Post("message", m, lane, c, FALSE)
    BY <1>8, PostCases
  <2>3. \A k \in Mailbox : OpenBatch(k)' = OpenBatch(k)
    BY <2>1, OpenSame
  <2> QED
    BY <2>2, <2>3, AbstractPost
<1>9. CASE (\E c \in run[g].batch : TurnDispatch(g, c)) \/ TurnError(g)
  <2>1. PICK e \in Event : Append1(e) /\ e.mb = None
    BY <1>9, OtherAppends
  <2>2. UNCHANGED cursor
    BY <1>9 DEF TurnDispatch, BudgetEscalation, TurnError
  <2>3. \A m \in Mailbox : Mail(m)' = Mail(m)
    BY <2>1, <2>2, AppendGrows, AppendExtends, MailGrows, RuntimeAssumption
  <2>4. Reading' = Reading
        /\ \A h \in Reading : run'[h].batch = run[h].batch /\ run'[h].mb = run[h].mb
    <3>1. CASE \E c \in run[g].batch : TurnDispatch(g, c)
      BY <1>0, <3>1 DEF TurnDispatch, Reading, TurnRecord
    <3>2. CASE TurnError(g)
      BY <1>0, <3>2 DEF TurnError, TurnAt, TurnGoto, Reading, TurnRecord
    <3> QED
      BY <1>9, <3>1, <3>2
  <2> QED
    BY <2>2, <2>3, <2>4, OpenSame, AbstractStutter
<1>10. ASSUME NEW failed \in BOOLEAN, TurnReturn(g, failed)
       PROVE  [D!Next]_(D!dvars)
  <2>1. /\ UNCHANGED <<log, cursor>> /\ run[g].pc = "handle" /\ g \in Reading
        /\ run' = [run EXCEPT ![g].pc =
                     IF cancelled THEN "exit" ELSE IF failed THEN "error" ELSE "commit"]
    BY <1>10 DEF TurnReturn, TurnAt, TurnGoto, dbVars, Reading
  <2>2. CASE cancelled
    BY <1>5, <2>1, <2>2
  <2>3. CASE ~cancelled
    <3>1. Reading' = Reading
          /\ \A h \in Reading : run'[h].batch = run[h].batch /\ run'[h].mb = run[h].mb
      BY <1>0, <2>1, <2>3 DEF Reading, TurnRecord
    <3> QED
      BY <1>4, <2>1, <3>1, OpenSame
  <2> QED
    BY <2>2, <2>3
<1>11. CASE TurnCommitFails(g)
  BY <1>5, <1>11 DEF TurnCommitFails, TurnAt, TurnGoto, dbVars, Reading
<1>12. CASE TurnCommit(g)
  <2>1. /\ g \in Reading /\ UNCHANGED log /\ run' = [run EXCEPT ![g].pc = "exit"]
        /\ cursor' = [cursor EXCEPT ![n] = Newest(B)]
    BY <1>1, <1>2, <1>12 DEF TurnCommit, TurnAt, TurnGoto, Reading
  <2>2. n \in Mailbox /\ B # {} /\ OpenBatch(n) = B /\ B \subseteq Mail(n)
    BY <1>1, <1>2, <2>1, OpenBatches DEF TypeOK, RunTypeOK, Reading, BatchInv, Pending
  <2>3. /\ cursor \in [Mailbox -> Nat \cup {NoCursor}] /\ Len(log) \in Nat
        /\ Mail(n) \subseteq 1 .. Len(log)
    BY LenProperties DEF TypeOK, DbTypeOK, Mail, Seqs
  <2>4. Newest(B) \in B /\ \A t \in B : t <= Newest(B)
    <3>1. B \in SUBSET (0 .. Len(log))
      BY <2>2, <2>3
    <3> QED
      BY <2>2, <2>3, <3>1, NewestExists
  <2>5. \A m \in Mailbox : Mail(m)' = Mail(m)
    BY <2>1 DEF Mail, Seqs
  <2>6. LastConsumed(n)' = Newest(B)
    <3> DEFINE S == {0} \cup {s \in Mail(n) : s <= Newest(B)}
    <3>1. cursor'[n] = Newest(B)
      BY <2>1, <2>2, <2>3
    <3>2. Newest(B) \in S /\ \A t \in S : t <= Newest(B)
      BY <2>2, <2>3, <2>4
    <3>3. S \subseteq Int
      BY <2>3
    <3>4. LastConsumed(n)' = Newest(S)
      BY <2>2, <2>5, <3>1 DEF LastConsumed
    <3> HIDE DEF S
    <3>5. Newest(S) \in S /\ \A t \in S : t <= Newest(S)
      BY <3>2 DEF Newest
    <3>6. Newest(B) <= Newest(S) /\ Newest(S) <= Newest(B)
      BY <3>2, <3>5
    <3>7. Newest(B) \in Int /\ Newest(S) \in Int
      BY <3>2, <3>3, <3>5
    <3> QED
      BY ONLY <3>4, <3>6, <3>7
  <2>7. ASSUME NEW m \in Mailbox \ {n}
        PROVE  LastConsumed(m)' = LastConsumed(m)
    <3>1. cursor'[m] = cursor[m] /\ Mail(m)' = Mail(m)
      BY <2>1, <2>3, <2>5
    <3>2. {s \in Mail(m)' : s <= cursor'[m]} = {s \in Mail(m) : s <= cursor[m]}
      BY <3>1
    <3> QED
      BY <3>2 DEF LastConsumed
  <2>8. \A m : OpenBatch(m)' = IF m = n THEN {} ELSE OpenBatch(m)
    BY <1>1, <2>1, TurnCloses
  <2>9. D!Finish(n)
    BY <2>2, <2>4, <2>5, <2>6, <2>7, <2>8 DEF D!Finish
  <2> QED
    BY <2>2, <2>9 DEF D!Next
<1> QED
  BY <1>6, <1>7, <1>8, <1>9, <1>10, <1>11, <1>12 DEF Turn

\* Every step is one of the abstract delivery, or none.
LEMMA AbstractStep ==
  ASSUME TypeOK, SlotInv, NoMessageSkipped, BatchInv, [Next]_vars
  PROVE  [D!Next]_(D!dvars)
<1>1. ASSUME UNCHANGED <<log, cursor>>, \A m \in Mailbox : OpenBatch(m)' = OpenBatch(m)
      PROVE  [D!Next]_(D!dvars)
  <2>1. \A m \in Mailbox : Mail(m)' = Mail(m) /\ cursor'[m] = cursor[m]
    BY <1>1 DEF Mail, Seqs
  <2> QED
    BY <1>1, <2>1, AbstractStutter
<1>2. ASSUME UNCHANGED run
      PROVE  \A m \in Mailbox : OpenBatch(m)' = OpenBatch(m)
  BY <1>2 DEF OpenBatch
<1>3. CASE \E m \in Mailbox, lane \in Lanes : OutsidePost(m, lane)
  <2>1. UNCHANGED run
    BY <1>3 DEF OutsidePost
  <2> QED
    BY <1>2, <1>3, <2>1, PostCases, AbstractPost
<1>4. ASSUME NEW o \in owed, OutcomePost(o)
      PROVE  [D!Next]_(D!dvars)
  <2>1. /\ o[1] \in Seqs /\ o[2] \in Mailbox /\ "normal" \in Lanes
        /\ Post("outcome", o[2], "normal", o[1], TRUE)
    BY <1>4, PostCases
  <2>2. UNCHANGED run
    BY <1>4 DEF OutcomePost
  <2> QED
    BY <1>2, <2>1, <2>2, AbstractPost
<1>5. ASSUME UNCHANGED <<dbVars, given>>
      PROVE  [D!Next]_(D!dvars)
  <2>0. UNCHANGED <<log, cursor>>
    BY <1>5 DEF dbVars
  <2>1. CASE UNCHANGED run
    BY <1>1, <1>2, <2>0, <2>1
  <2>2. CASE PassSchedule
    <3>1. PICK Started \in SUBSET Startable : \E who \in [Started -> Free] :
              /\ \A g \in Gor \ {who[p] : p \in Started} : run'[g] = run[g]
              /\ \A p \in Started :
                   run'[who[p]] = [pc |-> "read", batch |-> {}, effects |-> 0, mb |-> p.mb]
      BY <2>2, ScheduleEffect
    <3>2. PICK who \in [Started -> Free] :
              /\ \A g \in Gor \ {who[p] : p \in Started} : run'[g] = run[g]
              /\ \A p \in Started :
                   run'[who[p]] = [pc |-> "read", batch |-> {}, effects |-> 0, mb |-> p.mb]
      BY <3>1
    <3>3. ASSUME NEW p \in Started
          PROVE  who[p] \notin Reading /\ who[p] \notin Reading'
      <4>1. run'[who[p]] = [pc |-> "read", batch |-> {}, effects |-> 0, mb |-> p.mb]
        BY <3>2
      <4>2. run[who[p]].pc = "free"
        BY DEF Free
      <4> QED
        BY <4>1, <4>2 DEF Reading
    <3>4. Reading' = Reading /\ \A g \in Reading : run'[g] = run[g]
      BY <3>2, <3>3 DEF Reading
    <3> QED
      BY <1>1, <2>0, <3>4, OpenSame
  <2>3. CASE FreshMemory
    <3>1. Reading' = {}
      BY <2>3 DEF FreshMemory, NoTurn, Reading
    <3>2. \A m \in Mailbox : OpenBatch(m)' = {}
      BY <3>1 DEF OpenBatch, Reading
    <3>3. ASSUME NEW m \in Mailbox
          PROVE  Mail(m)' = Mail(m) /\ LastConsumed(m)' = LastConsumed(m)
      <4>1. Mail(m)' = Mail(m) /\ cursor'[m] = cursor[m]
        BY <2>0 DEF Mail, Seqs
      <4>2. {s \in Mail(m)' : s <= cursor'[m]} = {s \in Mail(m) : s <= cursor[m]}
        BY <4>1
      <4> QED
        BY <4>1, <4>2 DEF LastConsumed
    <3>4. D!AbandonAll
      BY <3>2, <3>3 DEF D!AbandonAll
    <3> QED
      BY <3>4 DEF D!Next
  <2>4. CASE \E g \in Gor : Turn(g)
    BY <2>4, AbstractTurn
  <2> QED
    BY <2>1, <2>2, <2>3, <2>4, RunFrame
<1>6. ASSUME NEW g \in Gor, Turn(g)
      PROVE  [D!Next]_(D!dvars)
  BY <1>6, AbstractTurn
<1> QED
  BY <1>3, <1>4, <1>5, <1>6, DbFrame DEF Turn

\* The event loop, its cursors and its restarts implement the delivery the agent loops
\* rely on: in order, without a gap, one open turn per mailbox, at least once
\* (mailbox.go: PendingMessages, CommitCursor; runtime.go: runTurn).
THEOREM DeliversInOrder == Spec => DeliverySpec
<1>1. Init => D!Init
  <2> SUFFICES ASSUME Init PROVE D!Init
    OBVIOUS
  <2>1. /\ log = <<>> /\ cursor = [m \in Mailbox |-> NoCursor] /\ Seqs = {}
        /\ run = [g \in Gor |-> NoTurn] /\ NoTurn.pc = "free"
    BY DEF Init, Seqs, NoTurn
  <2>2. ASSUME NEW m \in Mailbox
        PROVE  Mail(m) = {} /\ LastConsumed(m) = 0 /\ OpenBatch(m) = {}
    <3>1. Mail(m) = {}
      BY <2>1 DEF Mail
    <3>2. OpenBatch(m) = {}
      BY <2>1 DEF OpenBatch
    <3>3. LastConsumed(m) = Newest({0})
      BY <3>1 DEF LastConsumed
    <3>4. Newest({0}) = 0
      BY DEF Newest
    <3> QED
      BY <3>1, <3>2, <3>3, <3>4
  <2> QED
    BY <2>2 DEF D!Init
<1>2. TypeOK /\ SlotInv /\ NoMessageSkipped /\ BatchInv /\ [Next]_vars
        => [D!Next]_(D!dvars)
  BY AbstractStep
<1> QED
  BY <1>1, <1>2, SlotsCorrect, BatchesCorrect, PTL DEF Spec, DeliverySpec, D!Spec
=============================================================================
