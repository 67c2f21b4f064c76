--------------------------- MODULE WorkerPoolProofs ---------------------------
(***************************************************************************)
(* The worker pool keeps its promises for every set of executions, items,   *)
(* words and cancelling calls, and every limit on workers.                  *)
(***************************************************************************)
EXTENDS WorkerPoolProperties, FiniteSetTheorems, SequenceTheorems, TLAPS

(* The queue *)

\* A nonempty set of naturals has a least element.
LEMMA MinIsLeast ==
  ASSUME NEW S \in SUBSET Nat, S # {}
  PROVE  Min(S) \in S /\ \A t \in S : Min(S) <= t
<1>1. PICK x \in S : \A y \in S : ~ (<<y, x>> \in OpToRel(<, Nat))
  BY NatLessThanWellFounded, WFMin
<1>2. OpToRel(<, Nat) = {p \in Nat \X Nat : p[1] < p[2]}
  BY DEF OpToRel
<1>3. \A y \in S : x <= y
  <2> TAKE y \in S
  <2>1. <<y, x>> \notin {p \in Nat \X Nat : p[1] < p[2]}
    BY <1>1, <1>2
  <2> QED
    BY <2>1
<1>4. QED
  BY <1>3 DEF Min

\* Where dequeueLocked cuts.
LEMMA CutAt ==
  ASSUME NEW S, NEW s \in Seq(S), NEW e, \E i \in 1..Len(s) : s[i] = e
  PROVE  \E i \in 1..Len(s) : s[i] = e /\ RemoveFirst(s, e) = RemoveAt(s, i)
<1> DEFINE I == {i \in 1..Len(s) : s[i] = e}
<1>1. I \in SUBSET Nat /\ I # {}
  OBVIOUS
<1>2. Min(I) \in I
  BY <1>1, MinIsLeast
<1>3. RemoveFirst(s, e) = RemoveAt(s, Min(I))
  BY <1>1 DEF RemoveFirst, SelectInSeq
<1> QED
  BY <1>2, <1>3

\* What is left when one element is cut out of a sequence.
LEMMA CutOut ==
  ASSUME NEW S, NEW s \in Seq(S), NEW i \in 1..Len(s)
  PROVE  /\ RemoveAt(s, i) \in Seq(S) /\ Len(RemoveAt(s, i)) = Len(s) - 1
         /\ \A n \in 1..(Len(s) - 1) : RemoveAt(s, i)[n] = IF n < i THEN s[n] ELSE s[n + 1]
<1> DEFINE a == SubSeq(s, 1, i - 1)
           b == SubSeq(s, i + 1, Len(s))
<1>1. /\ a \in Seq(S) /\ Len(a) = i - 1 /\ \A n \in 1..(i - 1) : a[n] = s[n]
  OBVIOUS
<1>2. /\ b \in Seq(S) /\ Len(b) = Len(s) - i /\ \A n \in 1..(Len(s) - i) : b[n] = s[n + i]
  OBVIOUS
<1>3. RemoveAt(s, i) = a \o b
  BY DEF RemoveAt
<1> HIDE DEF a, b
<1>4. a \o b \in Seq(S) /\ Len(a \o b) = Len(s) - 1
  <2>1. a \o b \in Seq(S) /\ Len(a \o b) = Len(a) + Len(b)
    BY <1>1, <1>2, ConcatProperties
  <2>2. Len(s) \in Nat /\ i \in Nat
    OBVIOUS
  <2> QED
    BY <1>1, <1>2, <2>1, <2>2
<1>5. ASSUME NEW n \in 1..(Len(s) - 1)
      PROVE  (a \o b)[n] = IF n < i THEN s[n] ELSE s[n + 1]
  <2>1. (a \o b)[n] = IF n <= Len(a) THEN a[n] ELSE b[n - Len(a)]
    BY <1>1, <1>2
  <2>2. CASE n < i
    BY <1>1, <2>1, <2>2
  <2>3. CASE ~(n < i)
    BY <1>1, <1>2, <2>1, <2>3
  <2> QED
    BY <2>2, <2>3
<1> QED
  BY <1>3, <1>4, <1>5

\* A sequence without duplicates.
Distinct(s) == \A m, n \in DOMAIN s : s[m] = s[n] => m = n

\* Dequeuing takes one execution out of the queue and leaves the others.
LEMMA DequeuedKeeps ==
  ASSUME NEW S, NEW s \in Seq(S), NEW e
  PROVE  /\ RemoveFirst(s, e) \in Seq(S)
         /\ Distinct(s) => /\ Distinct(RemoveFirst(s, e))
                           /\ ToSet(RemoveFirst(s, e)) = ToSet(s) \ {e}
<1>1. CASE \E i \in 1..Len(s) : s[i] = e
  <2>1. PICK i \in 1..Len(s) : s[i] = e /\ RemoveFirst(s, e) = RemoveAt(s, i)
    BY <1>1, CutAt
  <2> DEFINE r == RemoveAt(s, i)
  <2>2. /\ r \in Seq(S) /\ Len(r) = Len(s) - 1
        /\ \A n \in 1..(Len(s) - 1) : r[n] = IF n < i THEN s[n] ELSE s[n + 1]
    BY CutOut
  <2> HIDE DEF r
  <2>3. DOMAIN s = 1..Len(s) /\ DOMAIN r = 1..(Len(s) - 1) /\ Len(s) \in Nat
    BY <2>2
  <2>4. ASSUME Distinct(s)
        PROVE  Distinct(r)
    <3> SUFFICES ASSUME NEW m \in DOMAIN r, NEW n \in DOMAIN r, r[m] = r[n]
                 PROVE  m = n
      BY DEF Distinct
    <3>1. PICK a \in DOMAIN s : r[m] = s[a] /\ a = IF m < i THEN m ELSE m + 1
      BY <2>2, <2>3
    <3>2. PICK b \in DOMAIN s : r[n] = s[b] /\ b = IF n < i THEN n ELSE n + 1
      BY <2>2, <2>3
    <3>3. a = b
      BY <2>4, <3>1, <3>2 DEF Distinct
    <3> QED
      BY <2>3, <3>1, <3>2, <3>3
  <2>5. ASSUME Distinct(s), NEW f
        PROVE  f \in ToSet(r) <=> f \in ToSet(s) \ {e}
    <3>1. ASSUME f \in ToSet(r)
          PROVE  f \in ToSet(s) \ {e}
      <4>1. PICK n \in 1..(Len(s) - 1) : f = r[n]
        BY <2>3, <3>1 DEF ToSet
      <4>2. PICK m \in 1..Len(s) : m # i /\ f = s[m]
        BY <2>2, <4>1
      <4>3. f # e
        BY <2>1, <2>3, <2>5, <4>2 DEF Distinct
      <4> QED
        BY <2>3, <4>2, <4>3 DEF ToSet
    <3>2. ASSUME f \in ToSet(s) \ {e}
          PROVE  f \in ToSet(r)
      <4>1. PICK m \in 1..Len(s) : m # i /\ f = s[m]
        BY <2>1, <2>3, <3>2 DEF ToSet
      <4>2. CASE m < i
        <5>1. m \in 1..(Len(s) - 1) /\ r[m] = f
          BY <2>2, <2>3, <4>1, <4>2
        <5> QED
          BY <2>3, <5>1 DEF ToSet
      <4>3. CASE m > i
        <5>1. m - 1 \in 1..(Len(s) - 1) /\ r[m - 1] = f
          BY <2>2, <2>3, <4>1, <4>3
        <5> QED
          BY <2>3, <5>1 DEF ToSet
      <4> QED
        BY <4>1, <4>2, <4>3
    <3> QED
      BY <3>1, <3>2
  <2> QED
    BY <2>1, <2>2, <2>4, <2>5 DEF r
<1>2. CASE ~ \E i \in 1..Len(s) : s[i] = e
  BY <1>2 DEF RemoveFirst, ToSet
<1> QED
  BY <1>1, <1>2

\* An execution joins the queue at its end.
LEMMA AppendedTo ==
  ASSUME NEW S, NEW s \in Seq(S), NEW e \in S
  PROVE  /\ Append(s, e) \in Seq(S)
         /\ ToSet(Append(s, e)) = ToSet(s) \cup {e}
         /\ Distinct(s) /\ e \notin ToSet(s) => Distinct(Append(s, e))
<1> DEFINE t == Append(s, e)
<1>1. /\ t \in Seq(S) /\ Len(t) = Len(s) + 1 /\ Len(s) \in Nat
      /\ DOMAIN s = 1..Len(s) /\ DOMAIN t = 1..(Len(s) + 1)
      /\ \A n \in 1..Len(s) : t[n] = s[n]
      /\ t[Len(s) + 1] = e
  OBVIOUS
<1> HIDE DEF t
<1>2. ASSUME NEW f
      PROVE  f \in ToSet(t) <=> f \in ToSet(s) \cup {e}
  <2>1. ASSUME f \in ToSet(t)
        PROVE  f \in ToSet(s) \cup {e}
    <3>1. PICK n \in 1..(Len(s) + 1) : f = t[n]
      BY <1>1, <2>1 DEF ToSet
    <3> QED
      BY <1>1, <3>1 DEF ToSet
  <2>2. ASSUME f \in ToSet(s)
        PROVE  f \in ToSet(t)
    <3>1. PICK n \in 1..Len(s) : f = s[n]
      BY <1>1, <2>2 DEF ToSet
    <3>2. n \in 1..(Len(s) + 1) /\ t[n] = f
      BY <1>1, <3>1
    <3> QED
      BY <1>1, <3>2 DEF ToSet
  <2>3. e \in ToSet(t)
    BY <1>1 DEF ToSet
  <2> QED
    BY <2>1, <2>2, <2>3
<1>3. ASSUME Distinct(s), e \notin ToSet(s)
      PROVE  Distinct(t)
  <2>1. \A n \in 1..Len(s) : s[n] # e
    BY <1>1, <1>3 DEF ToSet
  <2> QED
    BY <1>1, <1>3, <2>1 DEF Distinct
<1> QED
  BY <1>1, <1>2, <1>3 DEF t

\* A nonempty set of executions has an oldest one.
LEMMA OldestOfIn ==
  ASSUME RowTypeOK, NEW S \in SUBSET Exec, S # {}
  PROVE  OldestOf(S) \in S
<1> DEFINE B == {born[e] : e \in S}
<1>1. B \in SUBSET Nat /\ B # {}
  BY DEF RowTypeOK
<1>2. Min(B) \in B /\ \A n \in B : Min(B) <= n
  BY <1>1, MinIsLeast
<1>3. PICK e \in S : Min(B) = born[e]
  BY <1>2
<1>4. \A f \in S : born[e] <= born[f]
  BY <1>2, <1>3
<1> QED
  BY <1>4 DEF OldestOf

\* Every job has a place in the queue.
LEMMA PositionIn ==
  ASSUME order \in Seq(Exec), NEW e \in Jobs
  PROVE  Position(e) \in DOMAIN order /\ order[Position(e)] = e /\ Position(e) \in Nat /\ e \in Exec
<1>1. \E n \in DOMAIN order : order[n] = e
  BY DEF Jobs, ToSet
<1>2. DOMAIN order = 1..Len(order)
  OBVIOUS
<1> QED
  BY <1>1, <1>2 DEF Position

\* Deliver finds a job of the item, unless it has none.
LEMMA FirstJobIn ==
  ASSUME order \in Seq(Exec), NEW i \in Item
  PROVE  /\ FirstJob(i) # None => FirstJob(i) \in Jobs \cap OfItem(i)
         /\ FirstJob(i) = None => Jobs \cap OfItem(i) = {}
<1> DEFINE S == Jobs \cap OfItem(i)
<1>1. CASE S # {}
  <2> DEFINE P == {Position(e) : e \in S}
  <2>1. \A e \in S : Position(e) \in Nat
    BY PositionIn
  <2>2. P \in SUBSET Nat /\ P # {}
    BY <1>1, <2>1
  <2>3. Min(P) \in P /\ \A n \in P : Min(P) <= n
    BY <2>2, MinIsLeast
  <2>4. PICK e \in S : Min(P) = Position(e)
    BY <2>3
  <2>5. \A f \in S : Position(e) <= Position(f)
    BY <2>3, <2>4
  <2>6. FirstJob(i) \in S
    BY <1>1, <2>5 DEF FirstJob
  <2>7. None \notin S
    BY WorkerPoolAssumption DEF OfItem
  <2> QED
    BY <2>6, <2>7
<1>2. CASE S = {}
  BY <1>2 DEF FirstJob
<1> QED
  BY <1>1, <1>2

-----------------------------------------------------------------------------
(* Pump *)

WkType == [pc : WorkerPcs, out : Outcomes \cup {"none"}]

\* Pump starts jobs of idle items, within the limit, and leaves the other goroutines
\* where they are.
LEMMA PumpStarts ==
  ASSUME JobTypeOK, QueueInv,
         NEW w \in [Exec -> WkType],
         \A e \in Exec : e \in running <=> w[e].pc \notin {"none", "pump"},
         Pump(w)
  PROVE  /\ wk' \in [Exec -> WkType]
         /\ running \subseteq running' /\ running' \subseteq Jobs
         /\ \A e \in Exec :
              \/ e \in running' \ running /\ e \in Jobs /\ wk'[e] = [pc |-> "check", out |-> "none"]
              \/ (e \in running' <=> e \in running) /\ wk'[e] = w[e]
         /\ \A e, f \in running' : ItemOf[e] = ItemOf[f] => e = f
         /\ Cardinality(running') <= MaxWorkers
<1>1. PICK S \in SUBSET Candidates :
        /\ Pumped(S) /\ running' = running \cup S
        /\ wk' = [e \in Exec |-> IF e \in S THEN [pc |-> "check", out |-> "none"] ELSE w[e]]
  BY DEF Pump
<1>2. S \subseteq Jobs \ running /\ Jobs \subseteq Exec
  BY DEF Candidates, JobTypeOK, Jobs, ToSet
<1>3. ASSUME NEW e \in S, NEW f \in running', ItemOf[e] = ItemOf[f], e # f
      PROVE  FALSE
  <2>1. f \in Jobs
    BY <1>1, <1>2 DEF JobTypeOK
  <2>2. f \notin running /\ Position(e) < Position(f)
    BY <1>3, <2>1 DEF Candidates
  <2>3. f \in S
    BY <1>1, <2>2
  <2>4. Position(f) < Position(e)
    BY <1>2, <1>3, <2>3 DEF Candidates
  <2>5. Position(e) \in Nat /\ Position(f) \in Nat
    BY <1>2, <2>1, PositionIn DEF JobTypeOK
  <2> QED
    BY <2>2, <2>4, <2>5
<1>4. \A e, f \in running' : ItemOf[e] = ItemOf[f] => e = f
  BY <1>1, <1>3 DEF QueueInv
<1>5. IsFiniteSet(running) /\ IsFiniteSet(S)
  BY <1>2, WorkerPoolAssumption, FS_Subset DEF JobTypeOK
<1>6. Cardinality(running') <= Cardinality(running) + Cardinality(S)
  <2>1. /\ IsFiniteSet(running \cup S) /\ IsFiniteSet(running \cap S)
        /\ Cardinality(running \cup S)
             = Cardinality(running) + Cardinality(S) - Cardinality(running \cap S)
    BY <1>5, FS_Union, FS_Intersection
  <2>2. {Cardinality(running), Cardinality(S), Cardinality(running \cap S)} \subseteq Nat
    BY <1>5, <2>1, FS_CardinalityType
  <2> QED
    BY <1>1, <2>1, <2>2
<1>7. Cardinality(running') <= MaxWorkers
  <2>1. IsFiniteSet(running')
    BY <1>1, <1>5, FS_Union
  <2> QED
    BY <1>1, <1>5, <1>6, <2>1, FS_CardinalityType, WorkerPoolAssumption DEF Pumped
<1>8. wk' \in [Exec -> WkType]
  BY <1>1 DEF WkType, WorkerPcs
<1> QED
  BY <1>1, <1>2, <1>4, <1>7, <1>8 DEF JobTypeOK

-----------------------------------------------------------------------------
(* What each step can disturb *)

TurnAction ==
  \/ \E i \in Item, e \in Exec : DispatchRow(i, e)
  \/ \E i \in Item, w \in Word : WordArrives(i, w)
  \/ \E i \in Item : DispatchAppend(i) \/ DispatchFails(i) \/ DispatchEnqueue(i) \/ DispatchPump(i)
  \/ \E i \in Item : DeliverRoute(i) \/ DeliverHand(i) \/ WordsEnd(i) \/ ReadOutcomes(i)
CancelAction ==
  \/ \E c \in Canceller, tree \in Trees : CancelBegin(c, tree)
  \/ \E c \in Canceller : Cancelling(c)

LEMMA Actors ==
  ASSUME Next
  PROVE  \/ TurnAction \/ CancelAction \/ (\E e \in Exec : Worker(e)) \/ Life
         \/ PumpTimer \/ (\E e \in Exec : CliEnds(e))
  BY DEF Next, Turn, Dispatching, Delivering, TurnAction, CancelAction

\* The rows are written by a dispatch, a goroutine, a cancel and a recovery.
LEMMA DbFrame ==
  ASSUME [Next]_vars
  PROVE  \/ UNCHANGED dbVars
         \/ \E i \in Item, e \in Exec : DispatchRow(i, e)
         \/ \E e \in Exec : WorkerMark(e) \/ WorkerReport(e) \/ WorkerPost(e)
         \/ \E c \in Canceller : CancelAsk(c) \/ CancelReport(c) \/ CancelPost(c)
         \/ RecoverReport \/ RecoverPost
<1>1. CASE TurnAction
  BY <1>1 DEF TurnAction, WordArrives, DispatchAppend, DispatchFails, DispatchEnqueue, DispatchPump,
        DeliverRoute, DeliverHand, WordsEnd, ReadOutcomes
<1>2. CASE CancelAction
  BY <1>2 DEF CancelAction, Cancelling, CancelBegin, CancelLook, CancelLock, CancelFlag, CancelFails
<1>3. CASE \E e \in Exec : Worker(e)
  BY <1>3 DEF Worker, WorkerCheck, WorkerAmend, WorkerSetup, WorkerScriptEnds, WorkerArm,
        WorkerStart, WorkerFails, WorkerHold, WorkerVerdict, WorkerReportFails, WorkerRemove, WorkerPump
<1>4. CASE Life
  BY <1>4 DEF Life, Start, RecoverFails, Serve, Stop, ShutdownReturns, Exit, Crash
<1>5. CASE UNCHANGED vars \/ PumpTimer \/ \E e \in Exec : CliEnds(e)
  BY <1>5 DEF vars, PumpTimer, CliEnds
<1> QED
  BY <1>1, <1>2, <1>3, <1>4, <1>5, Actors

\* The queue is changed by a dispatch, a goroutine, a cancel, the timer and an exit.
LEMMA QueueFrame ==
  ASSUME [Next]_vars
  PROVE  \/ UNCHANGED <<order, running, wk>>
         \/ \E i \in Item : DispatchEnqueue(i) \/ DispatchPump(i)
         \/ \E e \in Exec : Worker(e)
         \/ \E c \in Canceller : CancelLock(c)
         \/ PumpTimer
         \/ FreshMemory /\ phase' = "down"
<1>1. CASE TurnAction
  BY <1>1 DEF TurnAction, DispatchRow, WordArrives, DispatchAppend, DispatchFails, DeliverRoute,
        DeliverHand, WordsEnd, ReadOutcomes, poolVars
<1>2. CASE CancelAction
  BY <1>2 DEF CancelAction, Cancelling, CancelBegin, CancelLook, CancelAsk, CancelFlag, CancelReport,
        CancelPost, CancelFails, OnlyCancel
<1>3. CASE Life
  BY <1>3 DEF Life, Start, RecoverReport, RecoverPost, RecoverFails, Serve, Stop, ShutdownReturns,
        Exit, Crash, poolVars
<1>4. CASE UNCHANGED vars \/ \E e \in Exec : CliEnds(e)
  BY <1>4 DEF vars, CliEnds, poolVars
<1> QED
  BY <1>1, <1>2, <1>3, <1>4, Actors

\* What the goroutines share about a job is written by a delivery, a goroutine, a cancel
\* and an exit.
LEMMA JobFrame ==
  ASSUME [Next]_vars
  PROVE  \/ UNCHANGED job
         \/ \E i \in Item : DeliverRoute(i) \/ DeliverHand(i)
         \/ \E e \in Exec : WorkerAmend(e) \/ WorkerHold(e)
         \/ \E c \in Canceller : CancelFlag(c)
         \/ FreshMemory /\ phase' = "down"
<1>1. CASE TurnAction
  BY <1>1 DEF TurnAction, DispatchRow, WordArrives, DispatchAppend, DispatchFails, DispatchEnqueue,
        DispatchPump, WordsEnd, ReadOutcomes
<1>2. CASE CancelAction
  BY <1>2 DEF CancelAction, Cancelling, CancelBegin, CancelLook, CancelAsk, CancelLock, CancelReport,
        CancelPost, CancelFails
<1>3. CASE \E e \in Exec : Worker(e)
  BY <1>3 DEF Worker, WorkerCheck, WorkerMark, WorkerSetup, WorkerScriptEnds, WorkerArm, WorkerStart,
        WorkerFails, WorkerVerdict, WorkerReport, WorkerPost, WorkerReportFails, WorkerRemove, WorkerPump
<1>4. CASE Life
  BY <1>4 DEF Life, Start, RecoverReport, RecoverPost, RecoverFails, Serve, Stop, ShutdownReturns,
        Exit, Crash
<1>5. CASE UNCHANGED vars \/ PumpTimer \/ \E e \in Exec : CliEnds(e)
  BY <1>5 DEF vars, PumpTimer, CliEnds
<1> QED
  BY <1>1, <1>2, <1>3, <1>4, <1>5, Actors

\* Turns, words and what was heard are changed by the turns and by an exit.
LEMMA TurnFrame ==
  ASSUME [Next]_vars
  PROVE  \/ UNCHANGED <<turn, word, heard>>
         \/ TurnAction /\ UNCHANGED <<phase, cancel, fix, cli, asked>>
         \/ FreshMemory /\ phase' = "down" /\ UNCHANGED <<word, heard>>
<1>1. CASE TurnAction
  BY <1>1 DEF TurnAction, DispatchRow, WordArrives, DispatchAppend, DispatchFails, DispatchEnqueue,
        DispatchPump, DeliverRoute, DeliverHand, WordsEnd, ReadOutcomes, dbVars
<1>2. CASE CancelAction
  BY <1>2 DEF CancelAction, Cancelling, CancelBegin, CancelLook, CancelAsk, CancelLock, CancelFlag,
        CancelReport, CancelPost, CancelFails, OnlyCancel
<1>3. CASE \E e \in Exec : Worker(e)
  BY <1>3 DEF Worker, WorkerCheck, WorkerMark, WorkerAmend, WorkerSetup, WorkerScriptEnds, WorkerArm,
        WorkerStart, WorkerFails, WorkerHold, WorkerVerdict, WorkerReport, WorkerPost,
        WorkerReportFails, WorkerRemove, WorkerPump, OnlyWorker
<1>4. CASE Life
  BY <1>4 DEF Life, Start, RecoverReport, RecoverPost, RecoverFails, Serve, Stop, ShutdownReturns,
        Exit, Crash
<1>5. CASE UNCHANGED vars \/ PumpTimer \/ \E e \in Exec : CliEnds(e)
  BY <1>5 DEF vars, PumpTimer, CliEnds
<1> QED
  BY <1>1, <1>2, <1>3, <1>4, <1>5, Actors

\* Calls that cancel, and the recovery, go on by themselves.
LEMMA CallFrame ==
  ASSUME [Next]_vars
  PROVE  \/ UNCHANGED <<cancel, fix, phase>>
         \/ CancelAction /\ UNCHANGED <<fix, phase, heard, word, turn, wk>>
         \/ Start \/ RecoverReport \/ RecoverPost \/ RecoverFails \/ Serve
         \/ (Stop \/ ShutdownReturns) /\ UNCHANGED <<cancel, fix>>
         \/ FreshMemory /\ phase' = "down"
<1>1. CASE TurnAction
  BY <1>1 DEF TurnAction, DispatchRow, WordArrives, DispatchAppend, DispatchFails, DispatchEnqueue,
        DispatchPump, DeliverRoute, DeliverHand, WordsEnd, ReadOutcomes
<1>2. CASE CancelAction
  BY <1>2 DEF CancelAction, Cancelling, CancelBegin, CancelLook, CancelAsk, CancelLock, CancelFlag,
        CancelReport, CancelPost, CancelFails, OnlyCancel
<1>3. CASE \E e \in Exec : Worker(e)
  BY <1>3 DEF Worker, WorkerCheck, WorkerMark, WorkerAmend, WorkerSetup, WorkerScriptEnds, WorkerArm,
        WorkerStart, WorkerFails, WorkerHold, WorkerVerdict, WorkerReport, WorkerPost,
        WorkerReportFails, WorkerRemove, WorkerPump, OnlyWorker
<1>4. CASE Life
  BY <1>4 DEF Life, Stop, ShutdownReturns, Exit, Crash
<1>5. CASE UNCHANGED vars \/ PumpTimer \/ \E e \in Exec : CliEnds(e)
  BY <1>5 DEF vars, PumpTimer, CliEnds
<1> QED
  BY <1>1, <1>2, <1>3, <1>4, <1>5, Actors

-----------------------------------------------------------------------------
(* Type correctness, and the calls and the queue it rests on *)

Core == PoolTypeOK /\ CallInv /\ QueueInv

\* A goroutine works on an execution that has a row.
LEMMA WorkerHasRow ==
  ASSUME Core, NEW e \in Exec, wk[e].pc # "none"
  PROVE  born[e] > 0 /\ ~Entering(e)
  BY DEF Core, PoolTypeOK, RowTypeOK, QueueInv, Entering

\* What a goroutine does keeps to its own place.
LEMMA RowTypeStep ==
  ASSUME Core, [Next]_vars
  PROVE  RowTypeOK'
<1> USE DEF RowTypeOK
<1>1. RowTypeOK
  BY DEF Core, PoolTypeOK
<1>2. CASE UNCHANGED dbVars
  BY <1>1, <1>2 DEF dbVars
<1>3. ASSUME NEW i \in Item, NEW e \in Exec, DispatchRow(i, e)
      PROVE  RowTypeOK'
  <2> DEFINE n == 1 + Cardinality({f \in Exec : born[f] > 0})
  <2>1. n \in Nat /\ n > 0
    BY WorkerPoolAssumption, FS_Subset, FS_CardinalityType
  <2>2. /\ born' = [born EXCEPT ![e] = n] /\ status' = [status EXCEPT ![e] = "queued"]
        /\ UNCHANGED <<posted, asked>>
    BY <1>3 DEF DispatchRow
  <2> HIDE DEF n
  <2> QED
    BY <1>1, <2>1, <2>2 DEF Statuses
<1>4. ASSUME NEW e \in Exec, WorkerMark(e)
      PROVE  RowTypeOK'
  BY <1>1, <1>4, WorkerHasRow DEF WorkerMark, At, Statuses
<1>5. ASSUME NEW e \in Exec, WorkerReport(e)
      PROVE  RowTypeOK'
  <2>1. wk[e].out \in Outcomes /\ born[e] > 0
    BY <1>5, WorkerHasRow DEF WorkerReport, At, Core, CallInv
  <2> QED
    BY <1>1, <1>5, <2>1 DEF WorkerReport, At, Statuses, Outcomes
<1>6. ASSUME NEW e \in Exec, WorkerPost(e)
      PROVE  RowTypeOK'
  <2>1. wk[e].out \in Outcomes
    BY <1>6 DEF WorkerPost, At, Core, CallInv
  <2> QED
    BY <1>1, <1>6, <2>1 DEF WorkerPost
<1>7. ASSUME NEW c \in Canceller, CancelAsk(c)
      PROVE  RowTypeOK'
  BY <1>1, <1>7 DEF CancelAsk, CancelAt, Core, CallInv
<1>8. ASSUME NEW c \in Canceller, CancelReport(c)
      PROVE  RowTypeOK'
  BY <1>1, <1>8 DEF CancelReport, CancelAt, Core, CallInv, Statuses, Outcomes
<1>9. ASSUME NEW c \in Canceller, CancelPost(c)
      PROVE  RowTypeOK'
  BY <1>1, <1>9 DEF CancelPost, CancelAt, Core, CallInv, Outcomes
<1>10. ASSUME RecoverReport
       PROVE  RowTypeOK'
  <2> DEFINE e == OldestOf(fix.left \ Jobs)
  <2>1. fix.left \in SUBSET Exec
    BY DEF Core, PoolTypeOK, CallTypeOK
  <2>2. e \in fix.left
    <3>1. PICK S : S = fix.left \ Jobs
      OBVIOUS
    <3>2. S \in SUBSET Exec /\ S # {}
      BY <1>10, <2>1, <3>1 DEF RecoverReport
    <3>3. OldestOf(S) \in S
      BY <1>1, <3>2, OldestOfIn
    <3> QED
      BY <3>1, <3>3
  <2>3. e \in Exec /\ born[e] > 0
    BY <2>1, <2>2 DEF Core, CallInv
  <2>4. status' = [status EXCEPT ![e] = "lost"] /\ UNCHANGED <<born, posted, asked>>
    BY <1>10 DEF RecoverReport
  <2> HIDE DEF e
  <2> QED
    BY <1>1, <2>3, <2>4 DEF Statuses, Outcomes
<1>11. ASSUME RecoverPost
       PROVE  RowTypeOK'
  <2>1. fix.exec \in Exec
    BY <1>11 DEF RecoverPost, Core, PoolTypeOK, CallTypeOK
  <2> QED
    BY <1>1, <1>11, <2>1 DEF RecoverPost, Outcomes
<1> QED
  BY <1>2, <1>3, <1>4, <1>5, <1>6, <1>7, <1>8, <1>9, <1>10, <1>11, DbFrame

LEMMA GotoIs ==
  ASSUME JobTypeOK, NEW e \in Exec, NEW p, Goto(e, p)
  PROVE  wk' = [wk EXCEPT ![e] = [pc |-> p, out |-> wk[e].out]]
<1>1. wk[e] \in WkType
  BY DEF JobTypeOK, WkType
<1>2. PICK q \in WorkerPcs, o \in Outcomes \cup {"none"} : wk[e] = [pc |-> q, out |-> o]
  BY <1>1 DEF WkType
<1>3. [wk[e] EXCEPT !.pc = p] = [pc |-> p, out |-> wk[e].out]
  BY <1>2
<1> QED
  BY <1>3 DEF Goto

\* A goroutine leaves the others, and what was started, alone.
LEMMA WorkerQueue ==
  ASSUME Core, NEW e \in Exec, Worker(e)
  PROVE  /\ e \in running \/ wk[e].pc = "pump"
         /\ \/ /\ UNCHANGED <<order, running>>
               /\ \E p \in WorkerPcs, o \in Outcomes \cup {"none"} :
                    /\ wk' = [wk EXCEPT ![e] = [pc |-> p, out |-> o]]
                    /\ p \notin {"none", "pump"} /\ wk[e].pc # "pump"
                    /\ p \in {"report", "post"} => o \in Outcomes
            \/ WorkerRemove(e) \/ WorkerPump(e)
<1> DEFINE Moves ==
      /\ UNCHANGED <<order, running>> /\ e \in running
      /\ \E p \in WorkerPcs, o \in Outcomes \cup {"none"} :
           /\ wk' = [wk EXCEPT ![e] = [pc |-> p, out |-> o]]
           /\ p \notin {"none", "pump"} /\ wk[e].pc # "pump"
           /\ p \in {"report", "post"} => o \in Outcomes
<1>1. wk[e] \in WkType /\ (e \in running <=> wk[e].pc \notin {"none", "pump"})
      /\ wk \in [Exec -> WkType]
  BY DEF Core, PoolTypeOK, JobTypeOK, WkType
<1>2. ASSUME NEW p \in WorkerPcs \ {"none", "pump", "report", "post"}, Goto(e, p),
             UNCHANGED <<order, running>>, wk[e].pc \notin {"none", "pump"}
      PROVE  Moves
  <2>1. wk' = [wk EXCEPT ![e] = [pc |-> p, out |-> wk[e].out]]
    BY <1>2, GotoIs DEF Core, PoolTypeOK
  <2> QED
    BY <1>1, <1>2, <2>1 DEF WkType
<1>3. ASSUME NEW o \in Outcomes, Ends(e, o),
             UNCHANGED <<order, running>>, wk[e].pc \notin {"none", "pump"}
      PROVE  Moves
  BY <1>1, <1>3 DEF Ends, WorkerPcs
<1>4. ASSUME WorkerReport(e)
      PROVE  Moves
  <2>1. wk' = [wk EXCEPT ![e] = [pc |-> "post", out |-> wk[e].out]] /\ wk[e].pc = "report"
        /\ UNCHANGED <<order, running>>
    BY <1>4, GotoIs DEF WorkerReport, At, Core, PoolTypeOK, OnlyWorker, poolVars
  <2>2. wk[e].out \in Outcomes
    BY <2>1 DEF Core, CallInv
  <2> QED
    BY <1>1, <2>1, <2>2 DEF WorkerPcs
<1> USE DEF At, OnlyWorker, poolVars, WorkerPcs
<1>5. CASE WorkerCheck(e) \/ WorkerMark(e) \/ WorkerAmend(e) \/ WorkerSetup(e)
  BY <1>2, <1>5 DEF WorkerCheck, WorkerMark, WorkerAmend, WorkerSetup
<1>6. CASE WorkerScriptEnds(e) \/ WorkerStart(e) \/ WorkerHold(e) \/ WorkerPost(e)
  BY <1>2, <1>6 DEF WorkerScriptEnds, WorkerStart, WorkerHold, WorkerPost
<1>7. CASE WorkerReportFails(e)
  BY <1>2, <1>7 DEF WorkerReportFails
<1>8. CASE WorkerArm(e)
  BY <1>2, <1>3, <1>8 DEF WorkerArm, Outcomes
<1>9. CASE WorkerFails(e) \/ WorkerVerdict(e)
  BY <1>3, <1>9 DEF WorkerFails, WorkerVerdict, Outcomes
<1>10. CASE WorkerRemove(e)
  BY <1>1, <1>10 DEF WorkerRemove
<1>11. CASE WorkerPump(e)
  BY <1>11 DEF WorkerPump
<1> QED
  BY <1>4, <1>5, <1>6, <1>7, <1>8, <1>9, <1>10, <1>11 DEF Worker

\* The queue, the goroutines and the limit.
QueueOK ==
  /\ order \in Seq(Exec) /\ running \subseteq Jobs /\ wk \in [Exec -> WkType]
  /\ \A e \in Exec : e \in running <=> wk[e].pc \notin {"none", "pump"}
  /\ Distinct(order)
  /\ \A e \in Exec : wk[e].pc = "pump" => e \notin Jobs
  /\ \A e, f \in running : ItemOf[e] = ItemOf[f] => e = f
  /\ Cardinality(running) <= MaxWorkers

\* Pump over the queue as it is.
LEMMA PumpKeepsQueue ==
  ASSUME Core, QueueOK, UNCHANGED order, Pump(wk)
  PROVE  QueueOK'
<1>1. /\ wk' \in [Exec -> WkType] /\ running \subseteq running' /\ running' \subseteq Jobs
      /\ \A e \in Exec :
           \/ e \in running' \ running /\ e \in Jobs /\ wk'[e] = [pc |-> "check", out |-> "none"]
           \/ (e \in running' <=> e \in running) /\ wk'[e] = wk[e]
      /\ \A e, f \in running' : ItemOf[e] = ItemOf[f] => e = f
      /\ Cardinality(running') <= MaxWorkers
  BY PumpStarts DEF Core, PoolTypeOK, QueueOK
<1>2. Jobs' = Jobs
  BY DEF Jobs
<1> QED
  BY <1>1, <1>2 DEF QueueOK

LEMMA QueueStep ==
  ASSUME Core, [Next]_vars
  PROVE  QueueOK'
<1>1. QueueOK
  BY DEF Core, PoolTypeOK, JobTypeOK, QueueInv, QueueOK, Distinct, WkType
<1>2. CASE UNCHANGED <<order, running, wk>>
  BY <1>1, <1>2 DEF QueueOK, Jobs
<1>3. ASSUME NEW i \in Item, DispatchEnqueue(i)
      PROVE  QueueOK'
  <2> DEFINE e == turn[i].exec
  <2>1. e \in Exec /\ ItemOf[e] = i /\ turn[i].pc = "enqueue"
    BY <1>3 DEF DispatchEnqueue, Core, CallInv, OfItem
  <2>2. e \notin Jobs /\ wk[e].pc = "none"
    BY <2>1 DEF Core, QueueInv, Entering
  <2>3. order' = Append(order, e) /\ UNCHANGED <<running, wk>>
    BY <1>3 DEF DispatchEnqueue
  <2> HIDE DEF e
  <2>4. order' \in Seq(Exec) /\ Jobs' = Jobs \cup {e} /\ Distinct(order')
    BY <1>1, <2>1, <2>2, <2>3, AppendedTo DEF QueueOK, Jobs
  <2> QED
    BY <1>1, <2>2, <2>3, <2>4 DEF QueueOK
<1>4. ASSUME NEW i \in Item, DispatchPump(i)
      PROVE  QueueOK'
  BY <1>1, <1>4, PumpKeepsQueue DEF DispatchPump
<1>5. CASE PumpTimer
  BY <1>1, <1>5, PumpKeepsQueue DEF PumpTimer
<1>6. ASSUME NEW c \in Canceller, CancelLock(c)
      PROVE  QueueOK'
  <2> DEFINE e == cancel[c].exec
  <2>1. CASE e \in running
    BY <1>1, <1>6, <2>1 DEF CancelLock, OnlyCancel, QueueOK, Jobs
  <2>2. CASE e \notin running
    <3>1. order' = Dequeued(e) /\ UNCHANGED <<running, wk>>
      BY <1>6, <2>2 DEF CancelLock, OnlyCancel
    <3>2. order' \in Seq(Exec) /\ Jobs' = Jobs \ {e} /\ Distinct(order')
      BY <1>1, <3>1, DequeuedKeeps DEF QueueOK, Jobs, Dequeued
    <3> QED
      BY <1>1, <2>2, <3>1, <3>2 DEF QueueOK
  <2> QED
    BY <2>1, <2>2
<1>7. ASSUME NEW e \in Exec, Worker(e)
      PROVE  QueueOK'
  <2>1. CASE WorkerRemove(e)
    <3>1. /\ order' = Dequeued(e) /\ running' = running \ {e} /\ wk[e].pc = "remove"
          /\ wk' = [wk EXCEPT ![e] = [pc |-> "pump", out |-> wk[e].out]]
      BY <2>1, GotoIs DEF WorkerRemove, At, Core, PoolTypeOK
    <3>2. order' \in Seq(Exec) /\ Jobs' = Jobs \ {e} /\ Distinct(order')
      BY <1>1, <3>1, DequeuedKeeps DEF QueueOK, Jobs, Dequeued
    <3>3. wk' \in [Exec -> WkType] /\ wk'[e].pc = "pump" /\ \A f \in Exec \ {e} : wk'[f] = wk[f]
      BY <1>1, <3>1 DEF QueueOK, WkType, WorkerPcs
    <3>4. Cardinality(running') <= MaxWorkers
      <4>1. IsFiniteSet(running)
        BY <1>1, WorkerPoolAssumption, FS_Subset DEF QueueOK, Jobs, ToSet
      <4>2. Cardinality(running') <= Cardinality(running)
            /\ Cardinality(running') \in Nat /\ Cardinality(running) \in Nat
        BY <3>1, <4>1, FS_RemoveElement, FS_Subset, FS_CardinalityType
      <4> QED
        BY <1>1, <4>2, WorkerPoolAssumption DEF QueueOK
    <3> QED
      BY <1>1, <3>1, <3>2, <3>3, <3>4 DEF QueueOK
  <2>2. CASE WorkerPump(e)
    <3> DEFINE w == [wk EXCEPT ![e] = NoWork]
    <3>1. UNCHANGED order /\ wk[e].pc = "pump" /\ Pump(w)
      BY <2>2 DEF WorkerPump, At
    <3>2. w \in [Exec -> WkType] /\ w[e].pc = "none" /\ \A f \in Exec \ {e} : w[f] = wk[f]
      BY <1>1 DEF QueueOK, NoWork, WkType, WorkerPcs
    <3>3. \A f \in Exec : f \in running <=> w[f].pc \notin {"none", "pump"}
      BY <1>1, <3>1, <3>2 DEF QueueOK
    <3> HIDE DEF w
    <3>4. /\ wk' \in [Exec -> WkType] /\ running \subseteq running' /\ running' \subseteq Jobs
          /\ \A f \in Exec :
               \/ f \in running' \ running /\ f \in Jobs /\ wk'[f] = [pc |-> "check", out |-> "none"]
               \/ (f \in running' <=> f \in running) /\ wk'[f] = w[f]
          /\ \A f, g \in running' : ItemOf[f] = ItemOf[g] => f = g
          /\ Cardinality(running') <= MaxWorkers
      BY <3>1, <3>2, <3>3, PumpStarts DEF Core, PoolTypeOK
    <3>5. Jobs' = Jobs
      BY <3>1 DEF Jobs
    <3> QED
      BY <1>1, <3>1, <3>2, <3>3, <3>4, <3>5 DEF QueueOK
  <2>3. ASSUME UNCHANGED <<order, running>>, NEW p \in WorkerPcs, NEW o \in Outcomes \cup {"none"},
               wk' = [wk EXCEPT ![e] = [pc |-> p, out |-> o]],
               p \notin {"none", "pump"}, wk[e].pc # "pump", e \in running
        PROVE  QueueOK'
    <3>1. Jobs' = Jobs
      BY <2>3 DEF Jobs
    <3>2. wk' \in [Exec -> WkType] /\ wk'[e].pc = p /\ \A f \in Exec \ {e} : wk'[f] = wk[f]
      BY <1>1, <2>3 DEF QueueOK, WkType
    <3> QED
      BY <1>1, <2>3, <3>1, <3>2 DEF QueueOK
  <2> QED
    BY <1>7, <2>1, <2>2, <2>3, WorkerQueue
<1>8. CASE FreshMemory
  <2>1. order' = <<>> /\ running' = {} /\ wk' = [e \in Exec |-> NoWork]
    BY <1>8 DEF FreshMemory
  <2>2. Cardinality(running') <= MaxWorkers
    BY <2>1, FS_EmptySet, WorkerPoolAssumption
  <2>3. Jobs' = {}
    BY <2>1 DEF Jobs, ToSet
  <2>4. order' \in Seq(Exec) /\ Distinct(order')
    BY <2>1 DEF Distinct
  <2> QED
    BY <2>1, <2>2, <2>3, <2>4 DEF QueueOK, WkType, NoWork, WorkerPcs
<1> QED
  BY <1>2, <1>3, <1>4, <1>5, <1>6, <1>7, <1>8, QueueFrame

JobType == [amend : SUBSET Word, told : SUBSET Word, buffer : SUBSET Word, taken : SUBSET Word,
            cancelled : BOOLEAN, held : BOOLEAN, cut : BOOLEAN]

\* Deliver puts the word in hand, and nothing else, into a job.
LEMMA WordInHand ==
  ASSUME Core, NEW i \in Item, turn[i].pc \in {"route", "hand"}
  PROVE  /\ turn[i].word \in Word
         /\ turn[i].pc = "hand" => turn[i].to \in Exec
         /\ FirstJob(i) # None => FirstJob(i) \in Jobs \cap Exec /\ ItemOf[FirstJob(i)] = i
         /\ FirstJob(i) = None => \A e \in Jobs : ItemOf[e] # i
  BY FirstJobIn, PositionIn DEF Core, CallInv, PoolTypeOK, JobTypeOK, OfItem

LEMMA JobStep ==
  ASSUME Core, [Next]_vars
  PROVE  job' \in [Exec -> JobType]
<1>1. job \in [Exec -> JobType]
  BY DEF Core, PoolTypeOK, JobTypeOK, JobType
<1>2. ASSUME NEW i \in Item, DeliverRoute(i)
      PROVE  job' \in [Exec -> JobType]
  BY <1>1, <1>2, WordInHand DEF DeliverRoute, Missed, Amended, ToRun, JobType
<1>3. ASSUME NEW i \in Item, DeliverHand(i)
      PROVE  job' \in [Exec -> JobType]
  BY <1>1, <1>3, WordInHand DEF DeliverHand, Missed, JobType
<1>4. ASSUME NEW e \in Exec, WorkerAmend(e)
      PROVE  job' \in [Exec -> JobType]
  BY <1>1, <1>4 DEF WorkerAmend, JobType
<1>5. ASSUME NEW e \in Exec, WorkerHold(e)
      PROVE  job' \in [Exec -> JobType]
  <2>1. PICK accepted \in SUBSET job[e].buffer :
          job' = [job EXCEPT ![e].held = TRUE, ![e].cut = job[e].cancelled,
                             ![e].buffer = {}, ![e].taken = @ \cup accepted]
    BY <1>5 DEF WorkerHold
  <2> DEFINE r == [job[e] EXCEPT !.held = TRUE, !.cut = job[e].cancelled, !.buffer = {},
                                 !.taken = @ \cup accepted]
  <2>2. job' = [job EXCEPT ![e] = r]
    BY <2>1
  <2>3. r \in JobType
    BY <1>1 DEF JobType
  <2> HIDE DEF r
  <2> QED
    BY <1>1, <2>2, <2>3
<1>6. ASSUME NEW c \in Canceller, CancelFlag(c)
      PROVE  job' \in [Exec -> JobType]
  <2> DEFINE e == cancel[c].exec
             r == [job[e] EXCEPT !.cancelled = TRUE, !.cut = job[e].held]
  <2>1. e \in Exec
    BY <1>6 DEF CancelFlag, CancelAt, Core, CallInv
  <2>2. job' = [job EXCEPT ![e] = r]
    BY <1>6 DEF CancelFlag
  <2>3. r \in JobType
    BY <1>1, <2>1 DEF JobType
  <2> HIDE DEF e, r
  <2> QED
    BY <1>1, <2>1, <2>2, <2>3
<1>7. CASE FreshMemory
  BY <1>7 DEF FreshMemory, NoJob, JobType
<1> QED
  BY <1>1, <1>2, <1>3, <1>4, <1>5, <1>6, <1>7, JobFrame

TurnType == [pc : TurnPcs, exec : Exec \cup {None}, to : Exec \cup {None}, word : Word \cup {None}]
CancelType == [pc : CancelPcs, left : Seq(Item), exec : Exec \cup {None}, saw : SUBSET Exec]
WordType == [how : {"none", "late", "amended", "steered", "rode"},
             job : Exec \cup {None}, exec : Exec \cup {None}]

\* The active execution of an item that ManagerTurn reads.
LEMMA OldestActive ==
  ASSUME RowTypeOK, NEW S \in SUBSET Exec, Active(S) # {}
  PROVE  /\ OldestOf(Active(S)) \in S /\ status[OldestOf(Active(S))] \in {"queued", "running"}
         /\ OldestOf(Active(S)) \in Exec /\ born[OldestOf(Active(S))] > 0
<1>1. Active(S) \in SUBSET Exec
  BY DEF Active
<1>2. OldestOf(Active(S)) \in Active(S)
  BY <1>1, OldestOfIn
<1> QED
  BY <1>2 DEF Active, RowTypeOK

LEMMA TurnTypeStep ==
  ASSUME Core, [Next]_vars
  PROVE  turn' \in [Item -> TurnType] /\ word' \in [Word -> WordType] /\ heard' \in [Exec -> Nat]
<1>1. turn \in [Item -> TurnType] /\ word \in [Word -> WordType] /\ heard \in [Exec -> Nat]
  BY DEF Core, PoolTypeOK, CallTypeOK, TurnType, WordType
<1> USE DEF TurnType, TurnPcs
<1>2. ASSUME NEW i \in Item, NEW e \in Exec, DispatchRow(i, e)
      PROVE  turn' \in [Item -> TurnType] /\ UNCHANGED <<word, heard>>
  <2> DEFINE r == [turn[i] EXCEPT !.pc = "append", !.exec = e]
  <2>1. turn' = [turn EXCEPT ![i] = r] /\ UNCHANGED <<word, heard>>
    BY <1>2 DEF DispatchRow
  <2>2. r \in TurnType
    BY <1>1
  <2> HIDE DEF r
  <2> QED
    BY <1>1, <2>1, <2>2
<1>3. ASSUME NEW i \in Item, NEW w \in Word, WordArrives(i, w)
      PROVE  turn' \in [Item -> TurnType] /\ UNCHANGED <<word, heard>>
  <2>1. Active(OfItem(i)) # {} => OldestOf(Active(OfItem(i))) \in Exec
    BY OldestActive DEF Core, PoolTypeOK, OfItem
  <2> DEFINE o == OldestOf(Active(OfItem(i)))
             r == [turn[i] EXCEPT !.pc = "route", !.word = w]
             s == [Idle EXCEPT !.pc = "route", !.word = w, !.exec = o]
  <2>2. \/ turn' = [turn EXCEPT ![i] = r]
        \/ o \in Exec /\ turn' = [turn EXCEPT ![i] = s]
    BY <1>3, <2>1 DEF WordArrives
  <2>3. r \in TurnType /\ (o \in Exec => s \in TurnType)
    <3> HIDE DEF o
    <3>1. Idle \in TurnType
      BY DEF Idle
    <3>2. \A t \in TurnType : [t EXCEPT !.pc = "route", !.word = w] \in TurnType
      OBVIOUS
    <3>3. \A t \in TurnType : o \in Exec => [t EXCEPT !.pc = "route", !.word = w, !.exec = o] \in TurnType
      OBVIOUS
    <3> QED
      BY <1>1, <3>1, <3>2, <3>3
  <2> HIDE DEF o, r, s
  <2>4. turn' \in [Item -> TurnType]
    BY <1>1, <2>2, <2>3
  <2> QED
    BY <1>3, <2>4 DEF WordArrives
<1>4. ASSUME NEW i \in Item, DispatchAppend(i) \/ DispatchFails(i) \/ DispatchEnqueue(i) \/ DispatchPump(i)
      PROVE  turn' \in [Item -> TurnType] /\ UNCHANGED <<word, heard>>
  <2>1. UNCHANGED <<word, heard>>
    BY <1>4 DEF DispatchAppend, DispatchFails, DispatchEnqueue, DispatchPump
  <2>2. \/ turn' = [turn EXCEPT ![i] = Idle]
        \/ \E p \in TurnPcs : turn' = [turn EXCEPT ![i].pc = p]
    BY <1>4 DEF DispatchAppend, DispatchFails, DispatchEnqueue, DispatchPump, TurnGoto
  <2> QED
    BY <1>1, <2>1, <2>2 DEF Idle
<1>5. ASSUME NEW i \in Item, WordsEnd(i)
      PROVE  turn' \in [Item -> TurnType] /\ UNCHANGED <<word, heard>>
  BY <1>1, <1>5 DEF WordsEnd, Idle
<1>6. ASSUME NEW i \in Item, ReadOutcomes(i)
      PROVE  turn' \in [Item -> TurnType] /\ word' \in [Word -> WordType] /\ heard' \in [Exec -> Nat]
  <2>1. UNCHANGED turn
    BY <1>6 DEF ReadOutcomes
  <2>2. heard' \in [Exec -> Nat]
    BY <1>1, <1>6 DEF ReadOutcomes, Core, PoolTypeOK, RowTypeOK
  <2>3. word' \in [Word -> WordType]
    BY <1>1, <1>6 DEF ReadOutcomes, WordType
  <2> QED
    BY <1>1, <2>1, <2>2, <2>3
<1>7. ASSUME NEW i \in Item, turn[i].pc \in {"route", "hand"}, NEW how \in {"late", "amended", "steered"},
             NEW e \in Exec \cup {None}, Recorded(i, how, e)
      PROVE  turn' \in [Item -> TurnType] /\ word' \in [Word -> WordType]
  <2>1. turn[i].word \in Word
    BY <1>7, WordInHand
  <2>2. word' \in [Word -> WordType]
    BY <1>1, <1>7, <2>1 DEF Recorded, WordType
  <2>3. turn' \in [Item -> TurnType]
    BY <1>1, <1>7 DEF Recorded
  <2> QED
    BY <2>2, <2>3
<1>8. ASSUME NEW i \in Item, DeliverRoute(i)
      PROVE  turn' \in [Item -> TurnType] /\ word' \in [Word -> WordType] /\ UNCHANGED heard
  <2>1. turn[i].pc = "route" /\ UNCHANGED heard
    BY <1>8 DEF DeliverRoute
  <2>2. CASE ToRun(i, FirstJob(i)) /\ FirstJob(i) \in running
    <3> DEFINE e == FirstJob(i)
               r == [turn[i] EXCEPT !.pc = "hand", !.to = e]
    <3>1. e \in Exec
      BY <2>2 DEF Core, PoolTypeOK, JobTypeOK, Jobs, ToSet
    <3>2. turn' = [turn EXCEPT ![i] = r] /\ UNCHANGED word
      BY <2>2 DEF ToRun
    <3> HIDE DEF e
    <3>3. r \in TurnType
      BY <1>1, <3>1
    <3> HIDE DEF r
    <3> QED
      BY <1>1, <2>1, <3>2, <3>3
  <2>3. CASE Missed(i)
    BY <1>7, <2>1, <2>3 DEF Missed
  <2>4. CASE FirstJob(i) # None /\ Amended(i, FirstJob(i))
    BY <1>7, <2>1, <2>4, WordInHand DEF Amended
  <2> QED
    BY <1>8, <2>1, <2>2, <2>3, <2>4 DEF DeliverRoute
<1>9. ASSUME NEW i \in Item, DeliverHand(i)
      PROVE  turn' \in [Item -> TurnType] /\ word' \in [Word -> WordType] /\ UNCHANGED heard
  <2>1. turn[i].pc = "hand" /\ UNCHANGED heard
    BY <1>9 DEF DeliverHand
  <2>2. turn[i].to \in Exec
    BY <2>1, WordInHand
  <2>3. Recorded(i, "late", None) \/ Recorded(i, "steered", turn[i].to)
    BY <1>9 DEF DeliverHand, Missed
  <2> QED
    BY <1>7, <2>1, <2>2, <2>3
<1>10. CASE FreshMemory /\ UNCHANGED <<word, heard>>
  BY <1>1, <1>10 DEF FreshMemory, Idle
<1> QED
  BY <1>1, <1>2, <1>3, <1>4, <1>5, <1>6, <1>8, <1>9, <1>10, TurnFrame DEF TurnAction

\* The loop of CancelTree ends when no node is left.
LEMMA NextNode ==
  ASSUME cancel \in [Canceller -> CancelType], NEW c \in Canceller, cancel[c].left # <<>>, CancelNext(c)
  PROVE  /\ cancel' \in [Canceller -> CancelType]
         /\ cancel'[c].pc \in {"over", "look"} /\ cancel'[c].exec = None
         /\ cancel'[c].pc = "look" => cancel'[c].left # <<>>
         /\ \A d \in Canceller \ {c} : cancel'[d] = cancel[d]
<1> DEFINE s == cancel[c].left
           p == IF Len(s) = 1 THEN "over" ELSE "look"
           r == [cancel[c] EXCEPT !.left = Tail(@), !.exec = None, !.pc = p]
<1>1. s \in Seq(Item) /\ s # <<>>
  BY DEF CancelType
<1>2. Tail(s) \in Seq(Item) /\ Len(Tail(s)) = Len(s) - 1 /\ Len(s) \in Nat
  BY <1>1
<1>3. p \in CancelPcs /\ p \in {"over", "look"} /\ (p = "look" => Tail(s) # <<>>)
  <2>1. p = "look" => Len(Tail(s)) # 0
    BY <1>2
  <2>2. Len(<<>>) = 0
    OBVIOUS
  <2> QED
    BY <2>1, <2>2 DEF CancelPcs
<1>4. cancel' = [cancel EXCEPT ![c] = r]
  BY DEF CancelNext
<1>5. r \in CancelType /\ r.pc = p /\ r.exec = None /\ r.left = Tail(s)
  <2> HIDE DEF p
  <2>1. cancel[c] \in CancelType
    OBVIOUS
  <2> QED
    BY <1>2, <1>3, <2>1 DEF CancelType
<1> HIDE DEF r, s, p
<1> QED
  BY <1>3, <1>4, <1>5

\* What a call of CancelTree has in hand.
CallOK(r) ==
  /\ r.pc \in {"look", "ask", "lock", "flag", "report", "post"} => r.left # <<>>
  /\ r.pc \in {"ask", "lock", "flag", "report", "post"} => r.exec \in Exec /\ born[r.exec] > 0

LEMMA CancelStep ==
  ASSUME Core, NEW c \in Canceller, Cancelling(c) \/ \E tree \in Trees : CancelBegin(c, tree)
  PROVE  /\ cancel' \in [Canceller -> CancelType] /\ CallOK(cancel'[c])
         /\ \A d \in Canceller \ {c} : cancel'[d] = cancel[d]
         /\ cancel[c].pc \in {"new", "look", "ask", "lock", "flag", "report", "post"}
<1> DEFINE Moves == /\ cancel' \in [Canceller -> CancelType] /\ CallOK(cancel'[c])
                    /\ \A d \in Canceller \ {c} : cancel'[d] = cancel[d]
<1>1. cancel \in [Canceller -> CancelType] /\ CallOK(cancel[c]) /\ cancel[c] \in CancelType
  BY DEF Core, PoolTypeOK, CallTypeOK, CallInv, CallOK, CancelType
<1>2. ASSUME CancelNext(c), cancel[c].left # <<>>
      PROVE  Moves
  BY <1>1, <1>2, NextNode DEF CallOK
<1>3. ASSUME NEW q \in {"lock", "flag", "report", "post"}, CancelGoto(c, q),
             cancel[c].pc \in {"ask", "lock", "report"}
      PROVE  Moves
  <2> DEFINE r == [cancel[c] EXCEPT !.pc = q]
  <2>1. cancel' = [cancel EXCEPT ![c] = r]
    BY <1>3 DEF CancelGoto
  <2>2. r \in CancelType /\ CallOK(r)
    BY <1>1, <1>3 DEF CancelType, CancelPcs, CallOK
  <2> HIDE DEF r
  <2> QED
    BY <1>1, <2>1, <2>2
<1>4. ASSUME CancelLook(c)
      PROVE  Moves
  <2> DEFINE S == OfItem(Head(cancel[c].left))
             o == OldestOf(Active(S))
             r == [cancel[c] EXCEPT !.pc = "ask", !.exec = o]
  <2>1. cancel[c].pc = "look" /\ cancel[c].left # <<>>
    BY <1>1, <1>4 DEF CancelLook, CancelAt, CallOK
  <2>2. CASE CancelNext(c)
    BY <1>2, <2>1, <2>2
  <2>3. CASE Active(S) # {} /\ cancel' = [cancel EXCEPT ![c].pc = "ask", ![c].exec = o]
    <3>1. o \in Exec /\ born[o] > 0
      BY <2>3, OldestActive DEF Core, PoolTypeOK, OfItem
    <3>2. cancel' = [cancel EXCEPT ![c] = r]
      BY <2>3
    <3> HIDE DEF o
    <3>3. r \in CancelType /\ CallOK(r)
      BY <1>1, <2>1, <3>1 DEF CancelType, CancelPcs, CallOK
    <3> HIDE DEF r
    <3> QED
      BY <1>1, <3>2, <3>3
  <2> QED
    BY <1>4, <2>2, <2>3 DEF CancelLook
<1>5. ASSUME CancelAsk(c) \/ CancelLock(c) \/ CancelReport(c)
      PROVE  Moves
  BY <1>3, <1>5 DEF CancelAsk, CancelLock, CancelReport, CancelAt
<1>6. ASSUME CancelFlag(c) \/ CancelPost(c)
      PROVE  Moves
  BY <1>1, <1>2, <1>6 DEF CancelFlag, CancelPost, CancelAt, CallOK
<1>7. ASSUME CancelFails(c)
      PROVE  Moves
  <2> DEFINE r == [cancel[c] EXCEPT !.pc = "failed", !.exec = None]
  <2>1. cancel' = [cancel EXCEPT ![c] = r]
    BY <1>7 DEF CancelFails
  <2>2. r \in CancelType /\ CallOK(r)
    BY <1>1 DEF CancelType, CancelPcs, CallOK
  <2> HIDE DEF r
  <2> QED
    BY <1>1, <2>1, <2>2
<1>8. ASSUME NEW tree \in Trees, CancelBegin(c, tree)
      PROVE  Moves
  <2> DEFINE A == Active({e \in Exec : ItemOf[e] \in ToSet(tree)})
             r == [pc |-> "look", left |-> tree, exec |-> None, saw |-> A]
  <2>1. A \subseteq Exec /\ tree \in Seq(Item) /\ tree # <<>>
    BY WorkerPoolAssumption DEF Active
  <2>2. cancel' = [cancel EXCEPT ![c] = r]
    BY <1>8 DEF CancelBegin
  <2> HIDE DEF A
  <2>3. r \in CancelType /\ CallOK(r)
    BY <2>1 DEF CancelType, CancelPcs, CallOK
  <2> HIDE DEF r
  <2> QED
    BY <1>1, <2>2, <2>3
<1>9. cancel[c].pc \in {"new", "look", "ask", "lock", "flag", "report", "post"}
  BY DEF Cancelling, CancelBegin, CancelLook, CancelAsk, CancelLock, CancelFlag, CancelReport,
      CancelPost, CancelFails, CancelAt
<1> QED
  BY <1>4, <1>5, <1>6, <1>7, <1>8, <1>9 DEF Cancelling

FixType == [left : SUBSET Exec, exec : Exec \cup {None}]
Phases == {"down", "recover", "serving", "stopping", "ending"}

\* Recovery takes an execution that has a row.
LEMMA RecoverTakes ==
  ASSUME Core, RecoverReport
  PROVE  /\ \E e \in fix.left :
              /\ e \in Exec /\ born[e] > 0 /\ status' = [status EXCEPT ![e] = "lost"]
              /\ fix' = [left |-> fix.left \ {e}, exec |-> e]
         /\ fix.exec = None /\ phase = "recover"
<1>1. fix.left \in SUBSET Exec
  BY DEF Core, PoolTypeOK, CallTypeOK
<1>2. OldestOf(fix.left \ Jobs) \in fix.left
  BY <1>1, OldestOfIn DEF RecoverReport, Core, PoolTypeOK
<1> QED
  BY <1>1, <1>2 DEF RecoverReport, Core, CallInv

\* Stops, crashes and faults are counted, and agents start and end.
LEMMA Counters ==
  ASSUME [Next]_vars
  PROVE  /\ stops' \in {stops, stops + 1} /\ crashes' \in {crashes, crashes + 1}
         /\ faults' \in {faults, faults + 1}
         /\ \/ UNCHANGED cli
            \/ \E e \in Exec : /\ WorkerStart(e) \/ CliEnds(e)
                              /\ \E s \in {"live", "over"} : cli' = [cli EXCEPT ![e] = s]
<1> DEFINE Goal == /\ stops' \in {stops, stops + 1} /\ crashes' \in {crashes, crashes + 1}
                   /\ faults' \in {faults, faults + 1}
                   /\ \/ UNCHANGED cli
                      \/ \E e \in Exec : /\ WorkerStart(e) \/ CliEnds(e)
                                        /\ \E s \in {"live", "over"} : cli' = [cli EXCEPT ![e] = s]
<1> USE DEF Fault, histVars
<1>1. CASE UNCHANGED vars
  BY <1>1 DEF vars
<1>2. ASSUME TurnAction
      PROVE  Goal
  <2>1. ASSUME NEW i \in Item, DispatchFails(i)
        PROVE  Goal
    BY <2>1 DEF DispatchFails
  <2>2. ASSUME NEW i \in Item, DispatchAppend(i) \/ DispatchEnqueue(i) \/ DispatchPump(i)
        PROVE  Goal
    BY <2>2 DEF DispatchAppend, DispatchEnqueue, DispatchPump
  <2>3. ASSUME NEW i \in Item, DeliverRoute(i) \/ DeliverHand(i) \/ WordsEnd(i) \/ ReadOutcomes(i)
        PROVE  Goal
    BY <2>3 DEF DeliverRoute, DeliverHand, WordsEnd, ReadOutcomes
  <2>4. ASSUME NEW i \in Item, NEW e \in Exec, DispatchRow(i, e)
        PROVE  Goal
    BY <2>4 DEF DispatchRow
  <2>5. ASSUME NEW i \in Item, NEW w \in Word, WordArrives(i, w)
        PROVE  Goal
    BY <2>5 DEF WordArrives
  <2> HIDE DEF Goal
  <2> QED
    BY <1>2, <2>1, <2>2, <2>3, <2>4, <2>5 DEF TurnAction
<1>3. ASSUME CancelAction
      PROVE  Goal
  <2> USE DEF OnlyCancel, dbVars
  <2>1. ASSUME NEW c \in Canceller, CancelFails(c)
        PROVE  Goal
    BY <2>1 DEF CancelFails
  <2>2. ASSUME NEW c \in Canceller, \E tree \in Trees : CancelBegin(c, tree)
        PROVE  Goal
    BY <2>2 DEF CancelBegin
  <2>3. ASSUME NEW c \in Canceller, CancelLook(c) \/ CancelAsk(c) \/ CancelLock(c) \/ CancelFlag(c)
        PROVE  Goal
    BY <2>3 DEF CancelLook, CancelAsk, CancelLock, CancelFlag
  <2>4. ASSUME NEW c \in Canceller, CancelReport(c) \/ CancelPost(c)
        PROVE  Goal
    BY <2>4 DEF CancelReport, CancelPost
  <2> HIDE DEF Goal
  <2> QED
    BY <1>3, <2>1, <2>2, <2>3, <2>4 DEF CancelAction, Cancelling
<1>4. ASSUME NEW e \in Exec, Worker(e)
      PROVE  Goal
  <2> USE DEF OnlyWorker
  <2>1. CASE WorkerStart(e)
    BY <2>1 DEF WorkerStart
  <2>2. CASE WorkerCheck(e) \/ WorkerFails(e) \/ WorkerReportFails(e)
    BY <2>2 DEF WorkerCheck, WorkerFails, WorkerReportFails
  <2>3. CASE WorkerMark(e) \/ WorkerAmend(e) \/ WorkerSetup(e) \/ WorkerScriptEnds(e) \/ WorkerArm(e)
    BY <2>3 DEF WorkerMark, WorkerAmend, WorkerSetup, WorkerScriptEnds, WorkerArm
  <2>4. CASE WorkerHold(e) \/ WorkerVerdict(e) \/ WorkerReport(e) \/ WorkerPost(e)
    BY <2>4 DEF WorkerHold, WorkerVerdict, WorkerReport, WorkerPost
  <2>5. CASE WorkerRemove(e) \/ WorkerPump(e)
    BY <2>5 DEF WorkerRemove, WorkerPump
  <2> QED
    BY <1>4, <2>1, <2>2, <2>3, <2>4, <2>5 DEF Worker
<1>5. CASE \E e \in Exec : CliEnds(e)
  BY <1>5 DEF CliEnds
<1>6. CASE Life
  BY <1>6 DEF Life, Start, RecoverReport, RecoverPost, RecoverFails, Serve, Stop, ShutdownReturns,
      Exit, Crash
<1>7. CASE PumpTimer
  BY <1>7 DEF PumpTimer
<1> QED
  BY <1>1, <1>2, <1>3, <1>4, <1>5, <1>6, <1>7, Actors

LEMMA LifeTypeStep ==
  ASSUME Core, [Next]_vars
  PROVE  /\ cancel' \in [Canceller -> CancelType] /\ fix' \in FixType /\ phase' \in Phases
         /\ cli' \in [Exec -> {"none", "live", "over"}]
         /\ {stops, crashes, faults}' \subseteq Nat
<1>1. /\ cancel \in [Canceller -> CancelType] /\ fix \in FixType /\ phase \in Phases
      /\ cli \in [Exec -> {"none", "live", "over"}] /\ {stops, crashes, faults} \subseteq Nat
  BY DEF Core, PoolTypeOK, CallTypeOK, CancelType, FixType, Phases
<1>2. cancel' \in [Canceller -> CancelType] /\ fix' \in FixType /\ phase' \in Phases
  <2>1. CASE UNCHANGED <<cancel, fix, phase>>
    BY <1>1, <2>1
  <2>2. CASE CancelAction /\ UNCHANGED <<fix, phase>>
    BY <1>1, <2>2, CancelStep DEF CancelAction
  <2>3. CASE RecoverReport
    <3>1. PICK e \in Exec : fix' = [left |-> fix.left \ {e}, exec |-> e]
      BY <2>3, RecoverTakes
    <3> QED
      BY <1>1, <2>3, <3>1 DEF RecoverReport, FixType
  <2>4. CASE Start \/ RecoverPost \/ RecoverFails \/ Serve \/ Stop \/ ShutdownReturns
    BY <1>1, <2>4 DEF Start, RecoverPost, RecoverFails, Serve, Stop, ShutdownReturns, FixType, Phases,
        NoFix, Active
  <2>5. CASE FreshMemory /\ phase' = "down"
    <3>1. \A c \in Canceller : cancel'[c] = cancel[c] \/ cancel'[c] = [cancel[c] EXCEPT !.pc = "failed", !.exec = None]
      BY <2>5 DEF FreshMemory
    <3>2. \A r \in CancelType : [r EXCEPT !.pc = "failed", !.exec = None] \in CancelType
      BY DEF CancelType, CancelPcs
    <3>3. ASSUME NEW c \in Canceller
          PROVE  cancel'[c] \in CancelType
      <4>1. cancel[c] \in CancelType
        BY <1>1
      <4>2. [cancel[c] EXCEPT !.pc = "failed", !.exec = None] \in CancelType
        BY <3>2, <4>1
      <4> QED
        BY <3>1, <4>1, <4>2
    <3>4. cancel' \in [Canceller -> CancelType]
      BY <2>5, <3>3 DEF FreshMemory
    <3> QED
      BY <2>5, <3>4 DEF FreshMemory, NoFix, FixType, Phases
  <2> QED
    BY <2>1, <2>2, <2>3, <2>4, <2>5, CallFrame
<1>3. cli' \in [Exec -> {"none", "live", "over"}] /\ {stops, crashes, faults}' \subseteq Nat
  BY <1>1, Counters
<1> QED
  BY <1>2, <1>3

\* The state keeps its shape.
LEMMA PoolTypeStep ==
  ASSUME Core, [Next]_vars
  PROVE  PoolTypeOK'
<1>1. RowTypeOK'
  BY RowTypeStep
<1>2. JobTypeOK'
  BY QueueStep, JobStep DEF QueueOK, JobTypeOK, JobType, WkType
<1>3. CallTypeOK'
  BY TurnTypeStep, LifeTypeStep DEF CallTypeOK, TurnType, CancelType, FixType
<1> QED
  BY <1>1, <1>2, <1>3, TurnTypeStep, LifeTypeStep DEF PoolTypeOK, WordType, Phases

\* A row stays.
LEMMA RowsStay ==
  ASSUME Core, [Next]_vars
  PROVE  /\ \A e \in Exec : born[e] > 0 => born'[e] > 0
         /\ \/ UNCHANGED born
            \/ \E i \in Item, e \in Exec : DispatchRow(i, e) /\ \A f \in Exec \ {e} : born'[f] = born[f]
<1>1. CASE UNCHANGED born
  BY <1>1
<1>2. ASSUME NEW i \in Item, NEW e \in Exec, DispatchRow(i, e)
      PROVE  \A f \in Exec \ {e} : born'[f] = born[f]
  BY <1>2 DEF DispatchRow, Core, PoolTypeOK, RowTypeOK
<1>3. UNCHANGED born \/ \E i \in Item, e \in Exec : DispatchRow(i, e)
  BY DbFrame DEF dbVars, WorkerMark, WorkerReport, WorkerPost, CancelAsk, CancelReport, CancelPost,
      RecoverReport, RecoverPost
<1>4. ASSUME NEW i \in Item, NEW e \in Exec, DispatchRow(i, e), NEW f \in Exec, born[f] > 0
      PROVE  born'[f] > 0
  <2>1. f # e
    BY <1>4 DEF DispatchRow
  <2> QED
    BY <1>2, <1>4, <2>1
<1> QED
  BY <1>1, <1>2, <1>3, <1>4

\* Nothing but recovery runs while the process is down or recovers.
LEMMA QuietStep ==
  ASSUME Core, Next, phase \in {"down", "recover"}
  PROVE  Life \/ \E e \in Exec : CliEnds(e)
<1>1. /\ \A e \in Exec : wk[e].pc = "none"
      /\ \A i \in Item : turn[i].pc = "idle"
      /\ \A c \in Canceller : cancel[c].pc \in {"new", "over", "failed"}
  BY DEF Core, CallInv
<1>2. ~TurnAction
  BY <1>1 DEF TurnAction, DispatchRow, WordArrives, DispatchAppend, DispatchFails, DispatchEnqueue,
      DispatchPump, DeliverRoute, DeliverHand, WordsEnd, ReadOutcomes
<1>3. ~CancelAction
  BY <1>1 DEF CancelAction, Cancelling, CancelBegin, CancelLook, CancelAsk, CancelLock, CancelFlag,
      CancelReport, CancelPost, CancelFails, CancelAt
<1>4. ~ \E e \in Exec : Worker(e)
  BY <1>1 DEF Worker, WorkerCheck, WorkerMark, WorkerAmend, WorkerSetup, WorkerScriptEnds, WorkerArm,
      WorkerStart, WorkerFails, WorkerHold, WorkerVerdict, WorkerReport, WorkerPost,
      WorkerReportFails, WorkerRemove, WorkerPump, At
<1>5. ~PumpTimer
  BY DEF PumpTimer
<1> QED
  BY <1>2, <1>3, <1>4, <1>5, Actors

\* What a turn has in hand, by the item of its Manager.
TurnOK(i, r) ==
  /\ r.pc # "idle" => r.exec \in OfItem(i) /\ born[r.exec] > 0
  /\ r.pc \in {"route", "hand"} => r.word \in Word
  /\ r.pc = "hand" => r.to \in Exec

LEMMA TurnStep ==
  ASSUME Core, TurnAction
  PROVE  /\ \A i \in Item : TurnOK(i, turn[i])'
         /\ \E i \in Item : \A j \in Item \ {i} : turn'[j] = turn[j]
<1>1. turn \in [Item -> TurnType] /\ \A i \in Item : TurnOK(i, turn[i]) /\ turn[i] \in TurnType
  BY DEF Core, PoolTypeOK, CallTypeOK, CallInv, TurnOK, TurnType
<1>2. Next
  BY DEF Next, Turn, Dispatching, Delivering, TurnAction
<1>3. \A e \in Exec : born[e] > 0 => born'[e] > 0
  BY <1>2, RowsStay
<1>4. ASSUME NEW i \in Item, NEW r, turn' = [turn EXCEPT ![i] = r],
             /\ r.pc # "idle" => r.exec \in OfItem(i) /\ born'[r.exec] > 0
             /\ r.pc \in {"route", "hand"} => r.word \in Word
             /\ r.pc = "hand" => r.to \in Exec
      PROVE  /\ \A j \in Item : TurnOK(j, turn[j])'
             /\ \E j \in Item : \A k \in Item \ {j} : turn'[k] = turn[k]
  <2>1. ASSUME NEW j \in Item
        PROVE  TurnOK(j, turn[j])'
    <3>1. j # i => turn'[j] = turn[j] /\ TurnOK(j, turn[j])
      BY <1>1, <1>4
    <3>2. turn'[i] = r
      BY <1>1, <1>4
    <3> QED
      BY <1>3, <1>4, <3>1, <3>2 DEF TurnOK, OfItem
  <2> QED
    BY <1>1, <1>4, <2>1
<1> DEFINE Goal == /\ \A i \in Item : TurnOK(i, turn[i])'
                   /\ \E i \in Item : \A j \in Item \ {i} : turn'[j] = turn[j]
<1>5. ASSUME NEW i \in Item, NEW e \in Exec, DispatchRow(i, e)
      PROVE  Goal
  <2> DEFINE r == [turn[i] EXCEPT !.pc = "append", !.exec = e]
  <2>1. turn' = [turn EXCEPT ![i] = r] /\ ItemOf[e] = i
    BY <1>5 DEF DispatchRow
  <2>2. r.pc = "append" /\ r.exec = e
    BY <1>1 DEF TurnType
  <2>3. born'[e] > 0
    BY <1>5, WorkerPoolAssumption, FS_Subset, FS_CardinalityType DEF DispatchRow, Core, PoolTypeOK, RowTypeOK
  <2> HIDE DEF r
  <2> QED
    BY <1>4, <2>1, <2>2, <2>3 DEF OfItem
<1>6. ASSUME NEW i \in Item, NEW w \in Word, WordArrives(i, w)
      PROVE  Goal
  <2>1. CASE turn[i].pc = "words" /\ turn' = [turn EXCEPT ![i].pc = "route", ![i].word = w]
    <3> DEFINE r == [turn[i] EXCEPT !.pc = "route", !.word = w]
    <3>1. turn' = [turn EXCEPT ![i] = r]
      BY <2>1
    <3>2. r.pc = "route" /\ r.exec = turn[i].exec /\ r.word = w
      BY <1>1 DEF TurnType
    <3>3. turn[i].exec \in OfItem(i) /\ born'[turn[i].exec] > 0
      BY <1>1, <1>3, <2>1 DEF TurnOK, OfItem
    <3> HIDE DEF r
    <3> QED
      BY <1>4, <3>1, <3>2, <3>3
  <2>2. CASE Active(OfItem(i)) # {} /\ turn' = [turn EXCEPT ![i] =
               [Idle EXCEPT !.pc = "route", !.word = w, !.exec = OldestOf(Active(OfItem(i)))]]
    <3> DEFINE o == OldestOf(Active(OfItem(i)))
               r == [Idle EXCEPT !.pc = "route", !.word = w, !.exec = o]
    <3>1. o \in OfItem(i) /\ born'[o] > 0
      BY <1>3, <2>2, OldestActive DEF Core, PoolTypeOK, OfItem
    <3>2. turn' = [turn EXCEPT ![i] = r]
      BY <2>2
    <3> HIDE DEF o
    <3>3. r.pc = "route" /\ r.word = w /\ r.exec = o
      BY DEF Idle
    <3> HIDE DEF r
    <3> QED
      BY <1>4, <3>1, <3>2, <3>3
  <2> QED
    BY <1>6, <2>1, <2>2 DEF WordArrives
<1>7. ASSUME NEW i \in Item, NEW p \in {"enqueue", "pump"}, turn[i].pc # "idle", TurnGoto(i, p)
      PROVE  Goal
  <2> DEFINE r == [turn[i] EXCEPT !.pc = p]
  <2>1. turn' = [turn EXCEPT ![i] = r]
    BY <1>7 DEF TurnGoto
  <2>2. r.pc = p /\ r.exec = turn[i].exec
    BY <1>1 DEF TurnType
  <2>3. turn[i].exec \in OfItem(i) /\ born'[turn[i].exec] > 0
    BY <1>1, <1>3, <1>7 DEF TurnOK, OfItem
  <2> HIDE DEF r
  <2> QED
    BY <1>4, <1>7, <2>1, <2>2, <2>3
<1>8. ASSUME NEW i \in Item, turn' = [turn EXCEPT ![i] = Idle]
      PROVE  Goal
  <2>1. Idle.pc = "idle"
    BY DEF Idle
  <2> QED
    BY <1>4, <1>8, <2>1
<1>9. ASSUME NEW i \in Item, turn[i].pc # "idle", NEW how, NEW e, Recorded(i, how, e)
      PROVE  Goal
  <2> DEFINE r == [turn[i] EXCEPT !.pc = "words", !.to = None, !.word = None]
  <2>1. turn' = [turn EXCEPT ![i] = r]
    BY <1>9 DEF Recorded
  <2>2. r.pc = "words" /\ r.exec = turn[i].exec
    BY <1>1 DEF TurnType
  <2>3. turn[i].exec \in OfItem(i) /\ born'[turn[i].exec] > 0
    BY <1>1, <1>3, <1>9 DEF TurnOK, OfItem
  <2> HIDE DEF r
  <2> QED
    BY <1>4, <2>1, <2>2, <2>3
<1>10. ASSUME NEW i \in Item, NEW e \in Exec, turn[i].pc = "route", ToRun(i, e)
       PROVE  Goal
  <2> DEFINE r == [turn[i] EXCEPT !.pc = "hand", !.to = e]
  <2>1. turn' = [turn EXCEPT ![i] = r]
    BY <1>10 DEF ToRun
  <2>2. r.pc = "hand" /\ r.exec = turn[i].exec /\ r.to = e /\ r.word = turn[i].word
    BY <1>1 DEF TurnType
  <2>3. turn[i].exec \in OfItem(i) /\ born'[turn[i].exec] > 0 /\ turn[i].word \in Word
    BY <1>1, <1>3, <1>10 DEF TurnOK, OfItem
  <2> HIDE DEF r
  <2> QED
    BY <1>4, <2>1, <2>2, <2>3
<1>11. ASSUME NEW i \in Item, ReadOutcomes(i)
       PROVE  Goal
  <2>1. UNCHANGED <<turn, born>>
    BY <1>11 DEF ReadOutcomes, dbVars
  <2> QED
    BY <1>1, <2>1 DEF TurnOK
<1>12. ASSUME NEW i \in Item, DeliverRoute(i) \/ DeliverHand(i)
       PROVE  Goal
  <2> HIDE DEF Goal
  <2>1. turn[i].pc \in {"route", "hand"} /\ running \subseteq Exec
    BY <1>12 DEF DeliverRoute, DeliverHand, Core, PoolTypeOK, JobTypeOK, Jobs, ToSet
  <2>2. \/ \E how \in {"late", "amended", "steered"}, e \in Exec \cup {None} \cup {FirstJob(i), turn[i].to} : Recorded(i, how, e)
        \/ turn[i].pc = "route" /\ FirstJob(i) \in running /\ ToRun(i, FirstJob(i))
    BY <1>12 DEF DeliverRoute, DeliverHand, Missed, Amended
  <2> QED
    BY <1>9, <1>10, <2>1, <2>2
<1>13. ASSUME NEW i \in Item, DispatchAppend(i) \/ DispatchFails(i) \/ DispatchEnqueue(i) \/ DispatchPump(i)
       PROVE  Goal
  <2> HIDE DEF Goal
  <2> QED
    BY <1>7, <1>8, <1>13 DEF DispatchAppend, DispatchFails, DispatchEnqueue, DispatchPump
<1>14. ASSUME NEW i \in Item, WordsEnd(i)
       PROVE  Goal
  BY <1>8, <1>14 DEF WordsEnd
<1> HIDE DEF Goal
<1>15. Goal
  BY <1>5, <1>6, <1>11, <1>12, <1>13, <1>14 DEF TurnAction
<1> QED
  BY <1>15 DEF Goal

-----------------------------------------------------------------------------
(* One execution *)

\* The queue grows by a dispatch only.
LEMMA JobsGrow ==
  ASSUME Core, [Next]_vars, NEW e \in Jobs'
  PROVE  e \in Jobs \/ \E i \in Item : DispatchEnqueue(i) /\ turn[i].exec = e
<1>1. order \in Seq(Exec) /\ Distinct(order) /\ order' \in Seq(Exec)
  BY QueueStep DEF Core, PoolTypeOK, JobTypeOK, QueueInv, Distinct, QueueOK
<1>2. CASE UNCHANGED order
  BY <1>2 DEF Jobs
<1>3. ASSUME NEW f, order' = Dequeued(f)
      PROVE  e \in Jobs
  <2>1. Jobs' = Jobs \ {f}
    BY <1>1, <1>3, DequeuedKeeps DEF Jobs, Dequeued
  <2> QED
    BY <2>1
<1>4. ASSUME NEW i \in Item, DispatchEnqueue(i)
      PROVE  e \in Jobs \/ turn[i].exec = e
  <2>1. turn[i].exec \in Exec
    BY <1>4 DEF DispatchEnqueue, Core, CallInv, OfItem
  <2>2. Jobs' = Jobs \cup {turn[i].exec}
    BY <1>1, <1>4, <2>1, AppendedTo DEF DispatchEnqueue, Jobs
  <2> QED
    BY <2>2
<1>5. ASSUME NEW f \in Exec, Worker(f)
      PROVE  UNCHANGED order \/ \E g \in Exec : order' = Dequeued(g)
  BY <1>5, WorkerQueue DEF WorkerRemove, WorkerPump
<1>6. ASSUME NEW c \in Canceller, CancelLock(c)
      PROVE  UNCHANGED order \/ \E g : order' = Dequeued(g)
  BY <1>6 DEF CancelLock
<1>7. CASE FreshMemory
  <2>1. order' = <<>>
    BY <1>7 DEF FreshMemory
  <2>2. Jobs' = {}
    BY <2>1 DEF Jobs, ToSet
  <2> QED
    BY <2>2
<1>8. (\E i \in Item : DispatchPump(i)) \/ PumpTimer => UNCHANGED order
  BY DEF DispatchPump, PumpTimer
<1> QED
  BY <1>2, <1>3, <1>4, <1>5, <1>6, <1>7, <1>8, QueueFrame

\* The place of a goroutine changes by its own step, or when Pump starts it.
LEMMA WkMoves ==
  ASSUME Core, [Next]_vars, NEW e \in Exec
  PROVE  \/ wk'[e] = wk[e]
         \/ Worker(e) /\ e \in running /\ wk'[e].pc # "none"
         \/ WorkerPump(e) /\ wk'[e] = NoWork
         \/ /\ e \in Jobs \ running /\ e \in Jobs' /\ e \in running' /\ wk'[e] = [pc |-> "check", out |-> "none"]
            /\ wk[e].pc = "none" /\ UNCHANGED <<order, job, status, posted, cli, fix, asked, phase, cancel, word>>
         \/ FreshMemory /\ phase' = "down"
<1>0. /\ wk \in [Exec -> WkType] /\ \A f \in Exec : f \in running <=> wk[f].pc \notin {"none", "pump"}
      /\ \A f \in Jobs : wk[f].pc # "pump"
  BY DEF Core, PoolTypeOK, JobTypeOK, WkType, QueueInv, Jobs, ToSet
<1>1. ASSUME NEW w \in [Exec -> WkType], \A f \in Exec : f \in running <=> w[f].pc \notin {"none", "pump"}, Pump(w)
      PROVE  \/ wk'[e] = w[e]
             \/ e \in Jobs \ running /\ e \in running' /\ wk'[e] = [pc |-> "check", out |-> "none"]
  BY <1>1, PumpStarts DEF Core, PoolTypeOK
<1>2. CASE UNCHANGED <<order, running, wk>>
  BY <1>2
<1>3. ASSUME \/ \E i \in Item : DispatchPump(i)
             \/ PumpTimer
      PROVE  \/ wk'[e] = wk[e]
             \/ /\ e \in Jobs \ running /\ e \in running' /\ wk'[e] = [pc |-> "check", out |-> "none"]
                /\ UNCHANGED <<order, job, status, posted, cli, fix, asked, phase, cancel, word>>
  BY <1>0, <1>1, <1>3 DEF DispatchPump, PumpTimer, dbVars
<1>4. ASSUME NEW i \in Item, DispatchEnqueue(i)
      PROVE  wk'[e] = wk[e]
  BY <1>4 DEF DispatchEnqueue
<1>5. ASSUME NEW c \in Canceller, CancelLock(c)
      PROVE  wk'[e] = wk[e]
  BY <1>5 DEF CancelLock, OnlyCancel
<1>6. ASSUME NEW f \in Exec, f # e, Worker(f)
      PROVE  \/ wk'[e] = wk[e]
             \/ /\ e \in Jobs \ running /\ e \in running' /\ wk'[e] = [pc |-> "check", out |-> "none"]
                /\ UNCHANGED <<order, job, status, posted, cli, fix, asked, phase, cancel, word>>
  <2>1. CASE WorkerPump(f)
    <3> DEFINE w == [wk EXCEPT ![f] = NoWork]
    <3>1. w \in [Exec -> WkType] /\ w[f].pc = "none" /\ \A g \in Exec \ {f} : w[g] = wk[g]
      BY <1>0 DEF NoWork, WkType, WorkerPcs
    <3>2. Pump(w) /\ wk[f].pc = "pump"
      BY <2>1 DEF WorkerPump, At
    <3>3. \A g \in Exec : g \in running <=> w[g].pc \notin {"none", "pump"}
      BY <1>0, <3>1, <3>2
    <3> HIDE DEF w
    <3>4. \/ wk'[e] = w[e]
          \/ e \in Jobs \ running /\ e \in running' /\ wk'[e] = [pc |-> "check", out |-> "none"]
      BY <1>1, <3>1, <3>2, <3>3
    <3>5. UNCHANGED <<order, job, status, posted, cli, fix, asked, phase, cancel, word>>
      BY <2>1 DEF WorkerPump, dbVars
    <3> QED
      BY <1>6, <3>1, <3>4, <3>5
  <2>2. CASE WorkerRemove(f)
    BY <1>0, <1>6, <2>2 DEF WorkerRemove, Goto
  <2> QED
    BY <1>0, <1>6, <2>1, <2>2, WorkerQueue
<1>7. ASSUME Worker(e)
      PROVE  \/ e \in running /\ wk'[e].pc # "none"
             \/ WorkerPump(e) /\ wk'[e] = NoWork
  <2>1. CASE WorkerPump(e)
    <3> DEFINE w == [wk EXCEPT ![e] = NoWork]
    <3>1. w \in [Exec -> WkType] /\ w[e] = NoWork /\ w[e].pc = "none" /\ \A g \in Exec \ {e} : w[g] = wk[g]
      BY <1>0 DEF NoWork, WkType, WorkerPcs
    <3>2. Pump(w) /\ wk[e].pc = "pump"
      BY <2>1 DEF WorkerPump, At
    <3>3. \A g \in Exec : g \in running <=> w[g].pc \notin {"none", "pump"}
      BY <1>0, <3>1, <3>2
    <3> HIDE DEF w
    <3>4. \/ wk'[e] = w[e]
          \/ e \in Jobs \ running
      BY <1>1, <3>1, <3>2, <3>3
    <3> QED
      BY <1>0, <2>1, <3>1, <3>2, <3>4
  <2>2. CASE WorkerRemove(e)
    BY <1>0, <2>2 DEF WorkerRemove, Goto, At, WkType
  <2>3. ASSUME NEW p \in WorkerPcs, NEW o \in Outcomes \cup {"none"},
               wk' = [wk EXCEPT ![e] = [pc |-> p, out |-> o]], p # "none", wk[e].pc # "pump"
        PROVE  e \in running /\ wk'[e].pc # "none"
    BY <1>0, <1>7, <2>3, WorkerQueue
  <2> QED
    BY <1>7, <2>1, <2>2, <2>3, WorkerQueue
<1>8. Jobs = Jobs' \/ ~UNCHANGED order
  BY DEF Jobs
<1>9. e \in Jobs \ running => wk[e].pc = "none"
  BY <1>0
<1> QED
  BY <1>2, <1>3, <1>4, <1>5, <1>6, <1>7, <1>8, <1>9, QueueFrame

\* Which steps change what the goroutines share about a job.
LEMMA JobMoves ==
  ASSUME Core, [Next]_vars, NEW e \in Exec
  PROVE  \/ job'[e] = job[e]
         \/ \E i \in Item :
              /\ DeliverRoute(i) /\ e \in Jobs \ running /\ ItemOf[e] = i /\ turn[i].word \in Word
              /\ Recorded(i, "amended", e) /\ job'[e].amend = job[e].amend \cup {turn[i].word}
              /\ job'[e].told = job[e].told /\ job'[e].held = job[e].held
              /\ job'[e].cancelled = job[e].cancelled /\ job'[e].cut = job[e].cut
         \/ \E i \in Item :
              /\ DeliverHand(i) /\ job'[e].amend = job[e].amend
              /\ job'[e].told = job[e].told /\ job'[e].held = job[e].held
              /\ job'[e].cancelled = job[e].cancelled /\ job'[e].cut = job[e].cut
         \/ /\ WorkerAmend(e) /\ job'[e].amend = job[e].amend /\ job'[e].told = job[e].amend
            /\ job'[e].held = job[e].held /\ job'[e].cancelled = job[e].cancelled /\ job'[e].cut = job[e].cut
         \/ /\ WorkerHold(e) /\ job'[e].amend = job[e].amend /\ job'[e].told = job[e].told
            /\ job'[e].held /\ job'[e].cancelled = job[e].cancelled /\ job'[e].cut = job[e].cancelled
         \/ \E c \in Canceller :
              /\ CancelFlag(c) /\ cancel[c].exec = e
              /\ job'[e].amend = job[e].amend /\ job'[e].told = job[e].told
              /\ job'[e].held = job[e].held /\ job'[e].cancelled /\ job'[e].cut = job[e].held
         \/ FreshMemory /\ phase' = "down" /\ job'[e] = NoJob
<1>1. job \in [Exec -> JobType] /\ job[e] \in JobType
  BY DEF Core, PoolTypeOK, JobTypeOK, JobType
<1> USE DEF JobType
<1>2. ASSUME NEW i \in Item, DeliverRoute(i), job'[e] # job[e]
      PROVE  /\ e \in Jobs \ running /\ ItemOf[e] = i /\ turn[i].word \in Word
             /\ Recorded(i, "amended", e) /\ job'[e].amend = job[e].amend \cup {turn[i].word}
             /\ job'[e].told = job[e].told /\ job'[e].held = job[e].held
             /\ job'[e].cancelled = job[e].cancelled /\ job'[e].cut = job[e].cut
  <2> DEFINE f == FirstJob(i)
  <2>1. /\ f # None /\ f \notin running /\ Recorded(i, "amended", f)
        /\ job' = [job EXCEPT ![f].amend = @ \cup {turn[i].word}]
    BY <1>2 DEF DeliverRoute, Missed, Amended, ToRun
  <2>2. f \in Jobs \cap Exec /\ ItemOf[f] = i /\ turn[i].word \in Word
    BY <1>2, <2>1, WordInHand DEF DeliverRoute
  <2> HIDE DEF f
  <2>3. f = e
    BY <1>1, <1>2, <2>1, <2>2
  <2> QED
    BY <1>1, <2>1, <2>2, <2>3
<1>3. ASSUME NEW i \in Item, DeliverHand(i)
      PROVE  \/ job'[e] = job[e]
             \/ /\ job'[e].amend = job[e].amend
                /\ job'[e].told = job[e].told /\ job'[e].held = job[e].held
                /\ job'[e].cancelled = job[e].cancelled /\ job'[e].cut = job[e].cut
  <2> DEFINE f == turn[i].to
  <2>1. f \in Exec
    BY <1>3, WordInHand DEF DeliverHand
  <2>2. \/ UNCHANGED job
        \/ job' = [job EXCEPT ![f].buffer = @ \cup {turn[i].word}]
        \/ job' = [job EXCEPT ![f].taken = @ \cup {turn[i].word}]
    BY <1>3 DEF DeliverHand, Missed
  <2> HIDE DEF f
  <2> QED
    BY <1>1, <2>1, <2>2
<1>4. ASSUME NEW f \in Exec, WorkerAmend(f)
      PROVE  \/ job'[e] = job[e]
             \/ /\ f = e /\ job'[e].amend = job[e].amend /\ job'[e].told = job[e].amend
                /\ job'[e].held = job[e].held /\ job'[e].cancelled = job[e].cancelled
                /\ job'[e].cut = job[e].cut
  BY <1>1, <1>4 DEF WorkerAmend
<1>5. ASSUME NEW f \in Exec, WorkerHold(f)
      PROVE  \/ job'[e] = job[e]
             \/ /\ f = e /\ job'[e].amend = job[e].amend /\ job'[e].told = job[e].told
                /\ job'[e].held /\ job'[e].cancelled = job[e].cancelled /\ job'[e].cut = job[e].cancelled
  <2>1. PICK accepted :
          job' = [job EXCEPT ![f].held = TRUE, ![f].cut = job[f].cancelled,
                             ![f].buffer = {}, ![f].taken = @ \cup accepted]
    BY <1>5 DEF WorkerHold
  <2> QED
    BY <1>1, <2>1
<1>6. ASSUME NEW c \in Canceller, CancelFlag(c)
      PROVE  \/ job'[e] = job[e]
             \/ /\ cancel[c].exec = e
                /\ job'[e].amend = job[e].amend /\ job'[e].told = job[e].told
                /\ job'[e].held = job[e].held /\ job'[e].cancelled /\ job'[e].cut = job[e].held
  <2> DEFINE f == cancel[c].exec
  <2>1. f \in Exec /\ job' = [job EXCEPT ![f].cancelled = TRUE, ![f].cut = job[f].held]
    BY <1>6 DEF CancelFlag, CancelAt, Core, CallInv
  <2> HIDE DEF f
  <2>2. \/ job'[e] = job[e]
        \/ /\ f = e
           /\ job'[e].amend = job[e].amend /\ job'[e].told = job[e].told
           /\ job'[e].held = job[e].held /\ job'[e].cancelled /\ job'[e].cut = job[e].held
    BY <1>1, <2>1
  <2> QED
    BY <2>2 DEF f
<1>7. FreshMemory => job'[e] = NoJob
  BY DEF FreshMemory
<1>8. UNCHANGED job => job'[e] = job[e]
  OBVIOUS
<1> QED
  BY <1>2, <1>3, <1>4, <1>5, <1>6, <1>7, <1>8, JobFrame

-----------------------------------------------------------------------------
(* Calls, and the way into the pool *)

LEMMA CallStep ==
  ASSUME Core, [Next]_vars
  PROVE  CallInv'
<1>1. \A e \in Exec : born[e] > 0 => born'[e] > 0
  BY RowsStay
<1>2. ASSUME NEW i \in Item
      PROVE  TurnOK(i, turn[i])'
  <2>1. TurnOK(i, turn[i])
    BY DEF Core, CallInv, TurnOK
  <2>2. CASE UNCHANGED turn
    BY <1>1, <2>1, <2>2 DEF TurnOK, OfItem
  <2>3. CASE TurnAction
    BY <2>3, TurnStep
  <2>4. CASE FreshMemory
    BY <2>4 DEF FreshMemory, Idle, TurnOK
  <2> QED
    BY <2>2, <2>3, <2>4, TurnFrame
<1>3. ASSUME NEW c \in Canceller
      PROVE  CallOK(cancel[c])'
  <2>1. CallOK(cancel[c])
    BY DEF Core, CallInv, CallOK
  <2>2. CASE cancel'[c] = cancel[c]
    BY <1>1, <2>1, <2>2 DEF CallOK
  <2>3. ASSUME NEW d \in Canceller, Cancelling(d) \/ \E tree \in Trees : CancelBegin(d, tree)
        PROVE  CallOK(cancel[c])'
    <3>1. CallOK(cancel'[d]) /\ \A x \in Canceller \ {d} : cancel'[x] = cancel[x]
      BY <2>3, CancelStep
    <3> QED
      BY <1>1, <2>1, <3>1 DEF CallOK
  <2>4. CASE FreshMemory
    <3>1. cancel \in [Canceller -> CancelType]
      BY DEF Core, PoolTypeOK, CallTypeOK, CancelType
    <3>2. \A r \in CancelType : [r EXCEPT !.pc = "failed", !.exec = None].pc = "failed"
      BY DEF CancelType
    <3>3. cancel'[c] = cancel[c] \/ cancel'[c] = [cancel[c] EXCEPT !.pc = "failed", !.exec = None]
      BY <2>4 DEF FreshMemory
    <3>4. cancel'[c] = cancel[c] \/ cancel'[c].pc = "failed"
      BY <3>1, <3>2, <3>3
    <3> QED
      BY <2>2, <3>4 DEF CallOK
  <2>5. Start \/ RecoverReport \/ RecoverPost \/ RecoverFails \/ Serve => UNCHANGED cancel
    BY DEF Start, RecoverReport, RecoverPost, RecoverFails, Serve
  <2> QED
    BY <2>2, <2>3, <2>4, <2>5, CallFrame DEF CancelAction
<1>4. ASSUME NEW e \in Exec, wk'[e].pc \in {"report", "post"}
      PROVE  wk'[e].out \in Outcomes
  <2>1. CASE wk'[e] = wk[e]
    BY <1>4, <2>1 DEF Core, CallInv
  <2>2. CASE Worker(e) /\ e \in running
    <3>1. ~WorkerPump(e)
      BY <2>2 DEF WorkerPump, At, Core, PoolTypeOK, JobTypeOK
    <3>2. ~WorkerRemove(e)
      BY <1>4, GotoIs DEF WorkerRemove, Core, PoolTypeOK, JobTypeOK
    <3> QED
      BY <1>4, <2>2, <3>1, <3>2, WorkerQueue DEF Core, PoolTypeOK, JobTypeOK
  <2>3. wk'[e] # NoWork /\ wk'[e] # [pc |-> "check", out |-> "none"]
    BY <1>4 DEF NoWork
  <2>4. FreshMemory => wk'[e] = NoWork
    BY DEF FreshMemory
  <2> QED
    BY <2>1, <2>2, <2>3, <2>4, WkMoves
<1>5. ASSUME NEW e \in Exec, e \in fix'.left \/ e = fix'.exec
      PROVE  born'[e] > 0
  <2>1. \A f \in Exec : f \in fix.left \/ f = fix.exec => born[f] > 0
    BY DEF Core, CallInv
  <2>2. CASE UNCHANGED fix
    BY <1>1, <1>5, <2>1, <2>2
  <2>3. CASE Start
    <3>1. fix' = [left |-> Active(Exec), exec |-> None] /\ e # None
      BY <2>3, WorkerPoolAssumption DEF Start
    <3>2. status[e] \in {"queued", "running"}
      BY <1>5, <3>1 DEF Active
    <3> QED
      BY <1>1, <3>2 DEF Core, PoolTypeOK, RowTypeOK
  <2>4. CASE RecoverReport
    BY <1>1, <1>5, <2>1, <2>4, RecoverTakes
  <2>5. CASE RecoverPost
    <3>1. fix'.left = fix.left /\ fix'.exec = None
      BY <2>5 DEF RecoverPost, Core, PoolTypeOK, CallTypeOK
    <3> QED
      BY <1>1, <1>5, <2>1, <3>1, WorkerPoolAssumption
  <2>6. CASE fix' = NoFix
    BY <1>5, <2>6, WorkerPoolAssumption DEF NoFix
  <2> QED
    BY <2>2, <2>3, <2>4, <2>5, <2>6, CallFrame DEF RecoverFails, Serve, FreshMemory
<1>6. phase' # "recover" => fix' = NoFix
  <2>1. phase # "recover" => fix = NoFix
    BY DEF Core, CallInv
  <2>2. fix.exec # None => phase = "recover"
    BY <2>1 DEF NoFix
  <2>3. RecoverReport \/ RecoverPost => UNCHANGED phase /\ phase = "recover"
    BY <2>2 DEF RecoverReport, RecoverPost
  <2> QED
    BY <2>1, <2>3, CallFrame DEF Start, RecoverFails, Serve, FreshMemory, Stop, ShutdownReturns
<1>7. ASSUME phase' \in {"down", "recover"}
      PROVE  /\ order' = <<>> /\ running' = {}
             /\ \A e \in Exec : wk'[e].pc = "none"
             /\ \A i \in Item : turn'[i].pc = "idle"
             /\ \A c \in Canceller : cancel'[c].pc \in {"new", "over", "failed"}
  <2>1. CASE phase \in {"down", "recover"} /\ UNCHANGED <<poolVars, wk, turn, cancel>>
    BY <2>1 DEF Core, CallInv, poolVars
  <2>2. CASE FreshMemory
    <3>1. cancel \in [Canceller -> CancelType]
      BY DEF Core, PoolTypeOK, CallTypeOK, CancelType
    <3>2. \A r \in CancelType : [r EXCEPT !.pc = "failed", !.exec = None].pc = "failed"
      BY DEF CancelType
    <3>3. \A c \in Canceller : cancel'[c].pc \in {"new", "over", "failed"}
      BY <2>2, <3>1, <3>2 DEF FreshMemory
    <3> QED
      BY <2>2, <3>3 DEF FreshMemory, NoWork, Idle
  <2>3. CASE UNCHANGED vars
    BY <1>7, <2>1, <2>3 DEF vars
  <2>4. CASE (Life \/ \E e \in Exec : CliEnds(e)) /\ ~FreshMemory
    <3>1. UNCHANGED <<poolVars, wk, turn, cancel>> /\ phase \in {"down", "recover"}
      BY <1>7, <2>4 DEF Life, Start, RecoverReport, RecoverPost, RecoverFails, Serve, Stop,
          ShutdownReturns, Exit, Crash, CliEnds, Core, CallInv, NoFix
    <3> QED
      BY <2>1, <3>1
  <2>5. ASSUME Next, ~FreshMemory
        PROVE  phase \in {"down", "recover"}
    <3>1. \/ UNCHANGED phase
          \/ Start \/ RecoverReport \/ RecoverPost \/ RecoverFails \/ Serve \/ Stop \/ ShutdownReturns
      BY <2>5, CallFrame
    <3> QED
      BY <1>7, <3>1 DEF Start, RecoverReport, RecoverPost, RecoverFails, Serve, Stop, ShutdownReturns
  <2> QED
    BY <2>2, <2>3, <2>4, <2>5, QuietStep
<1> QED
  BY <1>2, <1>3, <1>4, <1>5, <1>6, <1>7 DEF CallInv, TurnOK, CallOK

\* An execution enters the pool once.
LEMMA EntersOnce ==
  ASSUME Core, [Next]_vars, NEW e \in Exec, Entering(e)'
  PROVE  /\ Entering(e) /\ e \notin Jobs' /\ wk'[e].pc = "none" /\ ~job'[e].held
         /\ \A i \in Item : DispatchEnqueue(i) => turn[i].exec # e
<1>1. ItemOf[e] \in Item /\ turn \in [Item -> TurnType]
  BY WorkerPoolAssumption DEF Core, PoolTypeOK, CallTypeOK, TurnType
<1> DEFINE i == ItemOf[e]
<1>2. ASSUME born[e] # 0, turn'[i].exec = e, turn'[i].pc \in {"append", "enqueue"}
      PROVE  turn[i].exec = e /\ turn[i].pc \in {"append", "enqueue"}
  <2>1. CASE UNCHANGED turn
    BY <1>2, <2>1
  <2>2. CASE FreshMemory
    BY <1>1, <1>2, <2>2 DEF FreshMemory, Idle
  <2>3. ASSUME NEW j \in Item, NEW f \in Exec, DispatchRow(j, f)
        PROVE  turn'[i] = turn[i]
    <3>1. j # i
      BY <1>1, <1>2, <2>3 DEF DispatchRow, TurnType
    <3> QED
      BY <1>1, <2>3, <3>1 DEF DispatchRow
  <2>4. ASSUME NEW j \in Item, NEW w \in Word, WordArrives(j, w)
        PROVE  turn'[i] = turn[i]
    <3>1. j # i
      BY <1>1, <1>2, <2>4 DEF WordArrives, TurnType, Idle
    <3> QED
      BY <1>1, <2>4, <3>1 DEF WordArrives
  <2>5. ASSUME NEW j \in Item, DispatchFails(j) \/ DispatchPump(j) \/ WordsEnd(j)
        PROVE  turn'[i] = turn[i]
    BY <1>1, <1>2, <2>5 DEF DispatchFails, DispatchPump, WordsEnd, Idle
  <2>6. ASSUME NEW j \in Item, DispatchAppend(j) \/ DispatchEnqueue(j)
        PROVE  turn[i].exec = e /\ turn[i].pc \in {"append", "enqueue"}
    BY <1>1, <1>2, <2>6 DEF DispatchAppend, DispatchEnqueue, TurnGoto, TurnType
  <2>7. ASSUME NEW j \in Item, DeliverRoute(j) \/ DeliverHand(j)
        PROVE  turn'[i] = turn[i]
    <3>1. \/ turn' = [turn EXCEPT ![j] = [@ EXCEPT !.pc = "words", !.to = None, !.word = None]]
          \/ turn' = [turn EXCEPT ![j].pc = "hand", ![j].to = FirstJob(j)]
      BY <2>7 DEF DeliverRoute, DeliverHand, Missed, Amended, ToRun, Recorded
    <3>2. j # i
      BY <1>1, <1>2, <3>1 DEF TurnType
    <3> QED
      BY <1>1, <3>1, <3>2
  <2>8. ASSUME NEW j \in Item, ReadOutcomes(j)
        PROVE  UNCHANGED turn
    BY <2>8 DEF ReadOutcomes
  <2> QED
    BY <1>2, <2>1, <2>2, <2>3, <2>4, <2>5, <2>6, <2>7, <2>8, TurnFrame DEF TurnAction
<1>3. Entering(e)
  <2>1. born[e] # 0 => born'[e] # 0
    <3>1. born[e] \in Nat
      BY DEF Core, PoolTypeOK, RowTypeOK
    <3>2. born[e] > 0 => born'[e] > 0
      BY RowsStay
    <3> QED
      BY <3>1, <3>2
  <2> QED
    BY <1>2, <2>1 DEF Entering
<1>4. e \notin Jobs /\ wk[e].pc = "none" /\ ~job[e].held
  BY <1>3 DEF Core, QueueInv
<1>5. ASSUME NEW j \in Item, DispatchEnqueue(j), turn[j].exec = e
      PROVE  FALSE
  <2>1. j = i /\ born[e] > 0 /\ UNCHANGED born
    BY <1>5 DEF DispatchEnqueue, Core, CallInv, OfItem, dbVars
  <2>2. turn'[i].pc = "pump"
    BY <1>1, <1>5, <2>1 DEF DispatchEnqueue, TurnGoto, TurnType
  <2> QED
    BY <2>1, <2>2 DEF Entering
<1>6. e \notin Jobs'
  BY <1>4, <1>5, JobsGrow
<1>7. wk'[e].pc = "none"
  <2>1. ~Worker(e)
    BY <1>4, WorkerQueue DEF Core, PoolTypeOK, JobTypeOK
  <2>2. FreshMemory => wk'[e] = NoWork
    BY DEF FreshMemory
  <2>3. ~WorkerPump(e)
    BY <1>4 DEF WorkerPump, At
  <2> QED
    BY <1>4, <2>1, <2>2, <2>3, WkMoves DEF NoWork
<1>8. ~job'[e].held
  <2>1. ~WorkerHold(e)
    BY <1>4 DEF WorkerHold, At
  <2>2. ~NoJob.held
    BY DEF NoJob
  <2> QED
    BY <1>4, <2>1, <2>2, JobMoves
<1> QED
  BY <1>3, <1>5, <1>6, <1>7, <1>8

LEMMA CoreStep ==
  ASSUME Core, [Next]_vars
  PROVE  Core'
<1>1. QueueInv'
  BY QueueStep, EntersOnce DEF QueueOK, QueueInv, Distinct
<1> QED
  BY <1>1, PoolTypeStep, CallStep DEF Core

LEMMA QueueNow ==
  ASSUME Core
  PROVE  QueueOK
  BY DEF Core, PoolTypeOK, JobTypeOK, QueueInv, QueueOK, Distinct, WkType

\* A process that ends leaves nothing in memory.
LEMMA NothingKept ==
  ASSUME FreshMemory
  PROVE  /\ Jobs' = {} /\ running' = {} /\ fix' = NoFix
         /\ \A e \in Exec : wk'[e] = NoWork /\ wk'[e].pc = "none" /\ job'[e] = NoJob
         /\ \A i \in Item : turn'[i].pc = "idle"
<1>1. order' = <<>> /\ running' = {} /\ fix' = NoFix
  BY DEF FreshMemory
<1>2. Jobs' = {}
  BY <1>1 DEF Jobs, ToSet
<1>3. \A e \in Exec : wk'[e] = NoWork /\ job'[e] = NoJob
  BY DEF FreshMemory
<1>4. \A i \in Item : turn'[i].pc = "idle"
  BY DEF FreshMemory, Idle
<1> QED
  BY <1>1, <1>2, <1>3, <1>4 DEF NoWork

LEMMA CoreInit ==
  ASSUME Init
  PROVE  Core
<1> USE DEF Init
<1>1. RowTypeOK
  BY DEF RowTypeOK, Statuses
<1>2. JobTypeOK
  BY DEF JobTypeOK, NoJob, NoWork, WorkerPcs
<1>3. CallTypeOK
  BY DEF CallTypeOK, Idle, NoCall, NoFix, TurnPcs, CancelPcs
<1>4. PoolTypeOK
  BY <1>1, <1>2, <1>3 DEF PoolTypeOK, Nowhere
<1>5. CallInv
  BY WorkerPoolAssumption DEF CallInv, Idle, NoCall, NoFix, NoWork
<1>6. QueueInv
  BY FS_EmptySet, WorkerPoolAssumption DEF QueueInv, Jobs, ToSet, NoWork, NoJob
<1> QED
  BY <1>4, <1>5, <1>6 DEF Core

LEMMA CoreHolds == Spec => []Core
  BY CoreInit, CoreStep, PTL DEF Spec

\* The pool's state keeps the shape of the tables and of the Go structs, the jobs with a
\* goroutine are those in running (workerpool.go), and an item has one job at work.
THEOREM PoolTyped == Spec => []PoolTypeOK
<1>1. Core => PoolTypeOK
  BY DEF Core
<1> QED
  BY <1>1, CoreHolds, PTL
=============================================================================
