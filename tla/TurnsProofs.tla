----------------------------- MODULE TurnsProofs -----------------------------
(***************************************************************************)
(* What holds of the tree of work items and of the agents' turns over it,   *)
(* for every set of items, messages and callers, every tree to begin with   *)
(* and every answer of the model.                                           *)
(***************************************************************************)
EXTENDS TurnsProperties, FiniteSetTheorems, WellFoundedInduction, TLAPS

(* Numbers and sets *)

\* A set of positions has a last one.
LEMMA MaxOfIsLast ==
  ASSUME NEW N \in Nat, NEW S \in SUBSET (0..N), S # {}
  PROVE  MaxOf(S) \in S /\ \A k \in S : k <= MaxOf(S)
<1> DEFINE T == {n \in Nat : N - n \in S}
           R == OpToRel(<, Nat)
<1>1. T \subseteq Nat /\ T # {}
  <2>1. PICK k \in S : TRUE
    OBVIOUS
  <2>2. N - k \in Nat /\ N - (N - k) = k
    BY <2>1
  <2> QED
    BY <2>1, <2>2
<1>2. \E x \in T : \A y \in T : ~(<<y, x>> \in R)
  <2>1. IsWellFoundedOn(R, Nat)
    BY NatLessThanWellFounded
  <2> HIDE DEF T, R
  <2> QED
    BY <1>1, <2>1, WFMin
<1>3. PICK x \in T : \A y \in T : ~(<<y, x>> \in R)
  BY <1>2
<1>4. \A y \in T : ~(y < x)
  BY <1>1, <1>3 DEF OpToRel
<1>5. \A k \in S : k <= N - x
  <2> SUFFICES ASSUME NEW k \in S  PROVE k <= N - x
    OBVIOUS
  <2>1. k \in Nat /\ k <= N /\ N - k \in Nat /\ N - (N - k) = k
    OBVIOUS
  <2>2. N - k \in T
    BY <2>1
  <2>3. x \in Nat /\ ~(N - k < x)
    BY <1>4, <2>2
  <2> QED
    BY <2>1, <2>3
<1>6. N - x \in S
  OBVIOUS
<1> HIDE DEF T, R
<1> QED
  BY <1>5, <1>6 DEF MaxOf

\* A finite set, as a sequence of its elements.
LEMMA SetInSequence ==
  ASSUME NEW S, IsFiniteSet(S)
  PROVE  /\ SetToSeq(S) \in Seq(S)
         /\ \A j, k \in DOMAIN SetToSeq(S) : SetToSeq(S)[j] = SetToSeq(S)[k] => j = k
         /\ S # {} => SetToSeq(S) # <<>>
         /\ \A x \in S : \E k \in DOMAIN SetToSeq(S) : SetToSeq(S)[k] = x
<1> DEFINE N == Cardinality(S)
<1>1. N \in Nat /\ ExistsBijection(1..N, S)
  BY FS_CardinalityType
<1>2. PICK f \in [1..N -> S] : IsInjective(f) /\ \A x \in S : \E k \in 1..N : f[k] = x
  BY <1>1 DEF ExistsBijection, Bijection, Injection, Surjection, IsInjective
<1>3. SetToSeq(S) \in [1..N -> S] /\ IsInjective(SetToSeq(S))
  BY <1>2 DEF SetToSeq
<1> DEFINE s == SetToSeq(S)
<1>4. \A j, k \in 1..N : s[j] = s[k] => j = k
  BY <1>3 DEF IsInjective
<1>5. \A x \in S : \E k \in 1..N : s[k] = x
  <2>1. s \in Injection(1..N, S)
    BY <1>3 DEF Injection
  <2>2. Cardinality(1..N) = N
    BY <1>1, FS_Interval
  <2> HIDE DEF s
  <2>3. s \in Surjection(1..N, S)
    BY <2>1, <2>2, FS_Injection
  <2> QED
    BY <2>3 DEF Surjection
<1>6. s \in Seq(S) /\ DOMAIN s = 1..N
  BY <1>1, <1>3
<1>7. S # {} => s # <<>>
  <2>1. ASSUME s = <<>>, NEW x \in S  PROVE FALSE
    <3>1. PICK k \in DOMAIN s : TRUE
      BY <1>5, <1>6
    <3>2. DOMAIN <<>> = {}
      OBVIOUS
    <3> QED
      BY <2>1, <3>1, <3>2
  <2> QED
    BY <2>1
<1> HIDE DEF s
<1> QED
  BY <1>4, <1>5, <1>6, <1>7 DEF s

\* The image of a finite set.
LEMMA ImageIsFinite ==
  ASSUME NEW S, IsFiniteSet(S), NEW f, DOMAIN f = S
  PROVE  IsFiniteSet({f[x] : x \in S})
<1> DEFINE T == {f[x] : x \in S}
           g == [x \in S |-> f[x]]
<1>1. g \in Surjection(S, T)
  BY DEF Surjection
<1> HIDE DEF T, g
<1>2. IsFiniteSet(T)
  BY <1>1, FS_Surjection
<1> QED
  BY <1>2 DEF T

-----------------------------------------------------------------------------
(* The log *)

IsLog == \E S : log \in Seq(S)

\* A step adds some of these events to the log, or none.
Added(E) ==
  /\ IsLog' /\ Len(log) \in Nat /\ Len(log') \in Nat /\ Len(log) <= Len(log')
  /\ DOMAIN log = 1..Len(log) /\ DOMAIN log' = 1..Len(log')
  /\ \A n \in DOMAIN log : log'[n] = log[n]
  /\ \A n \in DOMAIN log' : n \notin DOMAIN log => log'[n] \in E

LEMMA AddedMany ==
  ASSUME IsLog, NEW E, NEW s \in Seq(E), log' = log \o s
  PROVE  /\ Added(E) /\ Len(s) \in Nat /\ Len(log') = Len(log) + Len(s)
         /\ \A k \in 1..Len(s) : log'[Len(log) + k] = s[k]
<1>1. PICK S : log \in Seq(S)
  BY DEF IsLog
<1>2. log \in Seq(S \cup E) /\ s \in Seq(S \cup E)
  BY <1>1
<1>3. log' \in Seq(S \cup E)
  BY <1>2
<1>4. Len(log) \in Nat /\ Len(s) \in Nat /\ DOMAIN log = 1..Len(log) /\ DOMAIN s = 1..Len(s)
  BY <1>1
<1>5. Len(log') = Len(log) + Len(s) /\ DOMAIN log' = 1..(Len(log) + Len(s))
  BY <1>2, <1>4
<1>6. \A n \in 1..(Len(log) + Len(s)) : log'[n] = IF n <= Len(log) THEN log[n] ELSE s[n - Len(log)]
  BY <1>2, <1>4
<1>7. \A k \in 1..Len(s) : s[k] \in E
  BY <1>4
<1>8. \A n \in DOMAIN log' : n \notin DOMAIN log => log'[n] \in E
  <2> SUFFICES ASSUME NEW n \in DOMAIN log', n \notin DOMAIN log  PROVE log'[n] \in E
    OBVIOUS
  <2>1. ~(n <= Len(log)) /\ n - Len(log) \in 1..Len(s)
    BY <1>4, <1>5
  <2>2. log'[n] = s[n - Len(log)]
    BY <1>5, <1>6, <2>1
  <2> QED
    BY <1>7, <2>1, <2>2
<1>9. \A k \in 1..Len(s) : log'[Len(log) + k] = s[k]
  <2> SUFFICES ASSUME NEW k \in 1..Len(s)  PROVE log'[Len(log) + k] = s[k]
    OBVIOUS
  <2>1. Len(log) + k \in 1..(Len(log) + Len(s)) /\ ~(Len(log) + k <= Len(log)) /\ (Len(log) + k) - Len(log) = k
    BY <1>4
  <2> QED
    BY <1>6, <2>1
<1>10. IsLog'
  BY <1>3 DEF IsLog
<1>11. \A n \in DOMAIN log : log'[n] = log[n]
  BY <1>4, <1>6
<1> QED
  BY <1>4, <1>5, <1>8, <1>9, <1>10, <1>11 DEF Added

LEMMA AddedOne ==
  ASSUME IsLog, NEW e, Record(e)
  PROVE  Added({e}) /\ Len(log') = Len(log) + 1 /\ log'[Len(log) + 1] = e
<1>1. PICK S : log \in Seq(S)
  BY DEF IsLog
<1>2. <<e>> \in Seq({e}) /\ Len(<<e>>) = 1 /\ <<e>>[1] = e
  OBVIOUS
<1>3. log' = log \o <<e>>
  <2>1. Append(log, e) = log \o <<e>>
    BY <1>1
  <2> QED
    BY <2>1 DEF Record
<1>4. 1 \in 1..Len(<<e>>)
  BY <1>2
<1>5. /\ Added({e}) /\ Len(log') = Len(log) + Len(<<e>>)
      /\ \A k \in 1..Len(<<e>>) : log'[Len(log) + k] = <<e>>[k]
  BY <1>2, <1>3, AddedMany
<1> QED
  BY <1>2, <1>4, <1>5

LEMMA AddedNone ==
  ASSUME IsLog, log' = log
  PROVE  Added({})
<1>1. PICK S : log \in Seq(S)
  BY DEF IsLog
<1>2. IsLog'
  BY DEF IsLog
<1> QED
  BY <1>1, <1>2 DEF Added

\* Each answer is told once.
LEMMA AddedAnswers ==
  ASSUME IsLog, NEW kind, NEW S, IsFiniteSet(S), Answers(kind, S)
  PROVE  /\ Added({Answer(kind, None, log[n].of, {n}) : n \in S})
         /\ \A j, k \in DOMAIN log' : j \notin DOMAIN log /\ k \notin DOMAIN log /\ log'[j] = log'[k] => j = k
<1> DEFINE f == [n \in S |-> Answer(kind, None, log[n].of, {n})]
           E == {f[n] : n \in S}
           s == SetToSeq(E)
<1>1. IsFiniteSet(E)
  <2>1. DOMAIN f = S
    OBVIOUS
  <2> HIDE DEF f
  <2> QED
    BY <2>1, ImageIsFinite
<1>2. E = {Answer(kind, None, log[n].of, {n}) : n \in S}
  OBVIOUS
<1>3. log' = log \o s
  BY <1>2 DEF Answers
<1> HIDE DEF E
<1>4. s \in Seq(E) /\ \A j, k \in DOMAIN s : s[j] = s[k] => j = k
  BY <1>1, SetInSequence
<1> HIDE DEF s
<1>5. /\ Added(E) /\ Len(s) \in Nat /\ Len(log') = Len(log) + Len(s)
      /\ \A k \in 1..Len(s) : log'[Len(log) + k] = s[k]
  BY <1>3, <1>4, AddedMany
<1>6. ASSUME NEW j \in DOMAIN log', NEW k \in DOMAIN log', j \notin DOMAIN log, k \notin DOMAIN log, log'[j] = log'[k]
      PROVE  j = k
  <2>1. DOMAIN s = 1..Len(s)
    BY <1>4
  <2>2. DOMAIN log = 1..Len(log) /\ DOMAIN log' = 1..(Len(log) + Len(s)) /\ Len(log) \in Nat
    BY <1>5 DEF Added
  <2>3. /\ j - Len(log) \in 1..Len(s) /\ Len(log) + (j - Len(log)) = j
        /\ k - Len(log) \in 1..Len(s) /\ Len(log) + (k - Len(log)) = k
    BY <1>5, <1>6, <2>2
  <2>4. s[j - Len(log)] = s[k - Len(log)]
    BY <1>5, <1>6, <2>3
  <2>5. j - Len(log) = k - Len(log)
    BY <1>4, <2>1, <2>3, <2>4
  <2> QED
    BY <2>3, <2>5
<1> QED
  BY <1>2, <1>5, <1>6

-----------------------------------------------------------------------------
(* Types *)

EventOK(e) ==
  /\ e.kind \in EventKinds /\ e.box \in Agent \cup {None}
  /\ e.item \in Item \cup {None} /\ e.of \in Message \cup {None} /\ e.re \subseteq 1..Len(log)
  /\ e.box \in Item => Exists(e.box)
  /\ e.item \in Item => Exists(e.item)

LogOK == IsLog /\ \A n \in DOMAIN log : EventOK(log[n])

Jobs == [of : Message \cup {None}, item : Item]
AnyStatus == Statuses \cup {"none"}

\* What a call has read of the tree is a part of it still, and what it is to do is about items there are.
CallOK(c) ==
  /\ {"pc", "todo", "saw", "prev", "re", "want", "hop"} \subseteq DOMAIN c
  /\ c.pc \in CallPcs /\ c.want \in Statuses /\ c.re \subseteq 1..Len(log)
  /\ c.todo \in Seq(Jobs)
  /\ c.pc \notin {"idle", "stop"} => c.todo # <<>>
  /\ \A k \in DOMAIN c.todo : Exists(c.todo[k].item)
  /\ c.saw \in [Item -> AnyStatus]

\* The lock is with the call between its first and its last statement under it.
Locked == {"siblings", "notify"}
LockOK == \A p \in Proc : call[p].pc \in Locked <=> mutex = p

CallsOK == DOMAIN call = Proc /\ \A p \in Proc : CallOK(call[p])

\* A turn works on what its mailbox holds past the cursor.
TurnOK(t, a, r) ==
  /\ {"pc", "batch", "upto", "refused", "spawned", "all", "covered", "confirmed"} \subseteq DOMAIN t
  /\ t.pc \in (IF a = Primary THEN {"idle", "think", "act", "reply"}
               ELSE {"idle", "think", "attach", "work", "reply", "done"})
  /\ r \in 0..Len(log) /\ t.upto \in 0..Len(log)
  /\ t.batch \subseteq DOMAIN log /\ \A n \in t.batch : log[n].box = a /\ r < n /\ n <= t.upto
  /\ t.pc # "idle" <=> t.batch # {}
  /\ t.all \in [Item -> AnyStatus] /\ \A i \in Item : t.all[i] # "none" => Exists(i)
  /\ t.confirmed \subseteq t.batch

TurnsOK ==
  /\ DOMAIN turn = Agent /\ DOMAIN read = Agent
  /\ \A a \in Agent : TurnOK(turn[a], a, read[a])

TreeOK ==
  /\ parent \in [Item -> Item \cup {None}] /\ status \in [Item -> AnyStatus]
  /\ \A i \in Item : parent[i] \in Item => Exists(parent[i])
  /\ active \subseteq {i \in Item : Exists(i)} /\ faults \in Nat

TypeInv == LogOK /\ TreeOK /\ CallsOK /\ LockOK /\ TurnsOK

LEMMA NoneIsNobody == None \notin Agent /\ None \notin Proc /\ None \notin Item /\ Primary \notin Item
  BY WorkTreeAssumption DEF Agent, Proc

LEMMA TypesAreTyped == TypeInv => TurnsTypeOK
<1> SUFFICES ASSUME TypeInv  PROVE TurnsTypeOK
  OBVIOUS
<1>1. \A n \in DOMAIN log :
       /\ log[n].kind \in EventKinds /\ log[n].box \in Agent \cup {None}
       /\ log[n].item \in Item \cup {None} /\ log[n].of \in Message \cup {None}
       /\ log[n].re \subseteq 1..Len(log)
  BY DEF TypeInv, LogOK, EventOK
<1>2. \A p \in Proc : call[p].pc \in CallPcs /\ (call[p].pc \in {"siblings", "notify"} <=> mutex = p)
  BY DEF TypeInv, CallsOK, CallOK, LockOK, Locked
<1>3. DOMAIN log = 1..Len(log)
  BY DEF TypeInv, LogOK, IsLog
<1>4. \A a \in Agent : /\ turn[a].pc \in TurnPcs /\ read[a] \in 0..Len(log)
                       /\ turn[a].batch \subseteq 1..Len(log)
  BY <1>3 DEF TypeInv, TurnsOK, TurnOK, TurnPcs
<1> QED
  BY <1>1, <1>2, <1>4 DEF TypeInv, TreeOK, AnyStatus, TurnsTypeOK

LEMMA IdleIsOK ==
  /\ CallOK(Idle) /\ Idle.pc = "idle" /\ Idle.todo = <<>> /\ Idle.re = {} /\ Idle.want = "open"
  /\ CallOK(Idle)'
  BY DEF CallOK, Idle, CallPcs, Statuses, AnyStatus, Jobs

LEMMA TypeInit == Init => TypeInv
<1> SUFFICES ASSUME Init  PROVE TypeInv
  OBVIOUS
<1>1. log = <<>> /\ \A p \in Proc : call[p] = Idle
  BY DEF Init, TreeInit
<1>2. LogOK
  BY <1>1 DEF LogOK, IsLog
<1>3. TreeOK
  BY WorkTreeAssumption DEF Init, TreeInit, TreeOK, AnyStatus, Statuses, Exists
<1>4. CallsOK
  BY <1>1, IdleIsOK DEF Init, TreeInit, CallsOK
<1>5. LockOK
  BY <1>1, IdleIsOK, NoneIsNobody DEF Init, TreeInit, LockOK, Locked
<1>6. TurnsOK
  <2>1. \A a \in Agent : turn[a] = NoTurn /\ read[a] = 0
    BY DEF Init
  <2>2. \A a : TurnOK(NoTurn, a, 0)
    BY <1>1 DEF TurnOK, NoTurn, AnyStatus
  <2> QED
    BY <2>1, <2>2 DEF Init, TurnsOK
<1> QED
  BY <1>2, <1>3, <1>4, <1>5, <1>6 DEF TypeInv

\* Items stay, once there, and where they are.
Persist == \A i \in Item : Exists(i) => Exists(i)' /\ parent'[i] = parent[i]

LEMMA LogTypes ==
  ASSUME TypeInv, NEW E, Added(E), Persist, \A e \in E : EventOK(e)'
  PROVE  LogOK'
<1>1. \A n \in DOMAIN log : EventOK(log[n])
  BY DEF TypeInv, LogOK
<1>2. ASSUME NEW e, EventOK(e)  PROVE EventOK(e)'
  BY <1>2 DEF EventOK, Added, Persist
<1>3. ASSUME NEW n \in DOMAIN log'  PROVE EventOK(log[n])'
  <2>1. CASE n \in DOMAIN log
    <3>1. PICK e : e = log[n]
      OBVIOUS
    <3>2. EventOK(e)' /\ log'[n] = e
      BY <1>1, <1>2, <2>1, <3>1 DEF Added
    <3> QED
      BY <3>2 DEF EventOK
  <2>2. CASE n \notin DOMAIN log
    <3>1. PICK e \in E : e = log'[n]
      BY <1>3, <2>2 DEF Added
    <3>2. EventOK(e)'
      OBVIOUS
    <3> QED
      BY <3>1, <3>2 DEF EventOK
  <2> QED
    BY <2>1, <2>2
<1> QED
  BY <1>3 DEF LogOK, Added

LEMMA CallStays ==
  ASSUME NEW c, CallOK(c), NEW E, Added(E), Persist
  PROVE  CallOK(c)'
<1>1. \A k \in DOMAIN c.todo : c.todo[k] \in Jobs
  BY DEF CallOK
<1>2. \A k \in DOMAIN c.todo : c.todo[k].item \in Item
  BY <1>1 DEF Jobs
<1> QED
  BY <1>2 DEF CallOK, Added, Persist

\* One process moves on in its call, and its hold on the lock is told by where it is.
LEMMA CallTypes ==
  ASSUME TypeInv, NEW E, Added(E), Persist, NEW p \in Proc, NEW c, CallOK(c)', call' = [call EXCEPT ![p] = c],
         mutex' = IF c.pc \in Locked THEN p ELSE IF call[p].pc \in Locked THEN None ELSE mutex,
         c.pc \in Locked => mutex \in {None, p}
  PROVE  CallsOK' /\ LockOK'
<1>1. DOMAIN call' = Proc /\ call'[p] = c /\ \A q \in Proc : q # p => call'[q] = call[q]
  BY DEF TypeInv, CallsOK
<1>2. ASSUME NEW q \in Proc  PROVE CallOK(call[q])'
  <2>1. CASE q = p
    <3>1. call'[q] = c
      BY <1>1, <2>1
    <3> QED
      BY <3>1 DEF CallOK
  <2>2. CASE q # p
    <3>1. PICK d : d = call[q]
      OBVIOUS
    <3>2. CallOK(d)' /\ call'[q] = d
      BY <1>1, <2>2, <3>1, CallStays DEF TypeInv, CallsOK
    <3> QED
      BY <3>2 DEF CallOK
  <2> QED
    BY <2>1, <2>2
<1>3. LockOK'
  <2>1. \A q \in Proc : call[q].pc \in Locked <=> mutex = q
    BY DEF TypeInv, LockOK
  <2>2. None \notin Proc
    BY NoneIsNobody
  <2> QED
    BY <1>1, <2>1, <2>2 DEF LockOK
<1> QED
  BY <1>1, <1>2, <1>3 DEF CallsOK

LEMMA CallsStay ==
  ASSUME TypeInv, NEW E, Added(E), Persist, call' = call, mutex' = mutex
  PROVE  CallsOK' /\ LockOK'
<1>1. ASSUME NEW q \in Proc  PROVE CallOK(call[q])'
  <2>1. PICK d : d = call[q]
    OBVIOUS
  <2>2. CallOK(d)' /\ call'[q] = d
    BY <2>1, CallStays DEF TypeInv, CallsOK
  <2> QED
    BY <2>2 DEF CallOK
<1> QED
  BY <1>1 DEF TypeInv, CallsOK, LockOK

LEMMA TurnStays ==
  ASSUME NEW t, NEW a, NEW r, TurnOK(t, a, r), NEW E, Added(E), Persist
  PROVE  TurnOK(t, a, r)'
<1>1. \A n \in t.batch : n \in DOMAIN log' /\ log'[n] = log[n]
  BY DEF TurnOK, Added
<1>2. Len(log) \in Nat /\ Len(log') \in Nat /\ Len(log) <= Len(log')
  BY DEF Added
<1>3. t.batch \subseteq DOMAIN log' /\ \A n \in t.batch : log'[n].box = a /\ r < n /\ n <= t.upto
  BY <1>1 DEF TurnOK
<1>4. r \in 0..Len(log') /\ t.upto \in 0..Len(log')
  BY <1>2 DEF TurnOK
<1>5. \A i \in Item : t.all[i] # "none" => Exists(i)'
  BY DEF TurnOK, Persist
<1> QED
  BY <1>3, <1>4, <1>5 DEF TurnOK

\* The turn and the cursor of an agent become these.
Becomes(a, t, r) ==
  /\ DOMAIN turn' = Agent /\ DOMAIN read' = Agent /\ turn'[a] = t /\ read'[a] = r
  /\ \A b \in Agent : b # a => turn'[b] = turn[b] /\ read'[b] = read[b]

LEMMA TurnTypes ==
  ASSUME TypeInv, NEW E, Added(E), Persist, NEW a \in Agent, NEW t, NEW r, TurnOK(t, a, r)', Becomes(a, t, r)
  PROVE  TurnsOK'
<1>1. ASSUME NEW b \in Agent  PROVE TurnOK(turn[b], b, read[b])'
  <2>1. CASE b = a
    BY <2>1 DEF TurnOK, Becomes
  <2>2. CASE b # a
    <3>1. PICK u, q : u = turn[b] /\ q = read[b]
      OBVIOUS
    <3>2. TurnOK(u, b, q)' /\ turn'[b] = u /\ read'[b] = q
      BY <2>2, <3>1, TurnStays DEF TypeInv, TurnsOK, Becomes
    <3> QED
      BY <3>2 DEF TurnOK
  <2> QED
    BY <2>1, <2>2
<1> QED
  BY <1>1 DEF TurnsOK, Becomes

LEMMA TurnsStay ==
  ASSUME TypeInv, NEW E, Added(E), Persist, turn' = turn, read' = read
  PROVE  TurnsOK'
<1>1. ASSUME NEW b \in Agent  PROVE TurnOK(turn[b], b, read[b])'
  <2>1. PICK u, q : u = turn[b] /\ q = read[b]
    OBVIOUS
  <2>2. TurnOK(u, b, q)' /\ turn'[b] = u /\ read'[b] = q
    BY <2>1, TurnStays DEF TypeInv, TurnsOK
  <2> QED
    BY <2>2 DEF TurnOK
<1> QED
  BY <1>1 DEF TypeInv, TurnsOK

LEMMA StepTypes ==
  ASSUME TypeInv, NEW E, Added(E), \A e \in E : EventOK(e)', Persist, TreeOK', CallsOK', LockOK', TurnsOK'
  PROVE  TypeInv'
  BY LogTypes DEF TypeInv

-----------------------------------------------------------------------------
(* The tree *)

LEMMA TreeSame ==
  ASSUME TypeInv, UNCHANGED <<parent, status>>, active' \subseteq active \cup {i \in Item : Exists(i)}, faults' \in Nat
  PROVE  TreeOK' /\ Persist
  BY DEF TypeInv, TreeOK, Persist, Exists

LEMMA StatusSet ==
  ASSUME TypeInv, NEW i \in Item, NEW want \in Statuses, status' = [status EXCEPT ![i] = want],
         UNCHANGED <<parent, active, faults>>
  PROVE  TreeOK' /\ Persist /\ Exists(i)'
<1>1. status \in [Item -> AnyStatus] /\ want # "none" /\ want \in AnyStatus
  BY DEF TypeInv, TreeOK, AnyStatus, Statuses
<1>2. status' \in [Item -> AnyStatus] /\ status'[i] = want /\ \A j \in Item : j # i => status'[j] = status[j]
  BY <1>1
<1> QED
  BY <1>1, <1>2 DEF TypeInv, TreeOK, Persist, Exists

LEMMA FreshIsFree ==
  ASSUME Free # {}
  PROVE  Fresh \in Item /\ ~Exists(Fresh)
<1>1. Fresh \in Free
  BY DEF Fresh
<1> QED
  BY <1>1 DEF Free

\* A new item, at the top or below another.
LEMMA ItemMade ==
  ASSUME TypeInv, NEW i \in Item, ~Exists(i), NEW x \in Item \cup {None}, x \in Item => Exists(x), parent' = [parent EXCEPT ![i] = x],
         status' = [status EXCEPT ![i] = "open"], UNCHANGED <<active, faults>>
  PROVE  TreeOK' /\ Persist /\ Exists(i)' /\ status' \in [Item -> AnyStatus]
<1>1. status \in [Item -> AnyStatus] /\ parent \in [Item -> Item \cup {None}] /\ "open" \in AnyStatus /\ "open" # "none"
  BY DEF TypeInv, TreeOK, AnyStatus, Statuses
<1>2. status' \in [Item -> AnyStatus] /\ status'[i] = "open" /\ \A j \in Item : j # i => status'[j] = status[j]
  BY <1>1
<1>3. parent' \in [Item -> Item \cup {None}] /\ \A j \in Item : j # i => parent'[j] = parent[j]
  BY <1>1
<1> QED
  BY <1>1, <1>2, <1>3 DEF TypeInv, TreeOK, Persist, Exists

\* What is refused for its hop is still about the same.
LEMMA PostedIs ==
  ASSUME NEW e
  PROVE  /\ Posted(e).item = e.item /\ Posted(e).of = e.of /\ Posted(e).re = e.re
         /\ Posted(e) = e \/ (Posted(e).kind = "refused" /\ Posted(e).box = None)
  BY DEF Posted, Event

LEMMA PostedIsOK ==
  ASSUME NEW e, EventOK(e)', NEW q, q = Posted(e)
  PROVE  EventOK(q)'
  BY PostedIs, NoneIsNobody, WorkTreeAssumption DEF EventOK, EventKinds

-----------------------------------------------------------------------------
(* Calls *)

Busy == {"deliver", "copy", "lock", "siblings", "notify", "close"}

LEMMA NowIsJob ==
  ASSUME TypeInv, NEW p \in Proc, call[p].pc \in Busy
  PROVE  /\ Now(p) \in Jobs /\ Now(p).item \in Item /\ Now(p).of \in Message \cup {None} /\ Exists(Now(p).item)
         /\ call[p].todo \in Seq(Jobs) /\ call[p].todo # <<>> /\ Len(call[p].todo) \in Nat \ {0}
         /\ 1 \in DOMAIN call[p].todo /\ call[p].todo[1] = Now(p)
<1>1. CallOK(call[p]) /\ call[p].todo \in Seq(Jobs) /\ call[p].todo # <<>>
  BY DEF TypeInv, CallsOK, CallOK, Busy
<1>2. Len(call[p].todo) \in Nat \ {0} /\ 1 \in DOMAIN call[p].todo /\ call[p].todo[1] = Now(p)
  BY <1>1 DEF Now
<1>3. Now(p) \in Jobs /\ Exists(Now(p).item)
  BY <1>1, <1>2 DEF CallOK
<1> QED
  BY <1>1, <1>2, <1>3 DEF Jobs

\* A call at another place, with nothing else about it changed.
LEMMA CallMoved ==
  ASSUME NEW c, CallOK(c), NEW pc \in CallPcs, pc \in {"idle", "stop"} \/ c.todo # <<>>
  PROVE  LET d == [c EXCEPT !.pc = pc] IN
         CallOK(d) /\ d.pc = pc /\ d.todo = c.todo /\ d.re = c.re /\ d.want = c.want /\ d.prev = c.prev /\ d.saw = c.saw
  BY DEF CallOK

LEMMA GoesTo ==
  ASSUME TypeInv, NEW p \in Proc, NEW pc \in CallPcs, call[p].todo # <<>>, Goto(p, pc)
  PROVE  \E c : /\ CallOK(c) /\ call' = [call EXCEPT ![p] = c] /\ c.pc = pc
                /\ c.todo = call[p].todo /\ c.re = call[p].re /\ c.want = call[p].want
<1> DEFINE c == [call[p] EXCEPT !.pc = pc]
<1>1. CallOK(call[p])
  BY DEF TypeInv, CallsOK
<1>2. CallOK(c) /\ c.pc = pc /\ c.todo = call[p].todo /\ c.re = call[p].re /\ c.want = call[p].want
  BY <1>1, CallMoved
<1>3. call' = [call EXCEPT ![p] = c]
  BY DEF Goto
<1> HIDE DEF c
<1> QED
  BY <1>2, <1>3

\* What is left of a sequence with more than one element.
LEMMA TailIs ==
  ASSUME NEW S, NEW s \in Seq(S), s # <<>>, Len(s) # 1
  PROVE  /\ Tail(s) \in Seq(S) /\ Tail(s) # <<>>
         /\ \A k \in DOMAIN Tail(s) : k + 1 \in DOMAIN s /\ Tail(s)[k] = s[k + 1]
<1>1. PICK n \in Nat : n = Len(s)
  OBVIOUS
<1>2. n # 0 /\ n # 1
  BY <1>1
<1>3. Tail(s) \in Seq(S) /\ Len(Tail(s)) = n - 1
  BY <1>1, <1>2
<1>4. \A k \in 1..(n - 1) : k + 1 \in 1..n /\ Tail(s)[k] = s[k + 1]
  BY <1>1, <1>2
<1>5. DOMAIN Tail(s) = 1..(n - 1) /\ DOMAIN s = 1..n
  BY <1>1, <1>3
<1>6. Tail(s) # <<>>
  <2>1. 1 \in DOMAIN Tail(s) /\ DOMAIN <<>> = {}
    BY <1>2, <1>5
  <2> QED
    BY <2>1
<1> QED
  BY <1>3, <1>4, <1>5, <1>6

\* The next of what is to be done, or the end of the call.
LEMMA ProceedsTo ==
  ASSUME TypeInv, NEW p \in Proc, call[p].pc \in Busy, NEW pc \in Busy, Proceeds(p, pc)
  PROVE  \E c : /\ CallOK(c) /\ call' = [call EXCEPT ![p] = c]
                /\ c = Idle \/ (c.pc = pc /\ c.todo = Tail(call[p].todo) /\ c.re = call[p].re /\ c.want = call[p].want)
<1> DEFINE c == [call[p] EXCEPT !.todo = Tail(@), !.pc = pc]
           rest == Tail(call[p].todo)
<1>1. CallOK(call[p]) /\ call[p].todo \in Seq(Jobs) /\ Len(call[p].todo) \in Nat \ {0} /\ call[p].todo # <<>>
  BY NowIsJob DEF TypeInv, CallsOK
<1>2. CASE Len(call[p].todo) = 1
  <2>1. call' = [call EXCEPT ![p] = Idle]
    BY <1>2 DEF Proceeds
  <2> QED
    BY <2>1, IdleIsOK
<1>3. CASE Len(call[p].todo) # 1
  <2>1. call' = [call EXCEPT ![p] = c]
    BY <1>3 DEF Proceeds
  <2>2. /\ {"pc", "todo", "saw", "prev", "re", "want", "hop"} \subseteq DOMAIN c
        /\ c.pc = pc /\ c.todo = rest /\ c.re = call[p].re /\ c.want = call[p].want /\ c.saw = call[p].saw
    BY <1>1 DEF CallOK
  <2>3. rest \in Seq(Jobs) /\ rest # <<>> /\ \A k \in DOMAIN rest : k + 1 \in DOMAIN call[p].todo /\ rest[k] = call[p].todo[k + 1]
    BY <1>1, <1>3, TailIs
  <2>6. \A k \in DOMAIN rest : Exists(rest[k].item)
    BY <1>1, <2>3 DEF CallOK
  <2>7. pc \in CallPcs
    BY DEF Busy, CallPcs
  <2> HIDE DEF c, rest
  <2>8. CallOK(c)
    BY <1>1, <2>2, <2>3, <2>6, <2>7 DEF CallOK
  <2> QED
    BY <2>1, <2>2, <2>8 DEF rest
<1> QED
  BY <1>2, <1>3

\* An event about items that are there.
Fits(e) ==
  /\ e.kind \in EventKinds /\ e.box \in Agent \cup {None}
  /\ e.item \in Item \cup {None} /\ e.of \in Message \cup {None} /\ e.re \subseteq 1..Len(log)
  /\ e.box \in Item => status'[e.box] # "none"
  /\ e.item \in Item => status'[e.item] # "none"

LEMMA EventFits ==
  ASSUME NEW kind \in EventKinds, NEW box \in Agent \cup {None}, NEW item \in Item \cup {None}, NEW of \in Message \cup {None},
         box \in Item => status'[box] # "none", item \in Item => status'[item] # "none"
  PROVE  /\ Fits(Event(kind, box, item, of))
         /\ \A x : \A re \in SUBSET (1..Len(log)) : Fits([Event(kind, box, item, of) EXCEPT !.prev = x, !.re = re])
         /\ \A re \in SUBSET (1..Len(log)) : Fits([Event(kind, box, item, of) EXCEPT !.re = re])
         /\ \A h : Fits([Event(kind, box, item, of) EXCEPT !.hop = h])
         /\ \A h : \A re \in SUBSET (1..Len(log)) : Fits([Event(kind, box, item, of) EXCEPT !.hop = h, !.re = re])
  BY DEF Fits, Event

LEMMA FitIsOK ==
  ASSUME NEW e, Fits(e), NEW E, Added(E)
  PROVE  EventOK(e)'
  BY DEF Fits, EventOK, Added, Exists

LEMMA Recorded ==
  ASSUME TypeInv, NEW e, Fits(e), Record(e) \/ Post(e)
  PROVE  \E E : Added(E) /\ \A q \in E : EventOK(q)'
<1>1. PICK q : Record(q) /\ (q = e \/ q = Posted(e))
  BY DEF Post
<1>2. Fits(q)
  BY <1>1, PostedIs, NoneIsNobody, WorkTreeAssumption DEF Fits, EventKinds
<1>3. Added({q})
  BY <1>1, AddedOne DEF TypeInv, LogOK
<1>4. EventOK(q)'
  BY <1>2, <1>3, FitIsOK
<1>5. \A x \in {q} : EventOK(x)'
  <2> SUFFICES ASSUME NEW x, x = q  PROVE EventOK(x)'
    OBVIOUS
  <2> QED
    BY <1>2, <1>3, FitIsOK
<1> QED
  BY <1>3, <1>5

LEMMA NothingRecorded ==
  ASSUME TypeInv, log' = log
  PROVE  \E E : Added(E) /\ \A q \in E : EventOK(q)'
<1>1. Added({})
  BY AddedNone DEF TypeInv, LogOK
<1>2. \A q \in {} : EventOK(q)'
  OBVIOUS
<1> QED
  BY <1>1, <1>2

-----------------------------------------------------------------------------
(* The types, step by step: what a handler does *)

LEMMA CallStep ==
  ASSUME TypeInv, NEW E, Added(E), \A e \in E : EventOK(e)', Persist, TreeOK', NEW p \in Proc, NEW c, CallOK(c)',
         call' = [call EXCEPT ![p] = c], c.pc \in Locked => mutex \in {None, p},
         mutex' = IF c.pc \in Locked THEN p ELSE IF call[p].pc \in Locked THEN None ELSE mutex,
         UNCHANGED <<read, turn>>
  PROVE  TypeInv'
<1>1. CallsOK' /\ LockOK'
  BY CallTypes
<1>2. TurnsOK'
  BY TurnsStay
<1> QED
  BY <1>1, <1>2, StepTypes

LEMMA ReopenTypes ==
  ASSUME TypeInv, NEW p \in Proc, Reopen(p), UNCHANGED <<read, turn>>
  PROVE  TypeInv'
<1>1. Now(p).item \in Item /\ call[p].pc = "deliver" /\ CallOK(call[p])
  BY NowIsJob DEF Reopen, At, Busy, TypeInv, CallsOK
<1>2. PICK i \in Item : i = Now(p).item
  BY <1>1
<1>3. TreeOK' /\ Persist /\ Exists(i)'
  BY <1>2, StatusSet DEF Reopen, Statuses
<1>4. Fits(Event("reopened", None, i, None))
  BY <1>3, EventFits, NoneIsNobody DEF EventKinds, Exists
<1>5. PICK E : Added(E) /\ \A q \in E : EventOK(q)'
  BY <1>2, <1>4, Recorded DEF Reopen
<1>6. PICK c : c = [call[p] EXCEPT !.saw[i] = "open"]
  OBVIOUS
<1>7. CallOK(c) /\ c.pc = "deliver"
  BY <1>1, <1>6 DEF CallOK, AnyStatus, Statuses
<1>8. CallOK(c)'
  BY <1>3, <1>5, <1>7, CallStays
<1>9. call' = [call EXCEPT ![p] = c] /\ mutex' = mutex
  BY <1>2, <1>6 DEF Reopen
<1> QED
  BY <1>1, <1>3, <1>5, <1>7, <1>8, <1>9, CallStep DEF Locked

LEMMA AttributeTypes ==
  ASSUME TypeInv, NEW p \in Proc, Attribute(p), UNCHANGED <<read, turn>>
  PROVE  TypeInv'
<1>1. /\ Now(p).item \in Item /\ Now(p).of \in Message \cup {None} /\ Exists(Now(p).item) /\ call[p].todo # <<>>
      /\ call[p].pc = "deliver" /\ CallOK(call[p])
  BY NowIsJob DEF Attribute, At, Busy, TypeInv, CallsOK
<1>2. TreeOK' /\ Persist
  BY TreeSame DEF Attribute, TypeInv, TreeOK
<1>3. call[p].re \in SUBSET (1..Len(log))
  BY <1>1 DEF CallOK
<1>4. Fits([Event("attributed", None, Now(p).item, Now(p).of) EXCEPT !.prev = call[p].prev, !.re = call[p].re])
  BY <1>1, <1>3, EventFits, NoneIsNobody DEF Attribute, EventKinds, Exists
<1>5. PICK E : Added(E) /\ \A q \in E : EventOK(q)'
  BY <1>4, Recorded DEF Attribute
<1>6. PICK c : CallOK(c) /\ call' = [call EXCEPT ![p] = c] /\ c.pc = "copy"
  BY <1>1, GoesTo DEF Attribute, CallPcs
<1>7. CallOK(c)'
  BY <1>2, <1>5, <1>6, CallStays
<1> QED
  BY <1>1, <1>2, <1>5, <1>6, <1>7, CallStep DEF Locked, Attribute

LEMMA CopyTypes ==
  ASSUME TypeInv, NEW p \in Proc, Copy(p), UNCHANGED <<read, turn>>
  PROVE  TypeInv'
<1>1. /\ Now(p).item \in Item /\ Now(p).of \in Message \cup {None} /\ Exists(Now(p).item)
      /\ call[p].pc = "copy" /\ "copy" \in Busy /\ "deliver" \in Busy
  BY NowIsJob DEF Copy, At, Busy
<1>2. TreeOK' /\ Persist
  BY TreeSame DEF Copy, TypeInv, TreeOK
<1>3. Fits([Event("copy", Now(p).item, Now(p).item, Now(p).of) EXCEPT !.hop = 1])
  BY <1>1, EventFits, NoneIsNobody DEF Copy, EventKinds, Exists, Agent
<1>4. PICK E : Added(E) /\ \A q \in E : EventOK(q)'
  BY <1>3, Recorded DEF Copy
<1>5. PICK c : CallOK(c) /\ call' = [call EXCEPT ![p] = c] /\ (c = Idle \/ c.pc = "deliver")
  BY <1>1, ProceedsTo DEF Copy
<1>6. CallOK(c)' /\ c.pc \in {"idle", "deliver"}
  BY <1>2, <1>4, <1>5, CallStays, IdleIsOK
<1> QED
  BY <1>1, <1>2, <1>4, <1>5, <1>6, CallStep DEF Locked, Copy

LEMMA ChangeRowTypes ==
  ASSUME TypeInv, NEW p \in Proc, ChangeRow(p), UNCHANGED <<read, turn>>
  PROVE  TypeInv'
<1>1. Now(p).item \in Item /\ call[p].todo # <<>> /\ call[p].pc = "lock" /\ CallOK(call[p])
  BY NowIsJob DEF ChangeRow, At, Busy, TypeInv, CallsOK
<1>2. PICK i \in Item : i = Now(p).item
  BY <1>1
<1>3. TreeOK' /\ Persist /\ Exists(i)'
  BY <1>1, <1>2, StatusSet DEF ChangeRow, CallOK
<1>4. PICK kind \in EventKinds : kind = IF call[p].want = "open" THEN "reopened" ELSE "settles"
  BY DEF EventKinds
<1>5. call[p].re \in SUBSET (1..Len(log))
  BY <1>1 DEF CallOK
<1>6. Fits([Event(kind, None, i, None) EXCEPT !.re = call[p].re])
  BY <1>3, <1>5, EventFits, NoneIsNobody DEF Exists
<1>7. PICK E : Added(E) /\ \A q \in E : EventOK(q)'
  BY <1>2, <1>4, <1>6, Recorded DEF ChangeRow
<1>8. PICK c : CallOK(c) /\ call' = [call EXCEPT ![p] = c] /\ c.pc = "siblings"
  BY <1>1, GoesTo DEF ChangeRow, CallPcs
<1>9. CallOK(c)'
  BY <1>3, <1>7, <1>8, CallStays
<1> QED
  BY <1>3, <1>7, <1>8, <1>9, CallStep DEF Locked, ChangeRow

LEMMA SiblingsTypes ==
  ASSUME TypeInv, NEW p \in Proc, Siblings(p), UNCHANGED <<read, turn>>
  PROVE  TypeInv'
<1>1. call[p].todo # <<>> /\ call[p].pc = "siblings" /\ "lock" \in Busy /\ call[p].pc \in Busy /\ mutex = p
  BY NowIsJob DEF Siblings, At, Busy, TypeInv, LockOK, Locked
<1>2. TreeOK' /\ Persist
  BY TreeSame DEF Siblings, TypeInv, TreeOK
<1>3. PICK E : Added(E) /\ \A q \in E : EventOK(q)'
  BY NothingRecorded DEF Siblings
<1>4. (Goto(p, "notify") /\ mutex' = mutex) \/ (Proceeds(p, "lock") /\ mutex' = None)
  BY DEF Siblings
<1>5. \E c : /\ CallOK(c) /\ call' = [call EXCEPT ![p] = c]
             /\ (c.pc = "notify" /\ mutex' = mutex) \/ (c.pc \in {"idle", "lock"} /\ mutex' = None)
  <2>1. CASE Goto(p, "notify") /\ mutex' = mutex
    BY <1>1, <2>1, GoesTo DEF CallPcs
  <2>2. CASE Proceeds(p, "lock") /\ mutex' = None
    BY <1>1, <2>2, ProceedsTo, IdleIsOK
  <2> QED
    BY <1>4, <2>1, <2>2
<1>6. PICK c : /\ CallOK(c) /\ call' = [call EXCEPT ![p] = c]
               /\ (c.pc = "notify" /\ mutex' = mutex) \/ (c.pc \in {"idle", "lock"} /\ mutex' = None)
  BY <1>5
<1>7. CallOK(c)'
  BY <1>2, <1>3, <1>6, CallStays
<1> QED
  BY <1>1, <1>2, <1>3, <1>6, <1>7, CallStep DEF Locked, Siblings

LEMMA NotifyParentTypes ==
  ASSUME TypeInv, NEW p \in Proc, NotifyParent(p), UNCHANGED <<read, turn>>
  PROVE  TypeInv'
<1>1. Now(p).item \in Item /\ call[p].pc = "notify" /\ "notify" \in Busy /\ "lock" \in Busy
  BY NowIsJob DEF NotifyParent, At, Busy
<1>2. TreeOK' /\ Persist
  BY TreeSame DEF NotifyParent, TypeInv, TreeOK
<1>3. PICK up \in Item \cup {None} : up = parent[Now(p).item]
  BY <1>1 DEF TypeInv, TreeOK
<1>4. up \in Item => status'[up] # "none"
  BY <1>1, <1>3 DEF TypeInv, TreeOK, NotifyParent, Exists
<1>5. Fits([Event("settled", up, up, None) EXCEPT !.hop = call[p].hop + 1])
  BY <1>4, EventFits, NoneIsNobody DEF EventKinds, Agent
<1>6. PICK E : Added(E) /\ \A q \in E : EventOK(q)'
  BY <1>3, <1>5, Recorded DEF NotifyParent
<1>7. PICK c : CallOK(c) /\ call' = [call EXCEPT ![p] = c] /\ (c = Idle \/ c.pc = "lock")
  BY <1>1, ProceedsTo DEF NotifyParent
<1>8. CallOK(c)' /\ c.pc \in {"idle", "lock"}
  BY <1>2, <1>6, <1>7, CallStays, IdleIsOK
<1> QED
  BY <1>1, <1>2, <1>6, <1>7, <1>8, CallStep DEF Locked, NotifyParent

\* The events of a set, in some order.
LEMMA RecordedAll ==
  ASSUME TypeInv, NEW S, IsFiniteSet(S), \A e \in S : Fits(e), log' = log \o SetToSeq(S)
  PROVE  Added(S) /\ \A q \in S : EventOK(q)'
<1>1. Added(S)
  BY SetInSequence, AddedMany DEF TypeInv, LogOK
<1>2. ASSUME NEW q \in S  PROVE EventOK(q)'
  BY <1>1, FitIsOK
<1> QED
  BY <1>1, <1>2

LEMMA StoppedOutcomes ==
  ASSUME TypeInv, status' = status, NEW A, A \subseteq active
  PROVE  LET S == {[Event("cancelled", i, i, None) EXCEPT !.hop = OutcomeHop(i)] : i \in A}
         IN  IsFiniteSet(S) /\ \A e \in S : Fits(e)
<1>1. IsFiniteSet(A) /\ \A i \in A : i \in Item /\ Exists(i)
  BY WorkTreeAssumption, FS_Subset DEF TypeInv, TreeOK
<1> DEFINE f == [i \in A |-> [Event("cancelled", i, i, None) EXCEPT !.hop = OutcomeHop(i)]]
<1>2. IsFiniteSet({f[i] : i \in A})
  <2>1. DOMAIN f = A
    OBVIOUS
  <2> HIDE DEF f
  <2> QED
    BY <1>1, <2>1, ImageIsFinite
<1>3. ASSUME NEW i \in A  PROVE Fits(f[i])
  <2>1. i \in Item /\ status'[i] # "none"
    BY <1>1 DEF Exists
  <2>2. Fits([Event("cancelled", i, i, None) EXCEPT !.hop = OutcomeHop(i)])
    BY <2>1, EventFits DEF EventKinds, Agent
  <2> QED
    BY <2>2
<1>4. {f[i] : i \in A} = {[Event("cancelled", i, i, None) EXCEPT !.hop = OutcomeHop(i)] : i \in A}
  OBVIOUS
<1> HIDE DEF f
<1>5. \A e \in {f[i] : i \in A} : Fits(e)
  BY <1>3
<1> QED
  BY <1>2, <1>4, <1>5

LEMMA StopExecutionsTypes ==
  ASSUME TypeInv, NEW p \in Proc, StopExecutions(p), UNCHANGED <<read, turn>>
  PROVE  TypeInv'
<1>1. call[p].pc = "stop" /\ CallOK(call[p])
  BY DEF StopExecutions, At, TypeInv, CallsOK
<1>2. TreeOK' /\ Persist
  BY TreeSame DEF StopExecutions, TypeInv, TreeOK
<1>3. PICK A : A = {i \in active : call[p].saw[i] # "none"}
  OBVIOUS
<1>4. A \subseteq active /\ status' = status
  BY <1>3 DEF StopExecutions
<1>5. PICK S : S = {[Event("cancelled", i, i, None) EXCEPT !.hop = OutcomeHop(i)] : i \in A}
  OBVIOUS
<1>6. log' = log \o SetToSeq(S)
  BY <1>3, <1>5 DEF StopExecutions
<1>7. IsFiniteSet(S) /\ \A e \in S : Fits(e)
  BY <1>4, <1>5, StoppedOutcomes
<1>71. Added(S) /\ \A q \in S : EventOK(q)'
  BY <1>6, <1>7, RecordedAll
<1>8. PICK c : c = IF call[p].todo = <<>> THEN Idle ELSE [call[p] EXCEPT !.pc = "close"]
  OBVIOUS
<1>9. CallOK(c) /\ c.pc \in {"idle", "close"}
  BY <1>1, <1>8, IdleIsOK, CallMoved DEF CallPcs
<1>10. call' = [call EXCEPT ![p] = c] /\ mutex' = mutex
  BY <1>8 DEF StopExecutions
<1>11. CallOK(c)'
  BY <1>2, <1>71, <1>9, CallStays
<1> QED
  BY <1>1, <1>2, <1>71, <1>9, <1>10, <1>11, CallStep DEF Locked

LEMMA ClosePartTypes ==
  ASSUME TypeInv, NEW p \in Proc, ClosePart(p), UNCHANGED <<read, turn>>
  PROVE  TypeInv'
<1>1. Now(p).item \in Item /\ call[p].pc = "close" /\ "close" \in Busy
  BY NowIsJob DEF ClosePart, At, Busy
<1>2. PICK i \in Item : i = Now(p).item
  BY <1>1
<1>3. TreeOK' /\ Persist /\ Exists(i)'
  BY <1>2, StatusSet DEF ClosePart, Statuses
<1>4. Fits(Event("stops", None, i, None))
  BY <1>3, EventFits, NoneIsNobody DEF EventKinds, Exists
<1>5. PICK E : Added(E) /\ \A q \in E : EventOK(q)'
  BY <1>2, <1>4, Recorded DEF ClosePart
<1>6. PICK c : CallOK(c) /\ call' = [call EXCEPT ![p] = c] /\ (c = Idle \/ c.pc = "close")
  BY <1>1, ProceedsTo DEF ClosePart
<1>7. CallOK(c)' /\ c.pc \in {"idle", "close"}
  BY <1>3, <1>5, <1>6, CallStays, IdleIsOK
<1> QED
  BY <1>1, <1>3, <1>5, <1>6, <1>7, CallStep DEF Locked, ClosePart

-----------------------------------------------------------------------------
(* The types: the calls that begin *)

LEMMA JobsOf ==
  ASSUME NEW s \in Seq(Item), NEW m \in Message \cup {None}, NEW t, t = [n \in DOMAIN s |-> For(m, s[n])]
  PROVE  /\ t \in Seq(Jobs) /\ DOMAIN t = DOMAIN s /\ (s # <<>> => t # <<>>)
         /\ \A k \in DOMAIN t : t[k].item = s[k] /\ t[k].of = m
<1>1. PICK n \in Nat : DOMAIN s = 1..n /\ n = Len(s)
  OBVIOUS
<1>2. \A k \in 1..n : s[k] \in Item
  BY <1>1
<1>3. t = [k \in 1..n |-> For(m, s[k])] /\ \A k \in 1..n : For(m, s[k]) \in Jobs
  BY <1>1, <1>2 DEF For, Jobs
<1>4. t \in Seq(Jobs)
  BY <1>3
<1>5. s # <<>> => t # <<>>
  <2>1. ASSUME t = <<>>, s # <<>>  PROVE FALSE
    <3>1. DOMAIN s = {}
      BY <1>1, <1>3, <2>1
    <3>2. n = 0
      <4>1. n # 0 => 1 \in 1..n
        OBVIOUS
      <4> QED
        BY <1>1, <3>1, <4>1
    <3> QED
      BY <1>1, <2>1, <3>2
  <2> QED
    BY <2>1
<1> QED
  BY <1>1, <1>3, <1>4, <1>5 DEF For

LEMMA DeliveringIs ==
  ASSUME NEW todo \in Seq(Jobs), todo # <<>>, NEW saw, NEW prev, NEW re
  PROVE  LET c == Delivering(todo, saw, prev, re) IN
         /\ {"pc", "todo", "saw", "prev", "re", "want", "hop"} \subseteq DOMAIN c
         /\ c.pc = "deliver" /\ c.todo = todo /\ c.saw = saw /\ c.prev = prev /\ c.re = re /\ c.want = "open"
         /\ re \in SUBSET (1..Len(log)) /\ saw \in [Item -> AnyStatus] /\ (\A k \in DOMAIN todo : Exists(todo[k].item)) => CallOK(c)
  BY DEF Delivering, Idle, CallOK, CallPcs, Statuses

LEMMA ChangingIs ==
  ASSUME NEW items \in Seq(Item), items # <<>>, \A k \in DOMAIN items : Exists(items[k]), NEW want \in Statuses, NEW hop
  PROVE  LET c == Changing(items, want, hop) IN
         /\ CallOK(c) /\ c.pc = "lock" /\ c.re = {} /\ c.want = want /\ c.hop = hop
         /\ DOMAIN c.todo = DOMAIN items /\ \A k \in DOMAIN items : c.todo[k] = For(None, items[k])
<1>1. PICK t : t = [n \in DOMAIN items |-> For(None, items[n])]
  OBVIOUS
<1>2. t \in Seq(Jobs) /\ DOMAIN t = DOMAIN items /\ t # <<>> /\ \A k \in DOMAIN t : t[k].item = items[k]
  BY <1>1, JobsOf
<1>3. \A k \in DOMAIN t : Exists(t[k].item)
  BY <1>2
<1>4. PICK c : c = Changing(items, want, hop)
  OBVIOUS
<1>5. /\ {"pc", "todo", "saw", "prev", "re", "want", "hop"} \subseteq DOMAIN c
      /\ c.pc = "lock" /\ c.todo = t /\ c.saw = Idle.saw /\ c.re = {} /\ c.want = want /\ c.hop = hop
  BY <1>1, <1>4 DEF Changing, Idle
<1>6. Idle.saw \in [Item -> AnyStatus]
  BY DEF Idle, AnyStatus
<1>7. CallOK(c)
  BY <1>2, <1>3, <1>5, <1>6 DEF CallOK, CallPcs
<1> QED
  BY <1>1, <1>2, <1>4, <1>5, <1>7

LEMMA CancellingIs ==
  ASSUME TypeInv, NEW i \in Item
  PROVE  CallOK(Cancelling(i)) /\ Cancelling(i).pc = "stop" /\ Cancelling(i).re = {}
<1> DEFINE S == {c \in Item \ {i} : c \in SubtreeOf(i) /\ status[c] = "open"}
<1>1. IsFiniteSet(S) /\ S \subseteq Item
  BY WorkTreeAssumption, FS_Subset
<1>2. \A x \in S : Exists(x)
  BY DEF Exists
<1>3. PICK parts : parts = SetToSeq(S)
  OBVIOUS
<1> HIDE DEF S
<1>4. parts \in Seq(S)
  BY <1>1, <1>3, SetInSequence
<1>5. parts \in Seq(Item) /\ \A k \in DOMAIN parts : Exists(parts[k])
  BY <1>1, <1>2, <1>4
<1>6. PICK t : t = [n \in DOMAIN parts |-> For(None, parts[n])]
  OBVIOUS
<1>7. t \in Seq(Jobs) /\ \A k \in DOMAIN t : Exists(t[k].item)
  <2>1. PICK m \in Message \cup {None} : m = None
    OBVIOUS
  <2>2. t = [n \in DOMAIN parts |-> For(m, parts[n])] /\ parts \in Seq(Item) /\ m \in Message \cup {None}
    BY <1>5, <1>6, <2>1
  <2>3. t \in Seq(Jobs) /\ DOMAIN t = DOMAIN parts /\ \A k \in DOMAIN t : t[k].item = parts[k]
    BY <2>2, JobsOf
  <2> QED
    BY <1>5, <2>3
<1>8. PICK c : c = Cancelling(i)
  OBVIOUS
<1>9. PICK saw : saw = [j \in Item |-> IF j \in SubtreeOf(i) THEN status[j] ELSE "none"]
  OBVIOUS
<1>10. saw \in [Item -> AnyStatus]
  BY <1>9 DEF TypeInv, TreeOK, AnyStatus
<1>11. c = [Idle EXCEPT !.pc = "stop", !.todo = t, !.saw = saw]
  BY <1>3, <1>6, <1>8, <1>9 DEF Cancelling, S
<1>12. /\ {"pc", "todo", "saw", "prev", "re", "want", "hop"} \subseteq DOMAIN c
       /\ c.pc = "stop" /\ c.todo = t /\ c.saw = saw /\ c.re = {} /\ c.want = "open"
  BY <1>11 DEF Idle
<1>13. CallOK(c)
  BY <1>7, <1>10, <1>12 DEF CallOK, CallPcs, Statuses
<1> QED
  BY <1>8, <1>12, <1>13

LEMMA OneJob ==
  ASSUME NEW m \in Message \cup {None}, NEW i \in Item
  PROVE  /\ <<For(m, i)>> \in Seq(Jobs) /\ <<For(m, i)>> # <<>> /\ DOMAIN <<For(m, i)>> = {1}
         /\ <<For(m, i)>>[1].item = i /\ <<For(m, i)>>[1].of = m
  BY DEF For, Jobs

LEMMA SubmitTypes ==
  ASSUME TypeInv, NEW p \in Proc, NEW m \in Message, NEW targets \in Seq(Item), Submit(p, m, targets), UNCHANGED <<read, turn>>
  PROVE  TypeInv'
<1>1. call[p].pc = "idle" /\ \A i \in ToSet(targets) : Exists(i)
  BY DEF Submit, Called, At
<1>2. TreeOK' /\ Persist
  BY TreeSame DEF Submit, TypeInv, TreeOK
<1>3. \A k \in DOMAIN targets : targets[k] \in Item /\ Exists(targets[k])
  BY <1>1 DEF ToSet
<1>4. PICK box \in Agent \cup {None} : box = IF targets = <<>> THEN Primary ELSE None
  BY DEF Agent
<1>5. PICK item : item = IF Len(targets) = 1 THEN Head(targets) ELSE None
  OBVIOUS
<1>6. item \in Item \cup {None} /\ (item \in Item => Exists(item))
  BY <1>3, <1>5, NoneIsNobody
<1>7. item \in Item => status'[item] # "none"
  BY <1>6 DEF Submit, Exists
<1>8. Fits(Event("message", box, item, m))
  BY <1>4, <1>6, <1>7, EventFits, NoneIsNobody DEF EventKinds
<1>9. PICK E : Added(E) /\ \A q \in E : EventOK(q)'
  BY <1>4, <1>5, <1>8, Recorded DEF Submit
<1>10. PICK t : t = [n \in DOMAIN targets |-> For(m, targets[n])]
  OBVIOUS
<1>11. PICK c : c = IF targets = <<>> THEN Idle ELSE Delivering(t, status, None, {})
  OBVIOUS
<1>12. CallOK(c) /\ c.pc \in {"idle", "deliver"}
  <2>1. CASE targets = <<>>
    BY <1>11, <2>1, IdleIsOK
  <2>2. CASE targets # <<>>
    <3>1. m \in Message \cup {None}
      OBVIOUS
    <3>2. t \in Seq(Jobs) /\ t # <<>> /\ DOMAIN t = DOMAIN targets /\ \A k \in DOMAIN t : t[k].item = targets[k]
      BY <1>10, <2>2, <3>1, JobsOf
    <3>3. \A k \in DOMAIN t : Exists(t[k].item)
      BY <1>3, <3>2
    <3>4. status \in [Item -> AnyStatus] /\ {} \in SUBSET (1..Len(log))
      BY DEF TypeInv, TreeOK
    <3> QED
      BY <1>11, <2>2, <3>2, <3>3, <3>4, DeliveringIs
  <2> QED
    BY <2>1, <2>2
<1>13. CallOK(c)'
  BY <1>2, <1>9, <1>12, CallStays
<1>14. call' = [call EXCEPT ![p] = c] /\ mutex' = mutex
  BY <1>10, <1>11 DEF Submit
<1> QED
  BY <1>1, <1>2, <1>9, <1>12, <1>13, <1>14, CallStep DEF Locked

LEMMA OwnerIs ==
  ASSUME TypeInv, NEW m
  PROVE  Owner(m) \in Item \cup {None}
<1>1. CASE Attributions(m) = {}
  BY <1>1 DEF Owner
<1>2. CASE Attributions(m) # {}
  <2>1. Len(log) \in Nat /\ DOMAIN log = 1..Len(log)
    BY DEF TypeInv, LogOK, IsLog
  <2>2. Attributions(m) \subseteq DOMAIN log /\ Attributions(m) \in SUBSET (0..Len(log))
    BY <2>1 DEF Attributions, Of
  <2>3. MaxOf(Attributions(m)) \in DOMAIN log
    BY <1>2, <2>1, <2>2, MaxOfIsLast
  <2> QED
    BY <1>2, <2>3 DEF Owner, TypeInv, LogOK, EventOK
<1> QED
  BY <1>1, <1>2

LEMMA ReattributeTypes ==
  ASSUME TypeInv, NEW p \in Proc, NEW m \in Message, NEW i \in Item, Reattribute(p, m, i), UNCHANGED <<read, turn>>
  PROVE  TypeInv'
<1>1. call[p].pc = "idle" /\ Exists(i) /\ m \in Message \cup {None}
  BY DEF Reattribute, Called, At
<1>2. TreeOK' /\ Persist
  BY TreeSame DEF Reattribute, TypeInv, TreeOK
<1>3. PICK E : Added(E) /\ \A q \in E : EventOK(q)'
  BY NothingRecorded DEF Reattribute
<1>4. PICK t : t = <<For(m, i)>>
  OBVIOUS
<1>5. t \in Seq(Jobs) /\ t # <<>> /\ \A k \in DOMAIN t : Exists(t[k].item)
  BY <1>1, <1>4, OneJob
<1>6. status \in [Item -> AnyStatus] /\ {} \in SUBSET (1..Len(log))
  BY DEF TypeInv, TreeOK
<1>7. PICK c : c = Delivering(t, status, Owner(m), {})
  OBVIOUS
<1>8. CallOK(c) /\ c.pc = "deliver"
  BY <1>5, <1>6, <1>7, DeliveringIs
<1>9. CallOK(c)'
  BY <1>2, <1>3, <1>8, CallStays
<1>10. call' = [call EXCEPT ![p] = c] /\ mutex' = mutex
  BY <1>4, <1>7 DEF Reattribute
<1> QED
  BY <1>1, <1>2, <1>3, <1>8, <1>9, <1>10, CallStep DEF Locked

\* A delivery to an item made in the same step.
LEMMA DeliveringNew ==
  ASSUME NEW t \in Seq(Jobs), t # <<>>, \A k \in DOMAIN t : Exists(t[k].item)', NEW saw \in [Item -> AnyStatus],
         NEW prev, NEW re \in SUBSET (1..Len(log')), NEW c, c = Delivering(t, saw, prev, re)
  PROVE  CallOK(c)' /\ c.pc = "deliver"
<1>1. /\ {"pc", "todo", "saw", "prev", "re", "want", "hop"} \subseteq DOMAIN c
      /\ c.pc = "deliver" /\ c.todo = t /\ c.saw = saw /\ c.prev = prev /\ c.re = re /\ c.want = "open"
  BY DeliveringIs
<1> QED
  BY <1>1 DEF CallOK, CallPcs, Statuses

LEMMA StartFromMessageTypes ==
  ASSUME TypeInv, NEW p \in Proc, NEW m \in Message, StartFromMessage(p, m), UNCHANGED <<read, turn>>
  PROVE  TypeInv'
<1>1. call[p].pc = "idle" /\ m \in Message \cup {None}
  BY DEF StartFromMessage, Called, At
<1>2. PICK i \in Item : i = Fresh /\ ~Exists(i)
  BY FreshIsFree DEF StartFromMessage
<1>3. TreeOK' /\ Persist /\ Exists(i)' /\ status' \in [Item -> AnyStatus]
  <2>1. parent' = [parent EXCEPT ![i] = None] /\ status' = [status EXCEPT ![i] = "open"] /\ None \notin Item
    BY <1>2, NoneIsNobody DEF StartFromMessage, Creates
  <2> QED
    BY <1>2, <2>1, ItemMade DEF StartFromMessage
<1>4. PICK E : Added(E) /\ \A q \in E : EventOK(q)'
  BY NothingRecorded DEF StartFromMessage
<1>5. PICK t : t = <<For(m, i)>>
  OBVIOUS
<1>6. t \in Seq(Jobs) /\ t # <<>> /\ \A k \in DOMAIN t : t[k].item = i
  BY <1>1, <1>5, OneJob
<1>7. \A k \in DOMAIN t : Exists(t[k].item)'
  BY <1>3, <1>6 DEF Exists
<1>8. PICK saw : saw = status'
  OBVIOUS
<1>9. PICK c : c = Delivering(t, saw, Owner(m), {})
  OBVIOUS
<1>10. saw \in [Item -> AnyStatus] /\ {} \in SUBSET (1..Len(log'))
  BY <1>3, <1>8
<1>11. CallOK(c)' /\ c.pc = "deliver"
  BY <1>6, <1>7, <1>9, <1>10, DeliveringNew
<1>12. call' = [call EXCEPT ![p] = c] /\ mutex' = mutex
  BY <1>2, <1>5, <1>8, <1>9 DEF StartFromMessage
<1> QED
  BY <1>1, <1>3, <1>4, <1>11, <1>12, CallStep DEF Locked

LEMMA SetStatusTypes ==
  ASSUME TypeInv, NEW p \in Proc, NEW i \in Item, NEW want \in Statuses, SetStatus(p, i, want), UNCHANGED <<read, turn>>
  PROVE  TypeInv'
<1>1. call[p].pc = "idle" /\ Exists(i)
  BY DEF SetStatus, Called, At
<1>2. TreeOK' /\ Persist
  BY TreeSame DEF SetStatus, TypeInv, TreeOK
<1>3. PICK E : Added(E) /\ \A q \in E : EventOK(q)'
  BY NothingRecorded DEF SetStatus
<1>4. PICK s : s = <<i>>
  OBVIOUS
<1>5. s \in Seq(Item) /\ s # <<>> /\ \A k \in DOMAIN s : Exists(s[k])
  BY <1>1, <1>4
<1>6. PICK c : c = Changing(s, want, 0)
  OBVIOUS
<1>7. CallOK(c) /\ c.pc = "lock"
  BY <1>5, <1>6, ChangingIs
<1>8. CallOK(c)'
  BY <1>2, <1>3, <1>7, CallStays
<1>9. call' = [call EXCEPT ![p] = c] /\ mutex' = mutex
  BY <1>4, <1>6 DEF SetStatus
<1> QED
  BY <1>1, <1>2, <1>3, <1>7, <1>8, <1>9, CallStep DEF Locked

LEMMA CancelTypes ==
  ASSUME TypeInv, NEW p \in Proc, NEW i \in Item, Cancel(p, i), UNCHANGED <<read, turn>>
  PROVE  TypeInv'
<1>1. call[p].pc = "idle"
  BY DEF Cancel, Called, At
<1>2. TreeOK' /\ Persist
  BY TreeSame DEF Cancel, TypeInv, TreeOK
<1>3. PICK E : Added(E) /\ \A q \in E : EventOK(q)'
  BY NothingRecorded DEF Cancel
<1>4. PICK c : c = Cancelling(i)
  OBVIOUS
<1>5. CallOK(c) /\ c.pc = "stop"
  BY <1>4, CancellingIs
<1>6. CallOK(c)'
  BY <1>2, <1>3, <1>5, CallStays
<1>7. call' = [call EXCEPT ![p] = c] /\ mutex' = mutex
  BY <1>4 DEF Cancel
<1> QED
  BY <1>1, <1>2, <1>3, <1>5, <1>6, <1>7, CallStep DEF Locked

LEMMA CallFailsTypes ==
  ASSUME TypeInv, NEW p \in Proc, CallFails(p), UNCHANGED <<read, turn>>
  PROVE  TypeInv'
<1>1. TreeOK' /\ Persist
  <2>1. faults' \in Nat /\ active' \subseteq active \cup {i \in Item : Exists(i)} /\ UNCHANGED <<parent, status>>
    BY DEF CallFails, TypeInv, TreeOK
  <2> QED
    BY <2>1, TreeSame
<1>2. PICK E : Added(E) /\ \A q \in E : EventOK(q)'
  BY NothingRecorded DEF CallFails
<1>3. call' = [call EXCEPT ![p] = Idle] /\ mutex' = IF call[p].pc \in Locked THEN None ELSE mutex
  BY DEF CallFails, TypeInv, LockOK
<1>4. PICK c : c = Idle
  OBVIOUS
<1>5. CallOK(c)' /\ c.pc = "idle"
  BY <1>1, <1>2, <1>4, CallStays, IdleIsOK
<1> QED
  BY <1>1, <1>2, <1>3, <1>4, <1>5, CallStep DEF Locked

\* A step of a handler, and one of the person.
LEMMA HandlerTypes ==
  ASSUME TypeInv, NEW p \in Proc, Step(p), UNCHANGED <<read, turn>>
  PROVE  TypeInv'
  BY ReopenTypes, AttributeTypes, CopyTypes, ChangeRowTypes, SiblingsTypes, NotifyParentTypes,
     StopExecutionsTypes, ClosePartTypes DEF Step

LEMMA PersonTypes ==
  ASSUME TypeInv, NEW p \in Proc, Ask(p) \/ CallFails(p), UNCHANGED <<read, turn>>
  PROVE  TypeInv'
<1>1. ASSUME NEW targets \in {<<>>} \cup {<<i>> : i \in Item} \cup {<<i, j>> : i, j \in Item}
      PROVE  targets \in Seq(Item)
  <2>1. CASE targets = <<>>
    BY <2>1
  <2>2. CASE \E i \in Item : targets = <<i>>
    BY <2>2
  <2>3. CASE \E i, j \in Item : targets = <<i, j>>
    BY <2>3
  <2> QED
    BY <1>1, <2>1, <2>2, <2>3
<1> QED
  BY <1>1, SubmitTypes, ReattributeTypes, StartFromMessageTypes, SetStatusTypes, CancelTypes, CallFailsTypes DEF Ask

-----------------------------------------------------------------------------
(* The types: turns *)

\* A step of a turn that calls none of the tree's operations.
LEMMA TurnStep ==
  ASSUME TypeInv, NEW E, Added(E), \A e \in E : EventOK(e)', Persist, TreeOK', UNCHANGED <<call, mutex>>,
         NEW a \in Agent, NEW t, NEW r, TurnOK(t, a, r)', Becomes(a, t, r)
  PROVE  TypeInv'
<1>1. CallsOK' /\ LockOK'
  BY CallsStay
<1>2. TurnsOK'
  BY TurnTypes
<1> QED
  BY <1>1, <1>2, StepTypes

LEMMA SameTurnStep ==
  ASSUME TypeInv, NEW E, Added(E), \A e \in E : EventOK(e)', Persist, TreeOK', UNCHANGED <<call, mutex, turn, read>>
  PROVE  TypeInv'
<1>1. CallsOK' /\ LockOK'
  BY CallsStay
<1>2. TurnsOK'
  BY TurnsStay
<1> QED
  BY <1>1, <1>2, StepTypes

LEMMA QuietIsOK ==
  ASSUME TypeInv, Quiet
  PROVE  TreeOK' /\ Persist /\ mutex' = mutex /\ status' = status
<1>1. UNCHANGED <<parent, status>> /\ active' \subseteq active \cup {i \in Item : Exists(i)} /\ faults' \in Nat /\ mutex' = mutex
  BY DEF Quiet, TypeInv, TreeOK
<1> QED
  BY <1>1, TreeSame

LEMMA TurnIs ==
  ASSUME TypeInv, NEW a \in Agent
  PROVE  /\ TurnOK(turn[a], a, read[a]) /\ Len(log) \in Nat /\ DOMAIN log = 1..Len(log)
         /\ Batch(a) \subseteq DOMAIN log /\ Batch(a) \in SUBSET (1..Len(log)) /\ turn[a].upto \in 0..Len(log)
         /\ turn[a].pc # "idle" /\ a \in Item => Exists(a)
         /\ turn[a].pc # "idle" => Batch(a) # {} /\ Batch(a) \in SUBSET (0..Len(log))
<1>1. TurnOK(turn[a], a, read[a]) /\ Len(log) \in Nat /\ DOMAIN log = 1..Len(log)
  BY DEF TypeInv, TurnsOK, LogOK, IsLog
<1>2. Batch(a) \subseteq DOMAIN log /\ \A n \in Batch(a) : log[n].box = a
  BY <1>1 DEF TurnOK, Batch
<1>3. turn[a].pc # "idle" => Batch(a) # {}
  BY <1>1 DEF TurnOK, Batch
<1>4. \A n \in Batch(a) : a \in Item => Exists(a)
  BY <1>2 DEF TypeInv, LogOK, EventOK
<1> QED
  BY <1>1, <1>2, <1>3, <1>4 DEF TurnOK

LEMMA UnreadIs ==
  ASSUME TypeInv, NEW a \in Agent
  PROVE  /\ Unread(a) \subseteq DOMAIN log /\ \A n \in Unread(a) : log[n].box = a /\ read[a] < n
         /\ Unread(a) # {} => /\ MaxOf(Unread(a)) \in 0..Len(log) /\ MaxOf(Unread(a)) \in Unread(a)
                              /\ \A n \in Unread(a) : n <= MaxOf(Unread(a))
         /\ Unread(a) # {} /\ a \in Item => Exists(a)
<1>1. Len(log) \in Nat /\ DOMAIN log = 1..Len(log) /\ read[a] \in 0..Len(log)
  BY TurnIs DEF TurnOK
<1>2. Unread(a) \subseteq DOMAIN log /\ \A n \in Unread(a) : log[n].box = a /\ read[a] < n
  BY <1>1 DEF Unread
<1>3. Unread(a) \in SUBSET (0..Len(log))
  BY <1>1, <1>2
<1>4. Unread(a) # {} => MaxOf(Unread(a)) \in Unread(a) /\ \A n \in Unread(a) : n <= MaxOf(Unread(a))
  BY <1>1, <1>3, MaxOfIsLast
<1>5. \A n \in Unread(a) : a \in Item => Exists(a)
  BY <1>2 DEF TypeInv, LogOK, EventOK
<1> QED
  BY <1>2, <1>3, <1>4, <1>5

LEMMA ConsumesTo ==
  ASSUME TypeInv, NEW a \in Agent, On(a, "idle"), Unread(a) # {}, Consumes(a, Unread(a))
  PROVE  \E t, r : Becomes(a, t, r) /\ TurnOK(t, a, r)
<1>1. PICK t, r : t = turn[a] /\ r = MaxOf(Unread(a))
  OBVIOUS
<1>2. Becomes(a, t, r)
  BY <1>1 DEF TypeInv, TurnsOK, Consumes, Becomes
<1>3. r \in 0..Len(log)
  BY <1>1, UnreadIs
<1>4. TurnOK(t, a, read[a]) /\ t.pc = "idle"
  BY <1>1, TurnIs DEF On
<1>5. TurnOK(t, a, r)
  BY <1>3, <1>4 DEF TurnOK
<1> QED
  BY <1>2, <1>5

LEMMA EndsTo ==
  ASSUME TypeInv, NEW a \in Agent, Ends(a)
  PROVE  \E t, r : Becomes(a, t, r) /\ TurnOK(t, a, r)
<1>1. PICK t, r : t = NoTurn /\ r = turn[a].upto
  OBVIOUS
<1>2. Becomes(a, t, r)
  BY <1>1 DEF TypeInv, TurnsOK, Ends, Becomes
<1>3. r \in 0..Len(log) /\ Len(log) \in Nat
  BY <1>1, TurnIs
<1>4. TurnOK(t, a, r)
  BY <1>1, <1>3 DEF TurnOK, NoTurn, AnyStatus
<1> QED
  BY <1>2, <1>4

LEMMA ThinksTo ==
  ASSUME TypeInv, NEW a \in Agent, NEW u, Thinks(a, u), NEW B, B # {}, B \subseteq Unread(a),
         NEW all, all \in [Item -> AnyStatus], \A i \in Item : all[i] # "none" => Exists(i),
         u = [NoTurn EXCEPT !.batch = B, !.upto = MaxOf(Unread(a)), !.all = all]
  PROVE  \E t, r : Becomes(a, t, r) /\ TurnOK(t, a, r)
<1>1. PICK t, r : t = [u EXCEPT !.pc = "think"] /\ r = read[a]
  OBVIOUS
<1>2. Becomes(a, t, r)
  BY <1>1 DEF TypeInv, TurnsOK, Thinks, Becomes
<1>3. /\ {"pc", "batch", "upto", "refused", "spawned", "all", "covered", "confirmed"} \subseteq DOMAIN t
      /\ t.pc = "think" /\ t.batch = B /\ t.upto = MaxOf(Unread(a)) /\ t.all = all /\ t.confirmed = {}
  BY <1>1 DEF NoTurn
<1>4. /\ B \subseteq DOMAIN log /\ \A n \in B : log[n].box = a /\ r < n /\ n <= MaxOf(Unread(a))
      /\ MaxOf(Unread(a)) \in 0..Len(log) /\ r \in 0..Len(log)
  BY <1>1, UnreadIs, TurnIs DEF TurnOK
<1>5. TurnOK(t, a, r)
  BY <1>3, <1>4 DEF TurnOK
<1> QED
  BY <1>2, <1>5

\* The turn with other marks, or at another place.
LEMMA TurnMarked ==
  ASSUME TypeInv, NEW a \in Agent, NEW t, turn' = [turn EXCEPT ![a] = t], read' = read,
         {"pc", "batch", "upto", "refused", "spawned", "all", "covered", "confirmed"} \subseteq DOMAIN t,
         t.batch = turn[a].batch, t.upto = turn[a].upto, t.all = turn[a].all, turn[a].pc # "idle",
         t.pc \in (IF a = Primary THEN {"think", "act", "reply"} ELSE {"think", "attach", "work", "reply", "done"}),
         t.confirmed \subseteq t.batch
  PROVE  \E u, r : Becomes(a, u, r) /\ TurnOK(u, a, r)
<1>1. PICK r : r = read[a]
  OBVIOUS
<1>2. Becomes(a, t, r)
  BY <1>1 DEF TypeInv, TurnsOK, Becomes
<1>3. TurnOK(turn[a], a, r)
  BY <1>1, TurnIs
<1>4. TurnOK(t, a, r)
  BY <1>3 DEF TurnOK
<1> QED
  BY <1>2, <1>4

LEMMA QuietTurnStep ==
  ASSUME TypeInv, NEW a \in Agent, Quiet, UNCHANGED call, NEW E, Added(E), \A e \in E : EventOK(e)',
         \E t, r : Becomes(a, t, r) /\ TurnOK(t, a, r)
  PROVE  TypeInv'
<1>1. PICK t, r : Becomes(a, t, r) /\ TurnOK(t, a, r)
  OBVIOUS
<1>2. TreeOK' /\ Persist /\ mutex' = mutex
  BY QuietIsOK
<1>3. TurnOK(t, a, r)'
  BY <1>1, <1>2, TurnStays
<1> QED
  BY <1>1, <1>2, <1>3, TurnStep

-----------------------------------------------------------------------------
(* The types: the Manager's turn *)

LEMMA ManagerSkipsTypes ==
  ASSUME TypeInv, NEW i \in Item, ManagerSkips(i)
  PROVE  TypeInv'
<1>1. i \in Agent /\ \E t, r : Becomes(i, t, r) /\ TurnOK(t, i, r)
  BY ConsumesTo DEF ManagerSkips, Agent
<1>2. PICK E : Added(E) /\ \A q \in E : EventOK(q)'
  BY NothingRecorded DEF ManagerSkips
<1> QED
  BY <1>1, <1>2, QuietTurnStep DEF ManagerSkips

\* An answer to messages the agent has had.
LEMMA AnswerFits ==
  ASSUME NEW kind \in EventKinds, NEW item \in Item \cup {None}, item \in Item => status'[item] # "none",
         NEW of \in Message \cup {None}, NEW re \in SUBSET (1..Len(log))
  PROVE  Fits(Answer(kind, item, of, re)) /\ \A h : Fits([Answer(kind, item, of, re) EXCEPT !.hop = h])
<1>1. PICK e : e = Event(kind, None, item, of)
  OBVIOUS
<1>2. Fits([e EXCEPT !.re = re])
  BY <1>1, EventFits, NoneIsNobody
<1>3. \A h : Fits([[e EXCEPT !.re = re] EXCEPT !.hop = h])
  BY <1>1, <1>2 DEF Fits, Event
<1> QED
  BY <1>1, <1>2, <1>3 DEF Answer

LEMMA ManagerAcknowledgesTypes ==
  ASSUME TypeInv, NEW i \in Item, ManagerAcknowledges(i)
  PROVE  TypeInv'
<1>1. i \in Agent /\ Kept(i) \subseteq Unread(i) /\ Unread(i) # {}
  BY DEF ManagerAcknowledges, Agent, Kept
<1>2. \E t, r : Becomes(i, t, r) /\ TurnOK(t, i, r)
  BY <1>1, ConsumesTo DEF ManagerAcknowledges
<1>3. Exists(i) /\ Kept(i) \in SUBSET (1..Len(log))
  BY <1>1, UnreadIs, TurnIs
<1>4. Fits(Answer("reply", i, None, Kept(i)))
  BY <1>3, QuietIsOK, AnswerFits DEF ManagerAcknowledges, EventKinds, Exists
<1>5. PICK E : Added(E) /\ \A q \in E : EventOK(q)'
  BY <1>4, Recorded DEF ManagerAcknowledges
<1> QED
  BY <1>1, <1>2, <1>5, QuietTurnStep DEF ManagerAcknowledges

LEMMA ManagerBeginsTypes ==
  ASSUME TypeInv, NEW i \in Item, ManagerBegins(i)
  PROVE  TypeInv'
<1>1. i \in Agent /\ Kept(i) \subseteq Unread(i) /\ Kept(i) # {}
  BY DEF ManagerBegins, Agent, Kept
<1>2. PICK u, all : u = [NoTurn EXCEPT !.batch = Kept(i), !.upto = MaxOf(Unread(i))] /\ all = NoTurn.all
  OBVIOUS
<1>3. u = [NoTurn EXCEPT !.batch = Kept(i), !.upto = MaxOf(Unread(i)), !.all = all]
  BY <1>2 DEF NoTurn
<1>4. all \in [Item -> AnyStatus] /\ \A j \in Item : all[j] # "none" => Exists(j)
  BY <1>2 DEF NoTurn, AnyStatus
<1>5. Thinks(i, u)
  BY <1>2 DEF ManagerBegins
<1>6. \E t, r : Becomes(i, t, r) /\ TurnOK(t, i, r)
  BY <1>1, <1>3, <1>4, <1>5, ThinksTo
<1>7. PICK E : Added(E) /\ \A q \in E : EventOK(q)'
  BY NothingRecorded DEF ManagerBegins
<1> QED
  BY <1>1, <1>6, <1>7, QuietTurnStep DEF ManagerBegins

LEMMA AbortsTypes ==
  ASSUME TypeInv, NEW a \in Agent, Aborts(a)
  PROVE  TypeInv'
<1>1. PICK t, r : t = NoTurn /\ r = read[a]
  OBVIOUS
<1>2. Becomes(a, t, r)
  BY <1>1 DEF TypeInv, TurnsOK, Aborts, Becomes
<1>3. r \in 0..Len(log) /\ Len(log) \in Nat
  BY <1>1, TurnIs DEF TurnOK
<1>4. TurnOK(t, a, r)
  BY <1>1, <1>3 DEF TurnOK, NoTurn, AnyStatus
<1>5. PICK E : Added(E) /\ \A q \in E : EventOK(q)'
  BY NothingRecorded DEF Aborts
<1> QED
  BY <1>2, <1>4, <1>5, QuietTurnStep DEF Aborts

LEMMA ManagerFallsBackTypes ==
  ASSUME TypeInv, NEW i \in Item, ManagerFallsBack(i)
  PROVE  TypeInv'
<1>1. i \in Agent /\ turn[i].pc = "think"
  BY DEF ManagerFallsBack, On, Agent
<1>2. \E t, r : Becomes(i, t, r) /\ TurnOK(t, i, r)
  BY <1>1, EndsTo DEF ManagerFallsBack
<1>3. Exists(i) /\ Batch(i) \in SUBSET (1..Len(log))
  BY <1>1, TurnIs
<1>4. Fits(Answer("reply", i, None, Batch(i)))
  BY <1>3, QuietIsOK, AnswerFits DEF ManagerFallsBack, EventKinds, Exists
<1>5. PICK E : Added(E) /\ \A q \in E : EventOK(q)'
  BY <1>4, Recorded DEF ManagerFallsBack
<1> QED
  BY <1>1, <1>2, <1>5, QuietTurnStep DEF ManagerFallsBack

LEMMA ManagerPhaseTypes ==
  ASSUME TypeInv, NEW i \in Item, ManagerPhase(i)
  PROVE  TypeInv'
<1>1. i \in Agent /\ i # Primary /\ turn[i].pc # "idle"
  BY NoneIsNobody DEF ManagerPhase, Agent
<1>2. \E t, r : Becomes(i, t, r) /\ TurnOK(t, i, r)
  <2>1. CASE Ends(i)
    BY <1>1, <2>1, EndsTo
  <2>2. CASE ~Ends(i)
    <3>1. PICK pc : pc = NextPhase(turn[i].pc)
      OBVIOUS
    <3>2. turn' = [turn EXCEPT ![i].pc = pc] /\ pc \in {"attach", "work", "reply", "done"} /\ read' = read
      BY <2>2, <3>1 DEF ManagerPhase, NextPhase
    <3>3. PICK t : t = [turn[i] EXCEPT !.pc = pc]
      OBVIOUS
    <3>4. turn' = [turn EXCEPT ![i] = t]
      BY <3>2, <3>3
    <3>5. TurnOK(turn[i], i, read[i])
      BY <1>1, TurnIs
    <3>6. /\ {"pc", "batch", "upto", "refused", "spawned", "all", "covered", "confirmed"} \subseteq DOMAIN t
          /\ t.pc = pc /\ t.batch = turn[i].batch /\ t.upto = turn[i].upto /\ t.all = turn[i].all
          /\ t.confirmed \subseteq t.batch
      BY <3>3, <3>5 DEF TurnOK
    <3> QED
      BY <1>1, <3>2, <3>4, <3>6, TurnMarked
  <2> QED
    BY <2>1, <2>2
<1>3. PICK E : Added(E) /\ \A q \in E : EventOK(q)'
  BY NothingRecorded DEF ManagerPhase
<1> QED
  BY <1>1, <1>2, <1>3, QuietTurnStep DEF ManagerPhase

LEMMA RecordsTypes ==
  ASSUME TypeInv, NEW i, NEW pc, NEW kind, NEW e, Fits(e), Records(i, pc, kind, e)
  PROVE  TypeInv'
<1>1. PICK E : Added(E) /\ \A q \in E : EventOK(q)'
  BY Recorded DEF Records
<1>2. TreeOK' /\ Persist /\ mutex' = mutex
  BY QuietIsOK DEF Records
<1> QED
  BY <1>1, <1>2, SameTurnStep DEF Records

\* What an item says to the agent above it.
LEMMA BubbleFits ==
  ASSUME TypeInv, NEW i \in Item, Exists(i), status' = status, NEW kind \in EventKinds, NEW of \in Message \cup {None}
  PROVE  Fits(Bubble(i, kind, of))
<1>1. PICK up : up = ParentMailbox(i)
  OBVIOUS
<1>2. up \in Agent \cup {None} /\ (up \in Item => Exists(up))
  BY <1>1, NoneIsNobody DEF ParentMailbox, Agent, TypeInv, TreeOK
<1>3. up \in Item => status'[up] # "none" /\ status'[i] # "none"
  BY <1>2 DEF Exists
<1>4. status'[i] # "none"
  BY DEF Exists
<1>5. Fits([Event(kind, up, i, of) EXCEPT !.hop = NextHop(i)])
  BY <1>2, <1>3, <1>4, EventFits
<1> QED
  BY <1>1, <1>5 DEF Bubble

LEMMA ManagerSaysTypes ==
  ASSUME TypeInv, NEW i \in Item, AttachAsks(i) \/ ManagerReplies(i) \/ Escalate(i) \/ AnswerChild(i) \/ Reroute(i)
  PROVE  TypeInv'
<1>1. turn[i].pc # "idle" /\ status' = status
  BY QuietIsOK DEF AttachAsks, ManagerReplies, Escalate, AnswerChild, Reroute, Records, Effect, Asks, On
<1>2. Exists(i) /\ Batch(i) \in SUBSET (1..Len(log)) /\ Batch(i) \subseteq DOMAIN log
  BY <1>1, TurnIs DEF Agent
<1>3. Fits(Answer("reply", i, None, Batch(i)))
  BY <1>1, <1>2, AnswerFits DEF EventKinds, Exists
<1>4. CASE AttachAsks(i) \/ ManagerReplies(i)
  BY <1>3, <1>4, RecordsTypes DEF AttachAsks, ManagerReplies
<1>5. CASE Escalate(i)
  <2>1. Fits(Bubble(i, "escalation.raised", None))
    BY <1>1, <1>2, BubbleFits DEF EventKinds
  <2> QED
    BY <1>5, <2>1, RecordsTypes DEF Escalate
<1>6. CASE AnswerChild(i)
  <2>1. PICK c \in Item : Exists(c) /\ Records(i, "work", "answer", [Event("copy", c, c, None) EXCEPT !.hop = NextHop(i)])
    BY <1>6 DEF AnswerChild, Children
  <2>2. Fits([Event("copy", c, c, None) EXCEPT !.hop = NextHop(i)])
    BY <1>1, <2>1, EventFits DEF EventKinds, Agent, Exists
  <2> QED
    BY <2>1, <2>2, RecordsTypes
<1>7. CASE Reroute(i)
  <2>1. PICK n \in Batch(i) : Records(i, "work", "reroute", Bubble(i, "reroute", log[n].of))
    BY <1>7 DEF Reroute
  <2>2. log[n].of \in Message \cup {None}
    BY <1>2 DEF TypeInv, LogOK, EventOK
  <2>3. Fits(Bubble(i, "reroute", log[n].of))
    BY <1>1, <1>2, <2>2, BubbleFits DEF EventKinds
  <2> QED
    BY <2>1, <2>3, RecordsTypes
<1> QED
  BY <1>4, <1>5, <1>6, <1>7

LEMMA SpawnTypes ==
  ASSUME TypeInv, NEW i \in Item, Spawn(i)
  PROVE  TypeInv'
<1>1. i \in Agent /\ i # Primary /\ turn[i].pc = "work"
  BY NoneIsNobody DEF Spawn, Asks, On, Agent
<1>2. Exists(i) /\ Batch(i) \in SUBSET (1..Len(log))
  BY <1>1, TurnIs
<1>3. TreeOK' /\ Persist
  <2>1. active' \subseteq active \cup {j \in Item : Exists(j)} /\ faults' \in Nat /\ UNCHANGED <<parent, status>>
    BY <1>2 DEF Spawn, TypeInv, TreeOK
  <2> QED
    BY <2>1, TreeSame
<1>4. PICK refused : refused = (RunsSinceInput(i) >= MaxRuns \/ NextHop(i) > MaxHops)
  OBVIOUS
<1>5. PICK kind \in EventKinds : kind = IF refused THEN "escalation" ELSE "started"
  BY DEF EventKinds
<1>6. Fits([Answer(kind, i, None, Batch(i)) EXCEPT !.hop = NextHop(i)])
  BY <1>2, AnswerFits DEF Spawn, Exists
<1>7. Record([Answer(kind, i, None, Batch(i)) EXCEPT !.hop = NextHop(i)])
  BY <1>4, <1>5 DEF Spawn
<1>8. PICK E : Added(E) /\ \A q \in E : EventOK(q)'
  BY <1>6, <1>7, Recorded
<1>9. PICK t : t = [turn[i] EXCEPT !.spawned = TRUE, !.refused = refused]
  OBVIOUS
<1>10. TurnOK(turn[i], i, read[i])
  BY <1>1, TurnIs
<1>11. /\ {"pc", "batch", "upto", "refused", "spawned", "all", "covered", "confirmed"} \subseteq DOMAIN t
       /\ t.pc = "work" /\ t.batch = turn[i].batch /\ t.upto = turn[i].upto /\ t.all = turn[i].all
       /\ t.confirmed \subseteq t.batch
  BY <1>1, <1>9, <1>10 DEF TurnOK
<1>12. turn' = [turn EXCEPT ![i] = t] /\ read' = read
  BY <1>4, <1>9 DEF Spawn
<1>13. PICK u, r : Becomes(i, u, r) /\ TurnOK(u, i, r)
  BY <1>1, <1>11, <1>12, TurnMarked
<1>14. TurnOK(u, i, r)'
  BY <1>3, <1>8, <1>13, TurnStays
<1> QED
  BY <1>1, <1>3, <1>8, <1>13, <1>14, TurnStep DEF Spawn

LEMMA CreateChildTypes ==
  ASSUME TypeInv, NEW i \in Item, CreateChild(i)
  PROVE  TypeInv'
<1>1. turn[i].pc # "idle"
  BY DEF CreateChild, Effect, Asks, On
<1>2. Exists(i)
  BY <1>1, TurnIs DEF Agent
<1>3. PICK c \in Item : c = Fresh /\ ~Exists(c)
  BY FreshIsFree DEF CreateChild
<1>4. TreeOK' /\ Persist /\ Exists(c)'
  BY <1>2, <1>3, ItemMade DEF CreateChild
<1>5. Fits([Event("copy", c, c, None) EXCEPT !.hop = NextHop(i)])
  BY <1>4, EventFits DEF EventKinds, Agent, Exists
<1>6. PICK E : Added(E) /\ \A q \in E : EventOK(q)'
  BY <1>3, <1>5, Recorded DEF CreateChild
<1> QED
  BY <1>4, <1>6, SameTurnStep DEF CreateChild

LEMMA DoneTypes ==
  ASSUME TypeInv, NEW i \in Item, Done(i)
  PROVE  TypeInv'
<1>1. turn[i].pc # "idle" /\ i \in Proc /\ call[i].pc = "idle"
  BY DEF Done, Effect, Asks, On, At, Proc
<1>2. Exists(i) /\ Batch(i) \in SUBSET (1..Len(log))
  BY <1>1, TurnIs DEF Agent
<1>3. TreeOK' /\ Persist /\ mutex' = mutex
  BY QuietIsOK DEF Done
<1>4. PICK E : Added(E) /\ \A q \in E : EventOK(q)'
  BY NothingRecorded DEF Done
<1>5. PICK s : s = <<i>>
  OBVIOUS
<1>6. s \in Seq(Item) /\ s # <<>> /\ \A k \in DOMAIN s : Exists(s[k])
  BY <1>2, <1>5
<1>7. PICK d : d = Changing(s, "done", NextHop(i) - 1)
  OBVIOUS
<1>8. CallOK(d) /\ d.pc = "lock"
  BY <1>6, <1>7, ChangingIs DEF Statuses
<1>9. PICK c : c = [d EXCEPT !.re = Batch(i)]
  OBVIOUS
<1>10. CallOK(c) /\ c.pc = "lock"
  BY <1>2, <1>8, <1>9 DEF CallOK
<1>11. CallOK(c)'
  BY <1>3, <1>4, <1>10, CallStays
<1>12. call' = [call EXCEPT ![i] = c]
  BY <1>5, <1>7, <1>9 DEF Done
<1> QED
  BY <1>1, <1>3, <1>4, <1>10, <1>11, <1>12, CallStep DEF Locked, Done

LEMMA ExecutionEndsTypes ==
  ASSUME TypeInv, NEW i \in Item, ExecutionEnds(i)
  PROVE  TypeInv'
<1>1. Exists(i)
  BY DEF ExecutionEnds, TypeInv, TreeOK
<1>2. TreeOK' /\ Persist
  BY TreeSame DEF ExecutionEnds, TypeInv, TreeOK
<1>3. Fits([Event("finished", i, i, None) EXCEPT !.hop = OutcomeHop(i)])
  BY <1>1, EventFits DEF EventKinds, Agent, Exists, ExecutionEnds
<1>4. PICK E : Added(E) /\ \A q \in E : EventOK(q)'
  BY <1>3, Recorded DEF ExecutionEnds
<1> QED
  BY <1>2, <1>4, SameTurnStep DEF ExecutionEnds

LEMMA ManagerTypes ==
  ASSUME TypeInv, NEW i \in Item, ManagerTurn(i) \/ ExecutionEnds(i)
  PROVE  TypeInv'
<1>1. i \in Agent
  BY DEF Agent
<1> QED
  BY <1>1, ManagerSkipsTypes, ManagerAcknowledgesTypes, ManagerBeginsTypes, AbortsTypes, ManagerFallsBackTypes,
     ManagerPhaseTypes, ManagerSaysTypes, SpawnTypes, CreateChildTypes, DoneTypes, ExecutionEndsTypes DEF ManagerTurn

-----------------------------------------------------------------------------
(* The types: the Primary's turn *)

LEMMA PositionsAreFinite ==
  ASSUME TypeInv, NEW S, S \subseteq DOMAIN log
  PROVE  IsFiniteSet(S)
<1>1. Len(log) \in Nat /\ DOMAIN log = 1..Len(log)
  BY DEF TypeInv, LogOK, IsLog
<1>2. IsFiniteSet(1..Len(log))
  BY <1>1, FS_Interval
<1> QED
  BY <1>1, <1>2, FS_Subset

LEMMA AnswersTypes ==
  ASSUME TypeInv, NEW kind \in EventKinds, NEW S, S \subseteq DOMAIN log, Answers(kind, S)
  PROVE  \E E : Added(E) /\ \A q \in E : EventOK(q)'
<1>1. PICK E : E = {Answer(kind, None, log[n].of, {n}) : n \in S}
  OBVIOUS
<1>2. Added(E)
  BY <1>1, PositionsAreFinite, AddedAnswers DEF TypeInv, LogOK
<1>3. ASSUME NEW n \in S  PROVE Fits(Answer(kind, None, log[n].of, {n}))
  <2>1. log[n].of \in Message \cup {None} /\ {n} \in SUBSET (1..Len(log))
    BY DEF TypeInv, LogOK, EventOK, IsLog
  <2> QED
    BY <2>1, AnswerFits, NoneIsNobody
<1>4. ASSUME NEW q \in E  PROVE EventOK(q)'
  <2>1. Fits(q)
    BY <1>1, <1>3
  <2> QED
    BY <1>2, <2>1, FitIsOK
<1> QED
  BY <1>2, <1>4

LEMMA PrimaryBeginsTypes ==
  ASSUME TypeInv, PrimaryBegins
  PROVE  TypeInv'
<1>1. Primary \in Agent /\ On(Primary, "idle") /\ Unread(Primary) # {}
  BY DEF PrimaryBegins, Agent
<1>2. PICK batch : batch = {n \in Unread(Primary) : Routable(n)}
  OBVIOUS
<1>3. Unread(Primary) \ batch \subseteq DOMAIN log /\ batch \subseteq Unread(Primary)
  BY <1>1, <1>2, UnreadIs
<1>4. PICK E : Added(E) /\ \A q \in E : EventOK(q)'
  BY <1>2, <1>3, AnswersTypes DEF PrimaryBegins, EventKinds
<1>5. \E t, r : Becomes(Primary, t, r) /\ TurnOK(t, Primary, r)
  <2>1. CASE batch = {}
    BY <1>1, <1>2, <2>1, ConsumesTo DEF PrimaryBegins
  <2>2. CASE batch # {}
    <3>1. PICK all, u : all = status /\ u = [NoTurn EXCEPT !.batch = batch, !.upto = MaxOf(Unread(Primary)), !.all = all]
      OBVIOUS
    <3>2. Thinks(Primary, u)
      BY <1>2, <2>2, <3>1 DEF PrimaryBegins
    <3>3. all \in [Item -> AnyStatus] /\ \A j \in Item : all[j] # "none" => Exists(j)
      BY <3>1 DEF TypeInv, TreeOK, Exists
    <3>4. u = [NoTurn EXCEPT !.batch = batch, !.upto = MaxOf(Unread(Primary)), !.all = all]
      BY <3>1
    <3>5. batch \subseteq Unread(Primary)
      BY <1>3
    <3> QED
      <4>1. Primary \in Agent /\ TypeInv
        BY <1>1
      <4> QED
        BY ONLY <4>1, <2>2, <3>2, <3>3, <3>4, <3>5, ThinksTo, Zenon
  <2> QED
    BY <2>1, <2>2
<1> QED
  BY <1>1, <1>4, <1>5, QuietTurnStep DEF PrimaryBegins

LEMMA PrimaryOverTypes ==
  ASSUME TypeInv, PrimaryFallsBack \/ PrimaryEnds
  PROVE  TypeInv'
<1>1. Primary \in Agent
  BY DEF Agent
<1>2. \E t, r : Becomes(Primary, t, r) /\ TurnOK(t, Primary, r)
  BY <1>1, EndsTo DEF PrimaryFallsBack, PrimaryEnds
<1>3. Batch(Primary) \subseteq DOMAIN log
  BY <1>1, TurnIs
<1>4. \E S : S \subseteq DOMAIN log /\ Answers("reply", S)
  BY <1>3 DEF PrimaryFallsBack, PrimaryEnds
<1>5. PICK E : Added(E) /\ \A q \in E : EventOK(q)'
  BY <1>4, AnswersTypes DEF EventKinds
<1> QED
  BY <1>1, <1>2, <1>5, QuietTurnStep DEF PrimaryFallsBack, PrimaryEnds

LEMMA PrimaryDecidesTypes ==
  ASSUME TypeInv, PrimaryDecides
  PROVE  TypeInv'
<1>1. Primary \in Agent /\ turn[Primary].pc # "idle"
  BY DEF Agent, PrimaryDecides, On
<1>2. TurnOK(turn[Primary], Primary, read[Primary])
  BY <1>1, TurnIs
<1>3. PICK t : t = [turn[Primary] EXCEPT !.pc = "act"]
  OBVIOUS
<1>4. /\ {"pc", "batch", "upto", "refused", "spawned", "all", "covered", "confirmed"} \subseteq DOMAIN t
      /\ t.pc = "act" /\ t.batch = turn[Primary].batch /\ t.upto = turn[Primary].upto /\ t.all = turn[Primary].all
      /\ t.confirmed \subseteq t.batch
  BY <1>2, <1>3 DEF TurnOK
<1>5. turn' = [turn EXCEPT ![Primary] = t] /\ read' = read
  BY <1>3 DEF PrimaryDecides
<1>6. \E u, r : Becomes(Primary, u, r) /\ TurnOK(u, Primary, r)
  BY <1>1, <1>4, <1>5, TurnMarked
<1>7. PICK E : Added(E) /\ \A q \in E : EventOK(q)'
  BY NothingRecorded DEF PrimaryDecides
<1> QED
  BY <1>1, <1>6, <1>7, QuietTurnStep DEF PrimaryDecides

LEMMA FlushTypes ==
  ASSUME TypeInv, Flush
  PROVE  TypeInv'
<1>1. Primary \in Agent /\ turn[Primary].pc # "idle"
  BY DEF Agent, Flush, On
<1>2. TurnOK(turn[Primary], Primary, read[Primary]) /\ Batch(Primary) \subseteq DOMAIN log
  BY <1>1, TurnIs
<1>3. PICK t : t = [turn[Primary] EXCEPT !.pc = "reply"]
  OBVIOUS
<1>4. /\ {"pc", "batch", "upto", "refused", "spawned", "all", "covered", "confirmed"} \subseteq DOMAIN t
      /\ t.pc = "reply" /\ t.batch = turn[Primary].batch /\ t.upto = turn[Primary].upto /\ t.all = turn[Primary].all
      /\ t.confirmed \subseteq t.batch
  BY <1>2, <1>3 DEF TurnOK
<1>5. turn' = [turn EXCEPT ![Primary] = t] /\ read' = read
  BY <1>3 DEF Flush
<1>6. \E u, r : Becomes(Primary, u, r) /\ TurnOK(u, Primary, r)
  BY <1>1, <1>4, <1>5, TurnMarked
<1>7. turn[Primary].confirmed \subseteq DOMAIN log
  BY <1>2 DEF TurnOK, Batch
<1>8. PICK E : Added(E) /\ \A q \in E : EventOK(q)'
  BY <1>7, AnswersTypes DEF Flush, EventKinds
<1> QED
  BY <1>1, <1>6, <1>8, QuietTurnStep DEF Flush

\* An effect on a message leaves marks only.
LEMMA MarksTo ==
  ASSUME TypeInv, NEW n \in Batch(Primary), NEW also, Covering(n, also) \/ Confirming(n), turn[Primary].pc \in {"act", "reply"},
         read' = read
  PROVE  \E t, r : Becomes(Primary, t, r) /\ TurnOK(t, Primary, r)
<1>1. Primary \in Agent
  BY DEF Agent
<1>2. TurnOK(turn[Primary], Primary, read[Primary]) /\ Batch(Primary) \subseteq DOMAIN log
  BY <1>1, TurnIs
<1>3. PICK t : turn' = [turn EXCEPT ![Primary] = t] /\ (t = Covers(n, also) \/ t = [Covers(n, {}) EXCEPT !.confirmed = @ \cup {n}])
  BY DEF Covering, Confirming
<1>4. /\ {"pc", "batch", "upto", "refused", "spawned", "all", "covered", "confirmed"} \subseteq DOMAIN t
      /\ t.pc = turn[Primary].pc /\ t.batch = turn[Primary].batch /\ t.upto = turn[Primary].upto /\ t.all = turn[Primary].all
      /\ t.confirmed \subseteq turn[Primary].confirmed \cup {n}
  BY <1>2, <1>3 DEF TurnOK, Covers
<1>5. t.confirmed \subseteq t.batch
  BY <1>2, <1>4 DEF TurnOK, Batch
<1> QED
  BY <1>1, <1>3, <1>4, <1>5, TurnMarked

\* An effect that records an event and leaves the tree alone.
LEMMA PrimarySaysTypes ==
  ASSUME TypeInv, NEW n \in Batch(Primary), NEW also,
         Recall(n, also) \/ AskWhich(n, also) \/ CreateRefused(n, also) \/ PrimaryReplies(n, also) \/ ConfirmOnly(n)
  PROVE  TypeInv'
<1>1. Primary \in Agent /\ turn[Primary].pc \in {"act", "reply"} /\ Quiet /\ UNCHANGED <<call, read>>
  BY DEF Agent, Recall, AskWhich, CreateRefused, PrimaryReplies, ConfirmOnly, Does, Effect, Asks, On
<1>2. \E t, r : Becomes(Primary, t, r) /\ TurnOK(t, Primary, r)
  BY <1>1, MarksTo DEF Recall, AskWhich, CreateRefused, PrimaryReplies, ConfirmOnly
<1>3. PICK of \in Message \cup {None} : of = log[n].of /\ {n} \in SUBSET (1..Len(log))
  BY <1>1, TurnIs DEF TypeInv, LogOK, EventOK
<1>4. \A kind \in EventKinds : Fits(Answer(kind, None, of, {n}))
  BY <1>3, AnswerFits, NoneIsNobody
<1>5. Fits([Event("recalled", Primary, None, of) EXCEPT !.hop = log[n].hop + 1, !.re = {n}])
  BY <1>1, <1>3, EventFits, NoneIsNobody DEF EventKinds
<1>6. log' = log \/ \E e : Fits(e) /\ (Record(e) \/ Post(e))
  <2>1. CASE Recall(n, also)
    BY <1>3, <1>5, <2>1 DEF Recall
  <2>2. CASE AskWhich(n, also)
    BY <1>3, <1>4, <2>2 DEF AskWhich, EventKinds
  <2>3. CASE CreateRefused(n, also)
    BY <1>3, <1>4, <2>3 DEF CreateRefused, EventKinds
  <2>4. CASE PrimaryReplies(n, also)
    BY <1>3, <1>4, <2>4 DEF PrimaryReplies, EventKinds
  <2> QED
    BY <2>1, <2>2, <2>3, <2>4 DEF ConfirmOnly
<1>7. PICK E : Added(E) /\ \A q \in E : EventOK(q)'
  BY <1>6, Recorded, NothingRecorded
<1> QED
  BY <1>1, <1>2, <1>7, QuietTurnStep

\* An effect that begins a call of the tree's operations.
LEMMA PrimaryCallStep ==
  ASSUME TypeInv, NEW E, Added(E), \A e \in E : EventOK(e)', Persist, TreeOK', NEW n \in Batch(Primary), NEW also,
         Covering(n, also) \/ Confirming(n), On(Primary, "act"), read' = read, mutex' = mutex,
         call' = call \/ \E c : CallOK(c)' /\ call' = [call EXCEPT ![Primary] = c] /\ c.pc \notin Locked
  PROVE  TypeInv'
<1>1. PICK t, r : Becomes(Primary, t, r) /\ TurnOK(t, Primary, r)
  BY MarksTo DEF On
<1>2. TurnOK(t, Primary, r)'
  BY <1>1, TurnStays
<1>3. TurnsOK'
  BY <1>1, <1>2, TurnTypes DEF Agent
<1>4. CallsOK' /\ LockOK'
  <2>1. CASE call' = call
    BY <2>1, CallsStay
  <2>2. CASE call' # call
    <3>1. PICK c : CallOK(c)' /\ call' = [call EXCEPT ![Primary] = c] /\ c.pc \notin Locked
      BY <2>2
    <3>2. call[Primary].pc \notin Locked
      BY DEF On, At, Locked
    <3> QED
      BY <3>1, <3>2, CallTypes DEF Proc
  <2> QED
    BY <2>1, <2>2
<1> QED
  BY <1>3, <1>4, StepTypes

LEMMA RouteTypes ==
  ASSUME TypeInv, NEW n \in Batch(Primary), NEW also, NEW i \in Item, Route(n, also, i)
  PROVE  TypeInv'
<1>1. Primary \in Agent /\ On(Primary, "act")
  BY DEF Agent, Route, Does, Effect, Asks
<1>2. TreeOK' /\ Persist /\ mutex' = mutex
  BY QuietIsOK DEF Route
<1>3. PICK E : Added(E) /\ \A q \in E : EventOK(q)'
  BY NothingRecorded DEF Route
<1>4. PICK of \in Message \cup {None} : of = log[n].of /\ {n} \in SUBSET (1..Len(log))
  BY <1>1, TurnIs DEF TypeInv, LogOK, EventOK
<1>5. PICK all : all = turn[Primary].all /\ all \in [Item -> AnyStatus] /\ Exists(i)
  BY <1>1, TurnIs DEF TurnOK, Route
<1>6. PICK t : t = <<For(of, i)>>
  OBVIOUS
<1>7. t \in Seq(Jobs) /\ t # <<>> /\ \A k \in DOMAIN t : Exists(t[k].item)
  BY <1>5, <1>6, OneJob
<1>8. PICK c : c = Delivering(t, all, None, {n})
  OBVIOUS
<1>9. CallOK(c) /\ c.pc = "deliver"
  BY <1>4, <1>5, <1>7, <1>8, DeliveringIs
<1>10. CallOK(c)'
  BY <1>2, <1>3, <1>9, CallStays
<1>11. call' = [call EXCEPT ![Primary] = c]
  BY <1>4, <1>5, <1>6, <1>8 DEF Route
<1> QED
  BY <1>1, <1>2, <1>3, <1>9, <1>10, <1>11, PrimaryCallStep DEF Locked, Route

\* The messages folded into a new item are delivered to it too.
LEMMA FoldedJobs ==
  ASSUME TypeInv, NEW i \in Item, NEW also, also \subseteq DOMAIN log
  PROVE  LET S == {For(log[k].of, i) : k \in also}
         IN  IsFiniteSet(S) /\ \A j \in S : j \in Jobs /\ j.item = i
<1> DEFINE f == [k \in also |-> For(log[k].of, i)]
<1>1. IsFiniteSet({f[k] : k \in also})
  <2>1. IsFiniteSet(also) /\ DOMAIN f = also
    BY PositionsAreFinite
  <2> HIDE DEF f
  <2> QED
    BY <2>1, ImageIsFinite
<1>2. \A k \in also : f[k] \in Jobs /\ f[k].item = i
  BY DEF TypeInv, LogOK, EventOK, For, Jobs
<1>3. {f[k] : k \in also} = {For(log[k].of, i) : k \in also}
  OBVIOUS
<1> HIDE DEF f
<1>4. \A j \in {f[k] : k \in also} : j \in Jobs /\ j.item = i
  BY <1>2
<1> QED
  BY <1>1, <1>3, <1>4

LEMMA NewJobs ==
  ASSUME NEW i \in Item, NEW of \in Message \cup {None}, NEW S, IsFiniteSet(S), \A j \in S : j \in Jobs /\ j.item = i
  PROVE  LET t == <<For(of, i)>> \o SetToSeq(S)
         IN  t \in Seq(Jobs) /\ t # <<>> /\ \A k \in DOMAIN t : t[k].item = i
<1>1. PICK s, one, t : s = SetToSeq(S) /\ one = <<For(of, i)>> /\ t = one \o s
  OBVIOUS
<1>2. PICK J : J = {j \in Jobs : j.item = i}
  OBVIOUS
<1>3. For(of, i) \in J /\ S \subseteq J
  BY <1>2 DEF For, Jobs
<1>4. one \in Seq(J) /\ Len(one) = 1
  BY <1>1, <1>3
<1>5. s \in Seq(J)
  <2>1. s \in Seq(S)
    BY <1>1, SetInSequence
  <2> QED
    BY <1>3, <2>1
<1>6. t \in Seq(J) /\ Len(t) = 1 + Len(s) /\ Len(s) \in Nat
  <2>1. \A x, y \in Seq(J) : x \o y \in Seq(J) /\ Len(x \o y) = Len(x) + Len(y) /\ Len(y) \in Nat
    OBVIOUS
  <2>2. one \o s \in Seq(J) /\ Len(one \o s) = Len(one) + Len(s) /\ Len(s) \in Nat
    BY <1>4, <1>5, <2>1
  <2> QED
    BY <1>1, <1>4, <2>2
<1>7. t # <<>>
  BY <1>6
<1>8. \A k \in DOMAIN t : t[k] \in J
  BY <1>6
<1>9. J \subseteq Jobs /\ \A j \in J : j.item = i
  BY <1>2
<1> QED
  BY <1>1, <1>6, <1>7, <1>8, <1>9

LEMMA CreateTypes ==
  ASSUME TypeInv, NEW n \in Batch(Primary), NEW also \in SUBSET Batch(Primary), Create(n, also)
  PROVE  TypeInv'
<1>1. Primary \in Agent /\ On(Primary, "act")
  BY DEF Agent, Create, Does, Effect, Asks
<1>2. PICK i \in Item : i = Fresh /\ ~Exists(i)
  BY FreshIsFree DEF Create
<1>3. TreeOK' /\ Persist /\ Exists(i)' /\ status' \in [Item -> AnyStatus]
  <2>1. parent' = [parent EXCEPT ![i] = None] /\ status' = [status EXCEPT ![i] = "open"] /\ None \notin Item
    BY <1>2, NoneIsNobody DEF Create, Creates
  <2> QED
    BY <1>2, <2>1, ItemMade DEF Create
<1>4. PICK E : Added(E) /\ \A q \in E : EventOK(q)'
  BY NothingRecorded DEF Create
<1>5. PICK of \in Message \cup {None} : of = log[n].of /\ {n} \in SUBSET (1..Len(log')) /\ also \subseteq DOMAIN log
  BY <1>1, <1>4, TurnIs DEF TypeInv, LogOK, EventOK, Added
<1>60. PICK S : S = {For(log[k].of, i) : k \in also}
  OBVIOUS
<1>61. IsFiniteSet(S) /\ \A j \in S : j \in Jobs /\ j.item = i
  BY <1>2, <1>5, <1>60, FoldedJobs
<1>6. PICK t : t = <<For(of, i)>> \o SetToSeq(S)
  OBVIOUS
<1>7. t \in Seq(Jobs) /\ t # <<>> /\ \A k \in DOMAIN t : t[k].item = i
  BY <1>2, <1>5, <1>6, <1>61, NewJobs
<1>8. \A k \in DOMAIN t : Exists(t[k].item)'
  BY <1>3, <1>7 DEF Exists
<1>9. PICK saw : saw = status'
  OBVIOUS
<1>10. PICK c : c = Delivering(t, saw, None, {n})
  OBVIOUS
<1>11. CallOK(c)' /\ c.pc = "deliver"
  BY <1>3, <1>5, <1>7, <1>8, <1>9, <1>10, DeliveringNew
<1>12. call' = [call EXCEPT ![Primary] = c] /\ mutex' = mutex /\ read' = read
  BY <1>2, <1>5, <1>6, <1>60, <1>9, <1>10 DEF Create
<1> QED
  BY <1>1, <1>3, <1>4, <1>11, <1>12, PrimaryCallStep DEF Locked, Create

LEMMA CreateDeferredTypes ==
  ASSUME TypeInv, NEW n \in Batch(Primary), NEW also, CreateDeferred(n, also)
  PROVE  TypeInv'
<1>1. Primary \in Agent /\ On(Primary, "act")
  BY DEF Agent, CreateDeferred, Does, Effect, Asks
<1>2. PICK i \in Item : i = Fresh /\ ~Exists(i)
  BY FreshIsFree DEF CreateDeferred
<1>3. TreeOK' /\ Persist /\ Exists(i)'
  <2>1. parent' = [parent EXCEPT ![i] = None] /\ status' = [status EXCEPT ![i] = "open"] /\ None \notin Item
    BY <1>2, NoneIsNobody DEF CreateDeferred, Creates
  <2> QED
    BY <1>2, <2>1, ItemMade DEF CreateDeferred
<1>4. PICK of \in Message \cup {None} : of = log[n].of /\ {n} \in SUBSET (1..Len(log))
  BY <1>1, TurnIs DEF TypeInv, LogOK, EventOK
<1>5. PICK a, b, c : a = Answer("attributed", i, of, {n}) /\ b = Event("copy", None, i, of) /\ c = Answer("told", None, of, {n})
  OBVIOUS
<1>6. status'[i] # "none"
  BY <1>3 DEF Exists
<1>7. Fits(a) /\ Fits(b) /\ Fits(c)
  <2>1. {"attributed", "copy", "told"} \subseteq EventKinds
    BY DEF EventKinds
  <2>2. Fits(a) /\ Fits(c)
    BY <1>4, <1>5, <1>6, <2>1, AnswerFits, NoneIsNobody
  <2>3. Fits(b)
    BY <1>4, <1>5, <1>6, <2>1, EventFits, NoneIsNobody
  <2> QED
    BY <2>2, <2>3
<1>80. PICK s : s = <<a, b, c>>
  OBVIOUS
<1>8. s \in Seq({a, b, c})
  BY <1>80
<1>9. log' = log \o s
  BY <1>2, <1>4, <1>5, <1>80 DEF CreateDeferred
<1>10. PICK E : E = {a, b, c}
  OBVIOUS
<1>11. Added(E)
  BY <1>8, <1>9, <1>10, AddedMany DEF TypeInv, LogOK
<1>12. ASSUME NEW q \in E  PROVE EventOK(q)'
  <2>1. Fits(q)
    BY <1>7, <1>10
  <2> QED
    BY <1>11, <2>1, FitIsOK
<1>13. call' = call /\ read' = read /\ mutex' = mutex /\ Covering(n, also)
  BY DEF CreateDeferred
<1> QED
  BY <1>1, <1>3, <1>11, <1>12, <1>13, PrimaryCallStep

LEMMA SetStatusOfTypes ==
  ASSUME TypeInv, NEW n \in Batch(Primary), NEW items \in SUBSET Item, NEW want \in Statuses, NEW allOpen,
         SetStatusOf(n, items, want, allOpen)
  PROVE  TypeInv'
<1>1. Primary \in Agent /\ On(Primary, "act") /\ Confirming(n) /\ read' = read
  BY DEF Agent, SetStatusOf, Does, Effect, Asks
<1>2. TreeOK' /\ Persist /\ mutex' = mutex
  BY QuietIsOK DEF SetStatusOf
<1>3. PICK E : Added(E) /\ \A q \in E : EventOK(q)'
  BY NothingRecorded DEF SetStatusOf
<1>4. call' = call \/ \E c : CallOK(c)' /\ call' = [call EXCEPT ![Primary] = c] /\ c.pc \notin Locked
  <2>1. PICK change : change = {i \in items : status[i] # want}
    OBVIOUS
  <2>2. CASE call' # call
    <3>1. change # {} /\ call' = [call EXCEPT ![Primary] = Changing(SetToSeq(change), want, log[n].hop)]
      BY <2>1, <2>2 DEF SetStatusOf
    <3>2. \A i \in change : i \in Item /\ Exists(i)
      BY <1>1, <2>1, TurnIs DEF SetStatusOf, TurnOK
    <3>3. IsFiniteSet(change)
      BY <2>1, WorkTreeAssumption, FS_Subset
    <3>4. PICK s : s = SetToSeq(change) /\ s \in Seq(change) /\ s # <<>>
      BY <3>1, <3>3, SetInSequence
    <3>5. s \in Seq(Item) /\ \A k \in DOMAIN s : Exists(s[k])
      BY <3>2, <3>4
    <3>6. PICK c : c = Changing(s, want, log[n].hop)
      OBVIOUS
    <3>7. CallOK(c) /\ c.pc = "lock"
      BY <3>4, <3>5, <3>6, ChangingIs
    <3>8. CallOK(c)'
      BY <1>2, <1>3, <3>7, CallStays
    <3> QED
      BY <3>1, <3>4, <3>6, <3>7, <3>8 DEF Locked
  <2> QED
    BY <2>2
<1> QED
  BY <1>1, <1>2, <1>3, <1>4, PrimaryCallStep

LEMMA CancelOfTypes ==
  ASSUME TypeInv, NEW n \in Batch(Primary), NEW i \in Item, CancelOf(n, i)
  PROVE  TypeInv'
<1>1. On(Primary, "act") /\ Confirming(n) /\ read' = read
  BY DEF CancelOf, Does, Effect, Asks
<1>2. TreeOK' /\ Persist /\ mutex' = mutex
  BY QuietIsOK DEF CancelOf
<1>3. PICK E : Added(E) /\ \A q \in E : EventOK(q)'
  BY NothingRecorded DEF CancelOf
<1>4. PICK c : c = Cancelling(i)
  OBVIOUS
<1>5. CallOK(c) /\ c.pc = "stop"
  BY <1>4, CancellingIs
<1>6. CallOK(c)'
  BY <1>2, <1>3, <1>5, CallStays
<1>7. call' = [call EXCEPT ![Primary] = c]
  BY <1>4 DEF CancelOf
<1> QED
  BY <1>1, <1>2, <1>3, <1>5, <1>6, <1>7, PrimaryCallStep DEF Locked

LEMMA PrimaryTypes ==
  ASSUME TypeInv, PrimaryTurn
  PROVE  TypeInv'
<1>1. ASSUME NEW n \in Batch(Primary), PrimaryActs(n)  PROVE TypeInv'
  <2>1. \A also \in SUBSET (Batch(Primary) \ {n}) : also \in SUBSET Batch(Primary)
    OBVIOUS
  <2>2. CASE ConfirmOnly(n)
    BY <2>2, PrimarySaysTypes
  <2>3. CASE \E i \in Item : CancelOf(n, i)
    BY <2>3, CancelOfTypes
  <2>4. CASE \E items \in SUBSET Item, want \in Statuses : SetStatusOf(n, items, want, FALSE)
    BY <2>4, SetStatusOfTypes
  <2>5. CASE \E want \in Statuses : SetStatusOf(n, {i \in Item : turn[Primary].all[i] = "open"}, want, TRUE)
    BY <2>5, SetStatusOfTypes
  <2>6. ASSUME NEW also \in SUBSET (Batch(Primary) \ {n}),
               \/ Recall(n, also) \/ AskWhich(n, also) \/ CreateRefused(n, also) \/ Create(n, also)
               \/ CreateDeferred(n, also) \/ PrimaryReplies(n, also) \/ \E i \in Item : Route(n, also, i)
        PROVE  TypeInv'
    BY <2>1, <2>6, PrimarySaysTypes, CreateTypes, CreateDeferredTypes, RouteTypes
  <2> QED
    BY <1>1, <2>2, <2>3, <2>4, <2>5, <2>6 DEF PrimaryActs
<1>2. CASE Aborts(Primary)
  BY <1>2, AbortsTypes DEF Agent
<1> QED
  BY <1>1, <1>2, PrimaryBeginsTypes, PrimaryOverTypes, PrimaryDecidesTypes, FlushTypes DEF PrimaryTurn

LEMMA NextTypes == TypeInv /\ [Next]_vars => TypeInv'
<1> SUFFICES ASSUME TypeInv, [Next]_vars  PROVE TypeInv'
  OBVIOUS
<1>1. ASSUME NEW p \in Proc, Step(p) /\ UNCHANGED <<read, turn, asked>>  PROVE TypeInv'
  BY <1>1, HandlerTypes
<1>2. ASSUME NEW p \in Caller, More /\ (Ask(p) \/ CallFails(p)) /\ UNCHANGED <<read, turn, asked>>  PROVE TypeInv'
  BY <1>2, PersonTypes DEF Proc
<1>3. ASSUME NEW i \in Item, ManagerTurn(i) \/ ExecutionEnds(i)  PROVE TypeInv'
  BY <1>3, ManagerTypes
<1>4. CASE PrimaryTurn
  BY <1>4, PrimaryTypes
<1>5. CASE UNCHANGED vars
  <2>1. log' = log /\ Quiet /\ UNCHANGED <<call, read, turn>>
    BY <1>5 DEF vars, treeVars, Quiet
  <2>2. PICK E : Added(E) /\ \A q \in E : EventOK(q)'
    BY <2>1, NothingRecorded
  <2> QED
    BY <2>1, <2>2, QuietIsOK, SameTurnStep
<1> QED
  BY <1>1, <1>2, <1>3, <1>4, <1>5 DEF Next

\* The rows of the tree, the events, the calls and the turns keep their shape, no
\* execution and no event is of an item without a row, and the lock on the statuses is
\* held by the one call that is between its statements.
THEOREM TurnsTyped == Spec => []TurnsTypeOK
<1>1. Spec => []TypeInv
  BY TypeInit, NextTypes, PTL DEF Spec
<1> QED
  BY <1>1, TypesAreTyped, PTL

-----------------------------------------------------------------------------
(* What a step adds to the log, and what it leaves *)

Adds(K) == \E E : Added(E) /\ \A e \in E : e.kind \in K

\* The log is longer by this event.
OneMore(q) == Added({q}) /\ Len(log') = Len(log) + 1 /\ log'[Len(log) + 1] = q

\* The refusal that stands in for an event.
Refusal(q, e) == q.kind = "refused" /\ q.box = None /\ q.item = e.item /\ q.of = e.of /\ q.re = e.re

LEMMA RecordsOne ==
  ASSUME TypeInv, NEW e, Record(e)
  PROVE  OneMore(e)
  BY AddedOne DEF OneMore, TypeInv, LogOK

LEMMA PostsOne ==
  ASSUME TypeInv, NEW e, Post(e)
  PROVE  \E q : OneMore(q) /\ (q = e \/ Refusal(q, e))
<1>1. PICK q : q = Posted(e)
  OBVIOUS
<1>2. OneMore(q)
  BY <1>1, RecordsOne DEF Post
<1>3. q = e \/ Refusal(q, e)
  BY <1>1, PostedIs DEF Refusal
<1> QED
  BY <1>2, <1>3

LEMMA OneAdds ==
  ASSUME NEW q, OneMore(q), NEW K, q.kind \in K
  PROVE  Adds(K)
  BY DEF OneMore, Adds

LEMMA RecordAdds ==
  ASSUME TypeInv, NEW e, NEW K, e.kind \in K, Record(e) \/ (Post(e) /\ "refused" \in K)
  PROVE  Adds(K)
<1>1. CASE Record(e)
  BY <1>1, RecordsOne, OneAdds
<1>2. CASE Post(e) /\ "refused" \in K
  <2>1. PICK q : OneMore(q) /\ (q = e \/ Refusal(q, e))
    BY <1>2, PostsOne
  <2>2. q.kind \in K
    BY <1>2, <2>1 DEF Refusal
  <2> QED
    BY <2>1, <2>2, OneAdds
<1> QED
  BY <1>1, <1>2

LEMMA NoneAdds ==
  ASSUME TypeInv, log' = log, NEW K
  PROVE  Adds(K)
<1>1. Added({})
  BY AddedNone DEF TypeInv, LogOK
<1> QED
  BY <1>1 DEF Adds

LEMMA AnswersAdd ==
  ASSUME TypeInv, NEW kind, NEW S, S \subseteq DOMAIN log, Answers(kind, S), NEW K, kind \in K
  PROVE  Adds(K)
<1>1. PICK E : E = {Answer(kind, None, log[n].of, {n}) : n \in S}
  OBVIOUS
<1>2. Added(E)
  BY <1>1, PositionsAreFinite, AddedAnswers DEF TypeInv, LogOK
<1>3. \A e \in E : e.kind = kind
  BY <1>1 DEF Answer, Event
<1> QED
  BY <1>2, <1>3 DEF Adds

LEMMA MoreKinds ==
  ASSUME NEW K, NEW L, K \subseteq L, Adds(K)
  PROVE  Adds(L)
  BY DEF Adds

LEMMA ReopenAdds == ASSUME TypeInv, NEW p, Reopen(p)  PROVE Adds({"reopened"})
<1>1. Record(Event("reopened", None, Now(p).item, None)) /\ Event("reopened", None, Now(p).item, None).kind = "reopened"
  BY DEF Reopen, Event
<1> QED
  BY <1>1, RecordAdds

LEMMA AttributeAdds == ASSUME TypeInv, NEW p, Attribute(p)  PROVE Adds({"attributed"})
<1>1. PICK e : /\ e = [Event("attributed", None, Now(p).item, Now(p).of) EXCEPT !.prev = call[p].prev, !.re = call[p].re]
               /\ Record(e)
  BY DEF Attribute
<1>2. e.kind = "attributed"
  BY <1>1 DEF Event
<1> QED
  BY <1>1, <1>2, RecordAdds

LEMMA CopyAdds == ASSUME TypeInv, NEW p, Copy(p)  PROVE Adds({"copy", "refused"})
<1>1. PICK e : e = [Event("copy", Now(p).item, Now(p).item, Now(p).of) EXCEPT !.hop = 1] /\ Post(e)
  BY DEF Copy
<1>2. e.kind = "copy"
  BY <1>1 DEF Event
<1> QED
  BY <1>1, <1>2, RecordAdds

LEMMA ChangeRowAdds == ASSUME TypeInv, NEW p, ChangeRow(p)  PROVE Adds({"reopened", "settles"})
<1>1. PICK e : /\ e = [Event(IF call[p].want = "open" THEN "reopened" ELSE "settles", None, Now(p).item, None)
                         EXCEPT !.re = call[p].re]
               /\ Record(e)
  BY DEF ChangeRow
<1>2. e.kind \in {"reopened", "settles"}
  BY <1>1 DEF Event
<1> QED
  BY <1>1, <1>2, RecordAdds

LEMMA NotifyParentAdds == ASSUME TypeInv, NEW p, NotifyParent(p)  PROVE Adds({"settled", "refused"})
<1>1. PICK e : /\ e = [Event("settled", parent[Now(p).item], parent[Now(p).item], None) EXCEPT !.hop = call[p].hop + 1]
               /\ Post(e)
  BY DEF NotifyParent
<1>2. e.kind = "settled"
  BY <1>1 DEF Event
<1> QED
  BY <1>1, <1>2, RecordAdds

LEMMA ClosePartAdds == ASSUME TypeInv, NEW p, ClosePart(p)  PROVE Adds({"stops"})
<1>1. Record(Event("stops", None, Now(p).item, None)) /\ Event("stops", None, Now(p).item, None).kind = "stops"
  BY DEF ClosePart, Event
<1> QED
  BY <1>1, RecordAdds

LEMMA StopExecutionsAdds == ASSUME TypeInv, NEW p, StopExecutions(p)  PROVE Adds({"cancelled"})
<1>1. PICK A : A = {i \in active : call[p].saw[i] # "none"}
  OBVIOUS
<1>2. A \subseteq active /\ status' = status
  BY <1>1 DEF StopExecutions
<1>3. PICK S : S = {[Event("cancelled", i, i, None) EXCEPT !.hop = OutcomeHop(i)] : i \in A}
  OBVIOUS
<1>4. log' = log \o SetToSeq(S)
  BY <1>1, <1>3 DEF StopExecutions
<1>5. IsFiniteSet(S) /\ \A e \in S : Fits(e)
  BY <1>2, <1>3, StoppedOutcomes
<1>6. Added(S)
  BY <1>4, <1>5, RecordedAll
<1>7. \A e \in S : e.kind = "cancelled"
  BY <1>3 DEF Event
<1> QED
  BY <1>6, <1>7 DEF Adds

LEMMA AskAdds == ASSUME TypeInv, NEW p, Ask(p) \/ CallFails(p)  PROVE Adds({"message"})
<1>1. CASE \E m \in Message, targets \in {<<>>} \cup {<<i>> : i \in Item} \cup {<<i, j>> : i, j \in Item} : Submit(p, m, targets)
  <2>1. PICK m, targets : Submit(p, m, targets)
    BY <1>1
  <2>2. PICK e : /\ e = Event("message", IF targets = <<>> THEN Primary ELSE None, IF Len(targets) = 1 THEN Head(targets) ELSE None, m)
                 /\ Record(e)
    BY <2>1 DEF Submit
  <2>3. e.kind = "message"
    BY <2>2 DEF Event
  <2> QED
    BY <2>2, <2>3, RecordAdds
<1>2. CASE ~\E m \in Message, targets \in {<<>>} \cup {<<i>> : i \in Item} \cup {<<i, j>> : i, j \in Item} : Submit(p, m, targets)
  <2>1. \/ (\E m \in Message, i \in Item : Reattribute(p, m, i)) \/ (\E m \in Message : StartFromMessage(p, m))
        \/ (\E i \in Item, s \in Statuses : SetStatus(p, i, s)) \/ (\E i \in Item : Cancel(p, i)) \/ CallFails(p)
    BY <1>2 DEF Ask
  <2>2. log' = log
    BY <2>1 DEF Reattribute, StartFromMessage, SetStatus, Cancel, CallFails
  <2> QED
    BY <2>2, NoneAdds
<1> QED
  BY <1>1, <1>2

ManagerKinds == {"reply", "escalation", "escalation.raised", "copy", "reroute", "started", "finished", "refused"}

\* A copy of a Manager's own brief or answer is not of a message of the person.
ManagerEvent(e) == e.kind \in ManagerKinds /\ (e.kind = "copy" => e.of = None)

LEMMA ManagerTells ==
  ASSUME TypeInv, NEW i, ManagerTurn(i) \/ ExecutionEnds(i)
  PROVE  log' = log \/ \E q : OneMore(q) /\ ManagerEvent(q)
<1>1. ASSUME NEW e, ManagerEvent(e), Record(e) \/ Post(e)  PROVE \E q : OneMore(q) /\ ManagerEvent(q)
  <2>1. PICK q : OneMore(q) /\ (q = e \/ Refusal(q, e))
    BY <1>1, RecordsOne, PostsOne
  <2>2. ManagerEvent(q)
    BY <1>1, <2>1 DEF Refusal, ManagerEvent, ManagerKinds
  <2> QED
    BY <2>1, <2>2
<1>2. \A re : ManagerEvent(Answer("reply", i, None, re))
  BY DEF Answer, Event, ManagerKinds, ManagerEvent
<1>3. CASE ManagerSkips(i) \/ ManagerBegins(i) \/ Aborts(i) \/ ManagerPhase(i) \/ Done(i)
  BY <1>3 DEF ManagerSkips, ManagerBegins, Aborts, ManagerPhase, Done
<1>4. CASE ManagerAcknowledges(i) \/ ManagerFallsBack(i)
  <2>1. \E re : Record(Answer("reply", i, None, re))
    BY <1>4 DEF ManagerAcknowledges, ManagerFallsBack
  <2> QED
    BY <1>1, <1>2, <2>1
<1>5. CASE AttachAsks(i) \/ ManagerReplies(i)
  <2>1. Post(Answer("reply", i, None, Batch(i)))
    BY <1>5 DEF AttachAsks, ManagerReplies, Records
  <2> QED
    BY <1>1, <1>2, <2>1
<1>6. CASE Escalate(i) \/ Reroute(i)
  <2>1. PICK kind, of : kind \in {"escalation.raised", "reroute"} /\ Post(Bubble(i, kind, of))
    BY <1>6 DEF Escalate, Reroute, Records
  <2>2. ManagerEvent(Bubble(i, kind, of))
    BY <2>1 DEF Bubble, Event, ManagerKinds, ManagerEvent
  <2> QED
    BY <1>1, <2>1, <2>2
<1>7. CASE AnswerChild(i)
  <2>1. PICK c, e : e = [Event("copy", c, c, None) EXCEPT !.hop = NextHop(i)] /\ Post(e)
    BY <1>7 DEF AnswerChild, Records
  <2>2. ManagerEvent(e) /\ Post(e)
    BY <2>1 DEF Event, ManagerKinds, ManagerEvent
  <2> QED
    BY <1>1, <2>2
<1>8. CASE Spawn(i)
  <2>1. PICK refused : Record([Answer(IF refused THEN "escalation" ELSE "started", i, None, Batch(i)) EXCEPT !.hop = NextHop(i)])
    BY <1>8 DEF Spawn
  <2>2. PICK e : e = [Answer(IF refused THEN "escalation" ELSE "started", i, None, Batch(i)) EXCEPT !.hop = NextHop(i)]
    OBVIOUS
  <2>3. ManagerEvent(e)
    BY <2>2 DEF Answer, Event, ManagerKinds, ManagerEvent
  <2> QED
    BY <1>1, <2>1, <2>2, <2>3
<1>9. CASE CreateChild(i)
  <2>1. PICK e : e = [Event("copy", Fresh, Fresh, None) EXCEPT !.hop = NextHop(i)] /\ Post(e)
    BY <1>9 DEF CreateChild
  <2>2. ManagerEvent(e) /\ Post(e)
    BY <2>1 DEF Event, ManagerKinds, ManagerEvent
  <2> QED
    BY <1>1, <2>2
<1>10. CASE ExecutionEnds(i)
  <2>1. PICK e : e = [Event("finished", i, i, None) EXCEPT !.hop = OutcomeHop(i)] /\ Record(e)
    BY <1>10 DEF ExecutionEnds
  <2>2. ManagerEvent(e) /\ Record(e)
    BY <2>1 DEF Event, ManagerKinds, ManagerEvent
  <2> QED
    BY <1>1, <2>2
<1> QED
  BY <1>3, <1>4, <1>5, <1>6, <1>7, <1>8, <1>9, <1>10 DEF ManagerTurn

LEMMA ManagerAdds == ASSUME TypeInv, NEW i, ManagerTurn(i) \/ ExecutionEnds(i)  PROVE Adds(ManagerKinds)
  BY ManagerTells, NoneAdds, OneAdds DEF ManagerEvent

SpokenKinds == {"escalation", "reply", "confirm", "recalled", "refused", "ambiguous", "told"}
PrimaryKinds == SpokenKinds \cup {"attributed", "copy"}

\* The events of a new item whose Manager is not woken.
Deferred(n, i) ==
  <<Answer("attributed", i, log[n].of, {n}), Event("copy", None, i, log[n].of), Answer("told", None, log[n].of, {n})>>

LEMMA DeferredAdds ==
  ASSUME TypeInv, NEW n, NEW also, CreateDeferred(n, also)
  PROVE  /\ Added({Deferred(n, Fresh)[1], Deferred(n, Fresh)[2], Deferred(n, Fresh)[3]}) /\ Len(log') = Len(log) + 3
         /\ \A k \in 1..3 : log'[Len(log) + k] = Deferred(n, Fresh)[k]
<1>1. PICK s : s = Deferred(n, Fresh)
  OBVIOUS
<1>2. PICK a, b, c : s = <<a, b, c>>
  BY <1>1 DEF Deferred
<1>3. s \in Seq({a, b, c}) /\ Len(s) = 3 /\ s[1] = a /\ s[2] = b /\ s[3] = c
  BY <1>2
<1>4. log' = log \o s
  BY <1>1 DEF CreateDeferred, Deferred
<1>5. PICK E : E = {a, b, c}
  OBVIOUS
<1>6. /\ Added(E) /\ Len(log') = Len(log) + Len(s)
      /\ \A k \in 1..Len(s) : log'[Len(log) + k] = s[k]
  BY <1>3, <1>4, <1>5, AddedMany DEF TypeInv, LogOK
<1> QED
  BY <1>1, <1>3, <1>5, <1>6

LEMMA PrimarySpeaks ==
  ASSUME TypeInv, PrimaryTurn
  PROVE  Adds(SpokenKinds) \/ \E n \in Batch(Primary) : \E also : CreateDeferred(n, also)
<1>1. Primary \in Agent /\ Batch(Primary) \subseteq DOMAIN log
  BY TurnIs DEF Agent
<1>2. ASSUME NEW kind \in {"escalation", "reply", "confirm"}, NEW S, S \subseteq DOMAIN log, Answers(kind, S)  PROVE Adds(SpokenKinds)
  BY <1>2, AnswersAdd DEF SpokenKinds
<1>3. CASE PrimaryBegins
  <2>1. Unread(Primary) \ {n \in Unread(Primary) : Routable(n)} \subseteq DOMAIN log
    BY <1>1, UnreadIs
  <2> QED
    BY <1>2, <1>3, <2>1 DEF PrimaryBegins
<1>4. CASE PrimaryFallsBack \/ PrimaryEnds
  <2>1. \E S : S \subseteq DOMAIN log /\ Answers("reply", S)
    BY <1>1, <1>4 DEF PrimaryFallsBack, PrimaryEnds
  <2> QED
    BY <1>2, <2>1
<1>5. CASE Flush
  <2>1. turn[Primary].confirmed \subseteq DOMAIN log
    BY <1>1, TurnIs DEF TurnOK, Batch
  <2> QED
    BY <1>2, <1>5, <2>1 DEF Flush
<1>6. CASE Aborts(Primary) \/ PrimaryDecides
  <2>1. log' = log
    BY <1>6 DEF Aborts, PrimaryDecides
  <2> QED
    BY <2>1, NoneAdds
<1>7. ASSUME NEW n \in Batch(Primary), PrimaryActs(n), ~\E also : CreateDeferred(n, also)  PROVE Adds(SpokenKinds)
  <2>1. \/ log' = log
        \/ \E e : /\ e.kind \in SpokenKinds
                  /\ Record(e) \/ (Post(e) /\ "refused" \in SpokenKinds)
    <3>1. ASSUME NEW kind \in {"reply", "ambiguous", "told"}, NEW item, NEW of, NEW re
          PROVE  Answer(kind, item, of, re).kind \in SpokenKinds
      BY DEF Answer, Event, SpokenKinds
    <3>2. ASSUME NEW of, NEW h, NEW re
          PROVE  [Event("recalled", Primary, None, of) EXCEPT !.hop = h, !.re = re].kind \in SpokenKinds /\ "refused" \in SpokenKinds
      BY DEF Event, SpokenKinds
    <3>3. CASE \E also : Recall(n, also)
      BY <3>2, <3>3 DEF Recall
    <3>4. CASE \E also : AskWhich(n, also) \/ CreateRefused(n, also) \/ PrimaryReplies(n, also)
      BY <3>1, <3>4 DEF AskWhich, CreateRefused, PrimaryReplies
    <3>5. CASE \E also : Create(n, also) \/ \E i \in Item : Route(n, also, i)
      BY <3>5 DEF Create, Route
    <3>6. CASE ConfirmOnly(n) \/ \E i \in Item : CancelOf(n, i)
      BY <3>6 DEF ConfirmOnly, CancelOf
    <3>7. CASE \E items, want, all : SetStatusOf(n, items, want, all)
      BY <3>7 DEF SetStatusOf
    <3>8. \/ (\E also : Recall(n, also)) \/ (\E also : AskWhich(n, also) \/ CreateRefused(n, also) \/ PrimaryReplies(n, also))
          \/ (\E also : Create(n, also) \/ \E i \in Item : Route(n, also, i))
          \/ ConfirmOnly(n) \/ (\E i \in Item : CancelOf(n, i)) \/ (\E items, want, all : SetStatusOf(n, items, want, all))
      BY <1>7 DEF PrimaryActs
    <3> QED
      BY <3>3, <3>4, <3>5, <3>6, <3>7, <3>8
  <2> QED
    BY <2>1, RecordAdds, NoneAdds
<1> QED
  BY <1>3, <1>4, <1>5, <1>6, <1>7 DEF PrimaryTurn

LEMMA PrimaryAdds == ASSUME TypeInv, PrimaryTurn  PROVE Adds(PrimaryKinds)
<1>1. ASSUME NEW n, NEW also, CreateDeferred(n, also)  PROVE Adds(PrimaryKinds)
  <2>1. \A k \in 1..3 : Deferred(n, Fresh)[k].kind \in PrimaryKinds
    BY DEF Deferred, Answer, Event, PrimaryKinds, SpokenKinds
  <2>2. PICK E : E = {Deferred(n, Fresh)[1], Deferred(n, Fresh)[2], Deferred(n, Fresh)[3]}
    OBVIOUS
  <2>3. Added(E)
    BY <1>1, <2>2, DeferredAdds
  <2>4. \A e \in E : e.kind \in PrimaryKinds
    BY <2>1, <2>2
  <2> QED
    BY <2>3, <2>4 DEF Adds
<1>2. Adds(SpokenKinds) => Adds(PrimaryKinds)
  BY MoreKinds DEF PrimaryKinds
<1> QED
  BY <1>1, <1>2, PrimarySpeaks

LEMMA NextPersists == TypeInv /\ [Next]_vars => Persist
<1> SUFFICES ASSUME TypeInv, [Next]_vars  PROVE Persist
  OBVIOUS
<1> DEFINE Same == UNCHANGED <<parent, status>>
           Set == parent' = parent /\ \E i \in Item, want \in Statuses : status' = [status EXCEPT ![i] = want]
           Made == \E x : Free # {} /\ parent' = [parent EXCEPT ![Fresh] = x] /\ status' = [status EXCEPT ![Fresh] = "open"]
<1>1. Same => Persist
  BY DEF Persist, Exists
<1>2. Set => Persist
  BY DEF Persist, Exists, Statuses, TypeInv, TreeOK
<1>3. Made => Persist
  <2> SUFFICES ASSUME Made  PROVE Persist
    OBVIOUS
  <2>1. PICK c \in Item : c = Fresh /\ ~Exists(c)
    BY FreshIsFree
  <2> QED
    BY <2>1 DEF Persist, Exists, TypeInv, TreeOK
<1>4. ASSUME NEW p \in Proc, Step(p)  PROVE Same \/ Set
  <2>1. CASE Reopen(p) \/ ClosePart(p)
    <3>1. Now(p).item \in Item
      BY <2>1, NowIsJob DEF Reopen, ClosePart, At, Busy
    <3> QED
      BY <2>1, <3>1 DEF Reopen, ClosePart, Statuses
  <2>2. CASE ChangeRow(p)
    <3>1. Now(p).item \in Item /\ call[p].want \in Statuses
      BY <2>2, NowIsJob DEF ChangeRow, At, Busy, TypeInv, CallsOK, CallOK
    <3> QED
      BY <2>2, <3>1 DEF ChangeRow
  <2>3. CASE Attribute(p) \/ Copy(p) \/ Siblings(p) \/ NotifyParent(p) \/ StopExecutions(p)
    BY <2>3 DEF Attribute, Copy, Siblings, NotifyParent, StopExecutions
  <2> QED
    BY <1>4, <2>1, <2>2, <2>3 DEF Step
<1>5. ASSUME NEW p \in Caller, Ask(p) \/ CallFails(p)  PROVE Same \/ Made
  <2>1. \/ (\E m, targets : Submit(p, m, targets)) \/ (\E m, i : Reattribute(p, m, i)) \/ (\E m : StartFromMessage(p, m))
        \/ (\E i, s : SetStatus(p, i, s)) \/ (\E i : Cancel(p, i)) \/ CallFails(p)
    BY <1>5 DEF Ask
  <2> QED
    BY <2>1 DEF Submit, Reattribute, StartFromMessage, Creates, SetStatus, Cancel, CallFails
<1>6. ASSUME NEW i \in Item, ManagerTurn(i) \/ ExecutionEnds(i)  PROVE Same \/ Made
  BY <1>6 DEF ManagerTurn, ManagerSkips, ManagerAcknowledges, ManagerBegins, Aborts, ManagerFallsBack, ManagerPhase,
              AttachAsks, ManagerReplies, Escalate, AnswerChild, Reroute, Records, Spawn, CreateChild, Done, ExecutionEnds, Quiet
<1>7. ASSUME PrimaryTurn  PROVE Same \/ Made
  <2>1. ASSUME NEW n, PrimaryActs(n)  PROVE Same \/ Made
    BY <2>1 DEF PrimaryActs, Recall, AskWhich, CreateRefused, PrimaryReplies, Create, CreateDeferred, Creates, Route,
                SetStatusOf, CancelOf, ConfirmOnly, Quiet
  <2> QED
    BY <1>7, <2>1 DEF PrimaryTurn, PrimaryBegins, Aborts, PrimaryFallsBack, PrimaryDecides, Flush, PrimaryEnds, Quiet
<1>8. CASE UNCHANGED vars
  BY <1>1, <1>8 DEF vars, treeVars
<1> HIDE DEF Same, Set, Made
<1> QED
  BY <1>1, <1>2, <1>3, <1>4, <1>5, <1>6, <1>7, <1>8 DEF Next, Same

-----------------------------------------------------------------------------
(* The notice that the parts of an item have settled *)

\* The parts that settle and stop are items.
PartsOK == \A n \in DOMAIN log : log[n].kind \in {"settles", "stops"} => log[n].item \in Item

\* A call with the lock that settled a part recorded that after the last notice.
HolderOK ==
  \A p \in Proc : mutex = p /\ call[p].want # "open" =>
    \E l \in Of("settles") : log[l].item = Now(p).item /\ \A n \in Of("settled") : n < l

\* The notice is given to a parent, of a part that settled.
NoticeOK == \A p \in Proc : call[p].pc = "notify" => call[p].want # "open" /\ parent[Now(p).item] # None

Told(q) ==
  {n \in DOMAIN log : \/ log[n].kind \in {"settled", "refused"} /\ log[n].item = q
                      \/ log[n].kind = "stops" /\ parent[log[n].item] = q}
OpenPart(q) == \E c \in Children(q) : status[c] = "open"
AllTold(q) == \A l \in Of("settles") : parent[log[l].item] = q => \E n \in Told(q) : n > l
InHand(q) == \E p \in Proc : mutex = p /\ call[p].want # "open" /\ parent[Now(p).item] = q

\* Every settling was told of, unless there is nothing to tell, or a call is about to.
AnsweredOK == faults = 0 => \A q \in Item : OpenPart(q) \/ AllTold(q) \/ InHand(q)

HeardInv == PartsOK /\ HolderOK /\ NoticeOK /\ AnsweredOK /\ HeardOnce

LEMMA HeardInit == Init => HeardInv
<1> SUFFICES ASSUME Init  PROVE HeardInv
  OBVIOUS
<1>1. log = <<>> /\ DOMAIN log = {} /\ mutex = None /\ \A p \in Proc : call[p] = Idle
  BY DEF Init, TreeInit
<1>2. Of("settles") = {} /\ Of("settled") = {}
  BY <1>1 DEF Of
<1> QED
  BY <1>1, <1>2, NoneIsNobody, IdleIsOK
     DEF HeardInv, PartsOK, HolderOK, NoticeOK, AnsweredOK, AllTold, HeardOnce

LEMMA OfIs ==
  ASSUME NEW E, Added(E), NEW kind
  PROVE  /\ Of(kind) \subseteq Of(kind)' /\ Of(kind)' \subseteq Int /\ \A n \in Of(kind) : n <= Len(log) /\ n \in Nat
         /\ \A n \in Of(kind)' : n \in Of(kind) \/ (n \notin DOMAIN log /\ log'[n] \in E /\ log'[n].kind = kind /\ n > Len(log))
<1>1. /\ DOMAIN log = 1..Len(log) /\ DOMAIN log' = 1..Len(log') /\ Len(log) \in Nat /\ Len(log') \in Nat /\ Len(log) <= Len(log')
      /\ (\A n \in DOMAIN log : log'[n] = log[n]) /\ \A n \in DOMAIN log' : n \notin DOMAIN log => log'[n] \in E
  BY DEF Added
<1> QED
  BY <1>1 DEF Of

\* One more event adds no event of another kind: those there are stand before it.
LEMMA OthersEarlier ==
  ASSUME NEW e, Added({e}), NEW kind, e.kind # kind
  PROVE  \A n \in Of(kind)' : n < Len(log) + 1
<1>1. \A n \in Of(kind)' : n \in Of(kind) \/ (log'[n] \in {e} /\ log'[n].kind = kind)
  BY OfIs
<1>2. \A n \in Of(kind)' : n \in Of(kind)
  BY <1>1
<1>3. (\A n \in Of(kind) : n <= Len(log) /\ n \in Nat) /\ Len(log) \in Nat
  BY OfIs DEF Added
<1> QED
  BY <1>2, <1>3

\* Whose part an event is about never changes.
LEMMA PartStays ==
  ASSUME TypeInv, PartsOK, Persist, NEW E, Added(E), NEW n \in DOMAIN log, log[n].kind \in {"settles", "stops"}
  PROVE  log'[n] = log[n] /\ log[n].item \in Item /\ Exists(log[n].item) /\ parent'[log[n].item] = parent[log[n].item]
<1>1. log[n].item \in Item /\ Exists(log[n].item) /\ log'[n] = log[n]
  BY DEF PartsOK, TypeInv, LogOK, EventOK, Added
<1> QED
  BY <1>1 DEF Persist

LEMMA ToldStays ==
  ASSUME TypeInv, PartsOK, Persist, NEW E, Added(E), NEW q
  PROVE  Told(q) \subseteq Told(q)'
<1> SUFFICES ASSUME NEW n \in Told(q)  PROVE n \in Told(q)'
  OBVIOUS
<1>1. n \in DOMAIN log /\ n \in DOMAIN log' /\ log'[n] = log[n]
  BY DEF Told, Added
<1>2. CASE log[n].kind = "stops" /\ parent[log[n].item] = q
  BY <1>1, <1>2, PartStays DEF Told
<1>3. CASE log[n].kind \in {"settled", "refused"} /\ log[n].item = q
  BY <1>1, <1>3 DEF Told
<1> QED
  BY <1>2, <1>3 DEF Told

\* A step that tells no parent.
LEMMA OnceKept ==
  ASSUME TypeInv, HeardInv, Persist, NEW E, Added(E), \A e \in E : e.kind # "settled",
         \A e \in E : e.kind \in {"settles", "stops"} => e.item \in Item
  PROVE  PartsOK' /\ HeardOnce'
<1>1. PartsOK'
  BY DEF HeardInv, PartsOK, Added
<1>2. Of("settles") \subseteq Of("settles")'
  BY OfIs
<1>3. Of("settled")' = Of("settled")
  <2>1. /\ Of("settled") \subseteq Of("settled")'
        /\ \A n \in Of("settled")' : n \in Of("settled") \/ (log'[n] \in E /\ log'[n].kind = "settled")
    BY OfIs
  <2> QED
    BY <2>1
<1>4. \A n \in Of("settles") \cup Of("settled") : n \in DOMAIN log /\ log'[n] = log[n]
  BY DEF Of, Added
<1>5. HeardOnce'
  <2> SUFFICES ASSUME NEW n \in Of("settled")', NEW k \in Of("settled")', n < k, log'[n].item = log'[k].item
               PROVE  \E l \in Of("settles")' : l \in n..k /\ parent'[log'[l].item] = log'[n].item
    BY DEF HeardOnce
  <2>1. PICK l \in Of("settles") : l \in n..k /\ parent[log[l].item] = log[n].item
    BY <1>3, <1>4 DEF HeardInv, HeardOnce
  <2>2. parent'[log'[l].item] = parent[log[l].item]
    BY <1>4, <2>1, PartStays DEF HeardInv, Of
  <2> QED
    BY <1>2, <1>3, <1>4, <2>1, <2>2
<1> QED
  BY <1>1, <1>5

\* What the lock's holder has done stays done.
LEMMA HolderKept ==
  ASSUME TypeInv, HeardInv, NEW E, Added(E), \A e \in E : e.kind # "settled",
         \A p \in Proc : mutex' = p => mutex = p /\ call'[p].want = call[p].want /\ call'[p].todo = call[p].todo
  PROVE  HolderOK'
<1> SUFFICES ASSUME NEW p \in Proc, mutex' = p, call'[p].want # "open"
             PROVE  \E l \in Of("settles")' : log'[l].item = Now(p)'.item /\ \A n \in Of("settled")' : n < l
  BY DEF HolderOK
<1>1. mutex = p /\ call[p].want # "open" /\ Now(p)' = Now(p)
  BY DEF Now
<1>2. PICK l \in Of("settles") : log[l].item = Now(p).item /\ \A n \in Of("settled") : n < l
  BY <1>1 DEF HeardInv, HolderOK
<1>3. l \in Of("settles")' /\ log'[l] = log[l]
  BY DEF Of, Added
<1>4. Of("settled")' \subseteq Of("settled")
  BY DEF Of, Added
<1> QED
  BY <1>1, <1>2, <1>3, <1>4

LEMMA NoticeKept ==
  ASSUME TypeInv, TypeInv', HeardInv, Persist, \A p \in Proc : mutex' = p => mutex = p /\ call'[p] = call[p]
  PROVE  NoticeOK'
<1>1. ASSUME NEW p \in Proc, call'[p].pc = "notify"
      PROVE  call'[p] = call[p] /\ call[p].want # "open" /\ parent[Now(p).item] # None /\ parent'[Now(p)'.item] = parent[Now(p).item]
  <2>1. mutex' = p /\ mutex = p
    BY <1>1 DEF TypeInv, LockOK, Locked
  <2>2. call'[p] = call[p] /\ Now(p)' = Now(p)
    BY <2>1 DEF Now
  <2>3. Now(p).item \in Item /\ Exists(Now(p).item)
    BY <1>1, <2>2, NowIsJob DEF Busy
  <2> QED
    BY <1>1, <2>2, <2>3 DEF HeardInv, NoticeOK, Persist
<1> QED
  BY <1>1 DEF NoticeOK

LEMMA InHandKept ==
  ASSUME TypeInv, Persist, mutex' = mutex, NEW q, InHand(q),
         \A p \in Proc : mutex = p => call'[p].want = call[p].want /\ call'[p].todo = call[p].todo
  PROVE  InHand(q)'
<1>1. PICK p \in Proc : mutex = p /\ call[p].want # "open" /\ parent[Now(p).item] = q
  BY DEF InHand
<1>2. mutex' = p /\ call'[p].want # "open" /\ Now(p)' = Now(p)
  BY <1>1 DEF Now
<1>3. Now(p).item \in Item /\ Exists(Now(p).item)
  BY <1>1, NowIsJob DEF Busy, TypeInv, LockOK, Locked
<1>4. parent'[Now(p)'.item] = q
  BY <1>1, <1>2, <1>3 DEF Persist
<1> QED
  BY <1>2, <1>4 DEF InHand

\* What was told of an item's parts stays so while none of them is settled.
LEMMA AnswerKept ==
  ASSUME TypeInv, HeardInv, Persist, NEW E, Added(E), NEW q \in Item, OpenPart(q) \/ AllTold(q) \/ InHand(q),
         \A c \in Children(q) : status[c] = "open" => status'[c] = "open",
         \A e \in E : e.kind = "settles" => parent'[e.item] # q,
         InHand(q) => (OpenPart(q) \/ AllTold(q) \/ InHand(q))'
  PROVE  (OpenPart(q) \/ AllTold(q) \/ InHand(q))'
<1>1. CASE OpenPart(q)
  <2>1. PICK c \in Children(q) : status[c] = "open"
    BY <1>1 DEF OpenPart
  <2>2. c \in Item /\ Exists(c) /\ parent[c] = q /\ status'[c] = "open"
    BY <2>1 DEF Children
  <2>3. c \in Children(q)'
    BY <2>2 DEF Children, Persist
  <2> QED
    BY <2>2, <2>3 DEF OpenPart
<1>2. CASE AllTold(q)
  <2> SUFFICES ASSUME NEW l \in Of("settles")', parent'[log'[l].item] = q
               PROVE  \E n \in Told(q)' : n > l
    BY DEF AllTold
  <2>1. l \in Of("settles")
    BY OfIs
  <2>2. log'[l] = log[l] /\ parent'[log[l].item] = parent[log[l].item]
    BY <2>1, PartStays DEF HeardInv, Of
  <2>3. PICK n \in Told(q) : n > l
    BY <1>2, <2>1, <2>2 DEF AllTold
  <2> QED
    BY <2>3, ToldStays DEF HeardInv
<1> QED
  BY <1>1, <1>2

\* A step that has nothing to do with the parts of an item having settled.
Calm ==
  /\ mutex' = mutex /\ faults' = faults /\ Adds(EventKinds \ {"settled", "settles", "stops"})
  /\ \A i \in Item : status[i] = "open" => status'[i] = "open"
  /\ \A p \in Proc : mutex = p => call'[p] = call[p]

LEMMA CalmKeeps ==
  ASSUME TypeInv, TypeInv', HeardInv, Persist, Calm
  PROVE  HeardInv'
<1>1. PICK E : Added(E) /\ \A e \in E : e.kind \notin {"settled", "settles", "stops"}
  BY DEF Calm, Adds
<1>2. PartsOK' /\ HeardOnce' /\ HolderOK'
  BY <1>1, OnceKept, HolderKept DEF Calm
<1>3. NoticeOK'
  BY NoticeKept DEF Calm
<1>4. AnsweredOK'
  <2> SUFFICES ASSUME faults' = 0, NEW q \in Item  PROVE (OpenPart(q) \/ AllTold(q) \/ InHand(q))'
    BY DEF AnsweredOK
  <2>1. OpenPart(q) \/ AllTold(q) \/ InHand(q)
    BY DEF HeardInv, AnsweredOK, Calm
  <2>2. \A c \in Children(q) : status[c] = "open" => status'[c] = "open"
    BY DEF Calm, Children
  <2>3. InHand(q) => InHand(q)'
    BY InHandKept DEF Calm
  <2> QED
    BY <1>1, <2>1, <2>2, <2>3, AnswerKept
<1> QED
  BY <1>2, <1>3, <1>4 DEF HeardInv

\* A process that is not under the lock moves.
LEMMA Elsewhere ==
  ASSUME TypeInv, NEW r \in Proc, call[r].pc \notin Locked, call' = call \/ \E c : call' = [call EXCEPT ![r] = c]
  PROVE  \A p \in Proc : mutex = p => call'[p] = call[p]
  BY DEF TypeInv, LockOK, CallsOK

LEMMA CalmKinds ==
  ASSUME NEW K \in {{"reopened"}, {"attributed"}, {"copy", "refused"}, {"cancelled"}, {"message"}, ManagerKinds, PrimaryKinds}, Adds(K)
  PROVE  Adds(EventKinds \ {"settled", "settles", "stops"})
<1>1. K \subseteq EventKinds \ {"settled", "settles", "stops"}
  BY DEF EventKinds, ManagerKinds, PrimaryKinds, SpokenKinds
<1> QED
  BY <1>1, MoreKinds

LEMMA HandlerCalm ==
  ASSUME TypeInv, NEW p \in Proc, Reopen(p) \/ Attribute(p) \/ Copy(p) \/ StopExecutions(p)
  PROVE  Calm
<1>1. Adds(EventKinds \ {"settled", "settles", "stops"})
  BY ReopenAdds, AttributeAdds, CopyAdds, StopExecutionsAdds, CalmKinds
<1>2. mutex' = mutex /\ faults' = faults /\ call[p].pc \notin Locked
  BY DEF Reopen, Attribute, Copy, StopExecutions, At, Locked
<1>3. \E c : call' = [call EXCEPT ![p] = c]
  <2>1. CASE Reopen(p)
    BY <2>1 DEF Reopen
  <2>2. CASE Attribute(p)
    BY <2>2 DEF Attribute, Goto
  <2>3. CASE Copy(p)
    BY <2>3 DEF Copy, Proceeds
  <2>4. CASE StopExecutions(p)
    BY <2>4 DEF StopExecutions
  <2> QED
    BY <2>1, <2>2, <2>3, <2>4
<1>4. \A i \in Item : status[i] = "open" => status'[i] = "open"
  <2>1. CASE Reopen(p)
    BY <2>1 DEF Reopen, TypeInv, TreeOK
  <2>2. CASE ~Reopen(p)
    BY <2>2 DEF Attribute, Copy, StopExecutions
  <2> QED
    BY <2>1, <2>2
<1> QED
  BY <1>1, <1>2, <1>3, <1>4, Elsewhere DEF Calm

LEMMA OpensOne ==
  ASSUME TypeInv, status' = status \/ \E i \in Item : status' = [status EXCEPT ![i] = "open"]
  PROVE  \A i \in Item : status[i] = "open" => status'[i] = "open"
  BY DEF TypeInv, TreeOK

LEMMA AskCalm ==
  ASSUME TypeInv, NEW p \in Caller, Ask(p)
  PROVE  Calm
<1>1. Adds(EventKinds \ {"settled", "settles", "stops"})
  BY AskAdds, CalmKinds
<1>2. \/ (\E m, targets : Submit(p, m, targets)) \/ (\E m, i : Reattribute(p, m, i)) \/ (\E m : StartFromMessage(p, m))
      \/ (\E i, s : SetStatus(p, i, s)) \/ (\E i : Cancel(p, i))
  BY DEF Ask
<1>3. /\ p \in Proc /\ mutex' = mutex /\ faults' = faults /\ call[p].pc \notin Locked
      /\ \E c : call' = [call EXCEPT ![p] = c]
  BY <1>2 DEF Submit, Reattribute, StartFromMessage, SetStatus, Cancel, Called, At, Locked, Proc
<1>4. status' = status \/ (Free # {} /\ status' = [status EXCEPT ![Fresh] = "open"])
  BY <1>2 DEF Submit, Reattribute, StartFromMessage, SetStatus, Cancel, Creates
<1>5. status' = status \/ \E i \in Item : status' = [status EXCEPT ![i] = "open"]
  BY <1>4, FreshIsFree
<1> QED
  BY <1>1, <1>3, <1>5, Elsewhere, OpensOne DEF Calm

LEMMA ManagerCalm ==
  ASSUME TypeInv, NEW i \in Item, ManagerTurn(i) \/ ExecutionEnds(i)
  PROVE  Calm
<1>1. Adds(EventKinds \ {"settled", "settles", "stops"})
  BY ManagerAdds, CalmKinds
<1>2. /\ mutex' = mutex /\ faults' = faults
      /\ call' = call \/ (call[i].pc \notin Locked /\ \E c : call' = [call EXCEPT ![i] = c])
  BY DEF ManagerTurn, ManagerSkips, ManagerAcknowledges, ManagerBegins, Aborts, ManagerFallsBack, ManagerPhase,
         AttachAsks, ManagerReplies, Escalate, AnswerChild, Reroute, Records, Spawn, CreateChild, Done, ExecutionEnds, Quiet,
         Effect, Asks, On, At, Locked
<1>3. status' = status \/ (Free # {} /\ status' = [status EXCEPT ![Fresh] = "open"])
  BY DEF ManagerTurn, ManagerSkips, ManagerAcknowledges, ManagerBegins, Aborts, ManagerFallsBack, ManagerPhase,
         AttachAsks, ManagerReplies, Escalate, AnswerChild, Reroute, Records, Spawn, CreateChild, Done, ExecutionEnds, Quiet
<1>4. status' = status \/ \E j \in Item : status' = [status EXCEPT ![j] = "open"]
  BY <1>3, FreshIsFree
<1>5. \A p \in Proc : mutex = p => call'[p] = call[p]
  BY <1>2, Elsewhere DEF Proc
<1> QED
  BY <1>1, <1>2, <1>4, <1>5, OpensOne DEF Calm

LEMMA PrimaryCalm ==
  ASSUME TypeInv, PrimaryTurn
  PROVE  Calm
<1>1. Adds(EventKinds \ {"settled", "settles", "stops"})
  BY PrimaryAdds, CalmKinds
<1>2. ASSUME NEW n, PrimaryActs(n)
      PROVE  /\ mutex' = mutex /\ faults' = faults
             /\ call' = call \/ (call[Primary].pc \notin Locked /\ \E c : call' = [call EXCEPT ![Primary] = c])
             /\ status' = status \/ (Free # {} /\ status' = [status EXCEPT ![Fresh] = "open"])
  BY <1>2 DEF PrimaryActs, Recall, AskWhich, CreateRefused, PrimaryReplies, Create, CreateDeferred, Creates, Route,
              SetStatusOf, CancelOf, ConfirmOnly, Quiet, Does, Effect, Asks, On, At, Locked
<1>3. /\ mutex' = mutex /\ faults' = faults
      /\ call' = call \/ (call[Primary].pc \notin Locked /\ \E c : call' = [call EXCEPT ![Primary] = c])
      /\ status' = status \/ (Free # {} /\ status' = [status EXCEPT ![Fresh] = "open"])
  BY <1>2 DEF PrimaryTurn, PrimaryBegins, Aborts, PrimaryFallsBack, PrimaryDecides, Flush, PrimaryEnds, Quiet
<1>4. status' = status \/ \E j \in Item : status' = [status EXCEPT ![j] = "open"]
  BY <1>3, FreshIsFree
<1>5. \A p \in Proc : mutex = p => call'[p] = call[p]
  BY <1>3, Elsewhere DEF Proc
<1> QED
  BY <1>1, <1>3, <1>4, <1>5, OpensOne DEF Calm

LEMMA CallFailsHeard ==
  ASSUME TypeInv, TypeInv', HeardInv, Persist, NEW p \in Proc, CallFails(p)
  PROVE  HeardInv'
<1>1. Added({})
  BY AddedNone DEF CallFails, TypeInv, LogOK
<1>2. \A q \in Proc : mutex' = q => mutex = q /\ call'[q] = call[q]
  BY NoneIsNobody DEF CallFails, TypeInv, CallsOK
<1>3. PartsOK' /\ HeardOnce' /\ HolderOK' /\ NoticeOK'
  BY <1>1, <1>2, OnceKept, HolderKept, NoticeKept
<1>4. AnsweredOK'
  BY DEF CallFails, AnsweredOK, TypeInv, TreeOK
<1> QED
  BY <1>3, <1>4 DEF HeardInv

LEMMA ClosePartHeard ==
  ASSUME TypeInv, TypeInv', HeardInv, Persist, NEW p \in Proc, ClosePart(p)
  PROVE  HeardInv'
<1>1. PICK i \in Item : i = Now(p).item /\ Exists(i)
  BY NowIsJob DEF ClosePart, At, Busy
<1>2. PICK e : e = Event("stops", None, i, None) /\ OneMore(e)
  BY <1>1, RecordsOne DEF ClosePart
<1>3. e.kind = "stops" /\ e.item = i /\ Added({e})
  BY <1>2 DEF Event, OneMore
<1>4. mutex' = mutex /\ \A q \in Proc : mutex = q => call'[q] = call[q]
  BY Elsewhere DEF ClosePart, At, Locked, Proceeds
<1>5. PartsOK' /\ HeardOnce' /\ HolderOK' /\ NoticeOK'
  <2>1. (\A x \in {e} : x.kind # "settled") /\ \A x \in {e} : x.kind \in {"settles", "stops"} => x.item \in Item
    BY <1>3
  <2> QED
    BY <1>3, <1>4, <2>1, OnceKept, HolderKept, NoticeKept
<1>6. AnsweredOK'
  <2> SUFFICES ASSUME faults' = 0, NEW q \in Item  PROVE (OpenPart(q) \/ AllTold(q) \/ InHand(q))'
    BY DEF AnsweredOK
  <2>1. OpenPart(q) \/ AllTold(q) \/ InHand(q)
    BY DEF HeardInv, AnsweredOK, ClosePart
  <2>2. CASE parent[i] = q
    <3>1. Len(log) + 1 \in Told(q)'
      BY <1>1, <1>2, <1>3, <2>2 DEF Told, OneMore, Added, Persist
    <3>2. \A l \in Of("settles")' : Len(log) + 1 > l
      <4>1. (\A l \in Of("settles")' : l < Len(log) + 1) /\ Len(log) \in Nat /\ Of("settles")' \subseteq Int
        BY <1>3, OthersEarlier, OfIs DEF Added
      <4> QED
        BY <4>1
    <3> QED
      BY <3>1, <3>2 DEF AllTold
  <2>3. CASE parent[i] # q
    <3>1. \A c \in Children(q) : status[c] = "open" => status'[c] = "open"
      BY <1>1, <2>3 DEF Children, ClosePart, TypeInv, TreeOK
    <3>2. InHand(q) => InHand(q)'
      BY <1>4, InHandKept
    <3>3. \A x \in {e} : x.kind = "settles" => parent'[x.item] # q
      BY <1>3
    <3> QED
      BY <1>3, <2>1, <3>1, <3>2, <3>3, AnswerKept
  <2> QED
    BY <2>2, <2>3
<1> QED
  BY <1>5, <1>6 DEF HeardInv

LEMMA ChangeRowHeard ==
  ASSUME TypeInv, TypeInv', HeardInv, Persist, NEW p \in Proc, ChangeRow(p)
  PROVE  HeardInv'
<1>1. PICK i \in Item : i = Now(p).item /\ Exists(i)
  BY NowIsJob DEF ChangeRow, At, Busy
<1>2. PICK want \in Statuses : want = call[p].want
  BY DEF TypeInv, CallsOK, CallOK
<1>3. PICK e : /\ e = [Event(IF want = "open" THEN "reopened" ELSE "settles", None, i, None) EXCEPT !.re = call[p].re]
               /\ OneMore(e)
  BY <1>1, <1>2, RecordsOne DEF ChangeRow
<1>4. e.kind = (IF want = "open" THEN "reopened" ELSE "settles") /\ e.item = i /\ Added({e})
  BY <1>3 DEF Event, OneMore
<1>5. /\ mutex = None /\ mutex' = p /\ call'[p].want = want /\ Now(p)' = Now(p) /\ call'[p].pc = "siblings"
      /\ status' = [status EXCEPT ![i] = want]
  BY <1>1, <1>2 DEF ChangeRow, Goto, Now, TypeInv, CallsOK, CallOK
<1>6. PartsOK' /\ HeardOnce'
  <2>1. (\A x \in {e} : x.kind # "settled") /\ \A x \in {e} : x.kind \in {"settles", "stops"} => x.item \in Item
    BY <1>4
  <2> QED
    BY <1>4, <2>1, OnceKept
<1>7. HolderOK'
  <2> SUFFICES ASSUME want # "open"
               PROVE  \E l \in Of("settles")' : log'[l].item = i /\ \A n \in Of("settled")' : n < l
    BY <1>1, <1>5 DEF HolderOK
  <2>1. Len(log) + 1 \in Of("settles")' /\ log'[Len(log) + 1].item = i
    <3>1. Len(log) + 1 \in DOMAIN log' /\ log'[Len(log) + 1] = e
      BY <1>3 DEF OneMore, Added
    <3>2. e.kind = "settles" /\ e.item = i
      BY <1>4
    <3> QED
      BY <3>1, <3>2 DEF Of
  <2>2. \A n \in Of("settled")' : n < Len(log) + 1
    BY <1>4, OthersEarlier
  <2> QED
    BY <2>1, <2>2
<1>8. NoticeOK'
  BY <1>5 DEF NoticeOK, TypeInv, LockOK, Locked
<1>9. AnsweredOK'
  <2> SUFFICES ASSUME faults' = 0, NEW q \in Item  PROVE (OpenPart(q) \/ AllTold(q) \/ InHand(q))'
    BY DEF AnsweredOK
  <2>1. OpenPart(q) \/ AllTold(q) \/ InHand(q)
    BY DEF HeardInv, AnsweredOK, ChangeRow
  <2>2. CASE parent[i] = q /\ want = "open"
    <3>1. i \in Children(q)' /\ status'[i] = "open"
      BY <1>1, <1>5, <2>2 DEF Children, Persist, TypeInv, TreeOK
    <3> QED
      BY <3>1 DEF OpenPart
  <2>3. CASE parent[i] = q /\ want # "open"
    <3>1. parent'[Now(p)'.item] = q
      BY <1>1, <1>5, <2>3 DEF Persist
    <3> QED
      BY <1>5, <2>3, <3>1 DEF InHand
  <2>4. CASE parent[i] # q
    <3>1. \A c \in Children(q) : status[c] = "open" => status'[c] = "open"
      BY <1>1, <1>5, <2>4 DEF Children, TypeInv, TreeOK
    <3>2. ~InHand(q)
      BY <1>5, NoneIsNobody DEF InHand
    <3>3. \A x \in {e} : x.kind = "settles" => parent'[x.item] # q
      BY <1>1, <1>4, <2>4 DEF Persist
    <3> QED
      BY <1>4, <2>1, <3>1, <3>2, <3>3, AnswerKept
  <2> QED
    BY <2>2, <2>3, <2>4
<1> QED
  BY <1>6, <1>7, <1>8, <1>9 DEF HeardInv

LEMMA SiblingsHeard ==
  ASSUME TypeInv, TypeInv', HeardInv, Persist, NEW p \in Proc, Siblings(p)
  PROVE  HeardInv'
<1>1. PICK i \in Item : i = Now(p).item /\ Exists(i)
  BY NowIsJob DEF Siblings, At, Busy
<1>2. Added({}) /\ log' = log /\ UNCHANGED <<parent, status, faults>>
  BY AddedNone DEF Siblings, TypeInv, LogOK
<1>3. mutex = p
  BY DEF Siblings, At, TypeInv, LockOK, Locked
<1>4. CASE call[p].want # "open" /\ parent[i] # None /\ Settled(i)
  <2>1. mutex' = mutex /\ Goto(p, "notify")
    BY <1>1, <1>4 DEF Siblings
  <2>2. call'[p].want = call[p].want /\ call'[p].todo = call[p].todo /\ Now(p)' = Now(p)
    BY <2>1 DEF Goto, Now, TypeInv, CallsOK, CallOK
  <2>3. \A q \in Proc : mutex' = q => mutex = q /\ call'[q].want = call[q].want /\ call'[q].todo = call[q].todo
    BY <1>3, <2>1, <2>2
  <2>4. PartsOK' /\ HeardOnce' /\ HolderOK'
    BY <1>2, <2>3, OnceKept, HolderKept
  <2>5. NoticeOK'
    <3> SUFFICES ASSUME NEW q \in Proc, call'[q].pc = "notify"  PROVE call'[q].want # "open" /\ parent'[Now(q)'.item] # None
      BY DEF NoticeOK
    <3>1. q = p
      BY <1>3, <2>1 DEF TypeInv, LockOK, Locked
    <3> QED
      BY <1>1, <1>2, <1>4, <2>2, <3>1
  <2>6. AnsweredOK'
    <3> SUFFICES ASSUME faults' = 0, NEW q \in Item  PROVE (OpenPart(q) \/ AllTold(q) \/ InHand(q))'
      BY DEF AnsweredOK
    <3>1. OpenPart(q) \/ AllTold(q) \/ InHand(q)
      BY <1>2 DEF HeardInv, AnsweredOK
    <3>2. InHand(q) => InHand(q)'
      BY <2>1, <2>3, InHandKept
    <3> QED
      BY <1>2, <3>1, <3>2, AnswerKept
  <2> QED
    BY <2>4, <2>5, <2>6 DEF HeardInv
<1>5. CASE ~(call[p].want # "open" /\ parent[i] # None /\ Settled(i))
  <2>1. mutex' = None
    BY <1>1, <1>5 DEF Siblings
  <2>2. PartsOK' /\ HeardOnce' /\ HolderOK' /\ NoticeOK'
    BY <1>2, <2>1, NoneIsNobody, OnceKept, HolderKept, NoticeKept
  <2>3. AnsweredOK'
    <3> SUFFICES ASSUME faults' = 0, NEW q \in Item  PROVE (OpenPart(q) \/ AllTold(q) \/ InHand(q))'
      BY DEF AnsweredOK
    <3>1. OpenPart(q) \/ AllTold(q) \/ InHand(q)
      BY <1>2 DEF HeardInv, AnsweredOK
    <3>2. InHand(q) => OpenPart(q)'
      <4> SUFFICES ASSUME call[p].want # "open", parent[i] = q  PROVE OpenPart(q)'
        BY <1>1, <1>3 DEF InHand
      <4>1. ~Settled(i)
        BY <1>5, NoneIsNobody
      <4> QED
        BY <1>2, <4>1 DEF Settled, OpenPart, Children, Exists
    <3> QED
      BY <1>2, <3>1, <3>2, AnswerKept
  <2> QED
    BY <2>2, <2>3 DEF HeardInv
<1> QED
  BY <1>4, <1>5

LEMMA NotifyParentHeard ==
  ASSUME TypeInv, TypeInv', HeardInv, Persist, NEW p \in Proc, NotifyParent(p)
  PROVE  HeardInv'
<1>1. PICK i \in Item : i = Now(p).item /\ Exists(i)
  BY NowIsJob DEF NotifyParent, At, Busy
<1>2. PICK up : up = parent[i]
  OBVIOUS
<1>3. PICK e : /\ e = [Event("settled", up, up, None) EXCEPT !.hop = call[p].hop + 1]
               /\ Post(e)
  BY <1>1, <1>2 DEF NotifyParent
<1>4. PICK x : OneMore(x) /\ (x = e \/ Refusal(x, e))
  BY <1>3, PostsOne
<1>5. x.kind \in {"settled", "refused"} /\ x.item = up /\ Added({x})
  BY <1>3, <1>4 DEF Event, OneMore, Refusal
<1>6. mutex = p /\ mutex' = None /\ call[p].want # "open" /\ UNCHANGED <<parent, status, faults>>
  BY DEF NotifyParent, At, TypeInv, LockOK, Locked, HeardInv, NoticeOK
<1>7. PartsOK'
  BY <1>5 DEF HeardInv, PartsOK, Added
<1>8. HolderOK' /\ NoticeOK'
  BY <1>6, NoneIsNobody, NoticeKept DEF HolderOK
<1>9. HeardOnce'
  <2> SUFFICES ASSUME NEW n \in Of("settled")', NEW k \in Of("settled")', n < k, log'[n].item = log'[k].item
               PROVE  \E l \in Of("settles")' : l \in n..k /\ parent'[log'[l].item] = log'[n].item
    BY DEF HeardOnce
  <2>1. n \in Of("settled") /\ log'[n] = log[n]
    BY <1>4, <1>5, OfIs DEF OneMore, Added, Of
  <2>2. \A l \in Of("settles") : l \in DOMAIN log /\ l \in Nat /\ l \in Of("settles")' /\ parent'[log'[l].item] = parent[log[l].item]
    BY <1>5, OfIs, PartStays DEF Of, HeardInv
  <2>3. n \in Int /\ k \in Int
    BY <1>5, OfIs
  <2>4. CASE k \in Of("settled")
    <3>1. log'[k] = log[k]
      BY <1>5, <2>4 DEF Of, Added
    <3>2. PICK l \in Of("settles") : l \in n..k /\ parent[log[l].item] = log[n].item
      BY <2>1, <2>4, <3>1 DEF HeardInv, HeardOnce
    <3> QED
      BY <2>1, <2>2, <3>2
  <2>5. CASE k \notin Of("settled")
    <3>1. k > Len(log) /\ log'[k] = x
      BY <1>5, <2>5, OfIs
    <3>2. PICK l \in Of("settles") : log[l].item = i /\ \A m \in Of("settled") : m < l
      BY <1>1, <1>6 DEF HeardInv, HolderOK
    <3>3. n < l /\ l <= Len(log) /\ Len(log) \in Nat
      BY <1>5, <2>1, <3>2, OfIs DEF Added
    <3>4. l \in n..k
      BY <2>2, <2>3, <3>1, <3>3
    <3> QED
      BY <1>2, <1>5, <2>2, <3>1, <3>2, <3>4
  <2> QED
    BY <2>4, <2>5
<1>10. AnsweredOK'
  <2> SUFFICES ASSUME faults' = 0, NEW q \in Item  PROVE (OpenPart(q) \/ AllTold(q) \/ InHand(q))'
    BY DEF AnsweredOK
  <2>1. OpenPart(q) \/ AllTold(q) \/ InHand(q)
    BY <1>6 DEF HeardInv, AnsweredOK
  <2>2. InHand(q) => AllTold(q)'
    <3> SUFFICES ASSUME up = q  PROVE AllTold(q)'
      BY <1>1, <1>2, <1>6 DEF InHand
    <3>1. Len(log) + 1 \in Told(q)'
      BY <1>4, <1>5 DEF Told, OneMore, Added
    <3>2. \A l \in Of("settles")' : Len(log) + 1 > l
      <4>1. (\A l \in Of("settles")' : l < Len(log) + 1) /\ Len(log) \in Nat /\ Of("settles")' \subseteq Int
        BY <1>5, OthersEarlier, OfIs DEF Added
      <4> QED
        BY <4>1
    <3> QED
      BY <3>1, <3>2 DEF AllTold
  <2> QED
    BY <1>5, <1>6, <2>1, <2>2, AnswerKept
<1> QED
  BY <1>7, <1>8, <1>9, <1>10 DEF HeardInv

LEMMA NextHeard == TypeInv /\ TypeInv' /\ HeardInv /\ [Next]_vars => HeardInv'
<1> SUFFICES ASSUME TypeInv, TypeInv', HeardInv, [Next]_vars  PROVE HeardInv'
  OBVIOUS
<1>1. Persist
  BY NextPersists
<1>2. ASSUME NEW p \in Proc, Step(p)  PROVE HeardInv'
  BY <1>1, <1>2, HandlerCalm, CalmKeeps, ClosePartHeard, ChangeRowHeard, SiblingsHeard, NotifyParentHeard DEF Step
<1>3. ASSUME NEW p \in Caller, Ask(p) \/ CallFails(p)  PROVE HeardInv'
  BY <1>1, <1>3, AskCalm, CalmKeeps, CallFailsHeard DEF Proc
<1>4. ASSUME NEW i \in Item, ManagerTurn(i) \/ ExecutionEnds(i)  PROVE HeardInv'
  BY <1>1, <1>4, ManagerCalm, CalmKeeps
<1>5. CASE PrimaryTurn
  BY <1>1, <1>5, PrimaryCalm, CalmKeeps
<1>6. CASE UNCHANGED vars
  <2>1. /\ log' = log /\ mutex' = mutex /\ faults' = faults /\ status' = status /\ call' = call
    BY <1>6 DEF vars, treeVars
  <2>2. Calm
    BY <2>1, NoneAdds DEF Calm
  <2> QED
    BY <1>1, <2>2, CalmKeeps
<1> QED
  BY <1>2, <1>3, <1>4, <1>5, <1>6 DEF Next

\* Every settling that nothing follows is told of when nobody holds the lock.
LEMMA AnsweredIsHeard ==
  ASSUME TypeInv, HeardInv
  PROVE  SettledIsHeard
<1> SUFFICES ASSUME mutex = None, faults = 0, NEW p \in Item, Children(p) # {}, \A c \in Children(p) : status[c] # "open",
                    {n \in Of("settles") : parent[log[n].item] = p} # {}
             PROVE  \E n \in {k \in Of("settled") \cup Of("refused") : log[k].item = p} \cup {k \in Of("stops") : parent[log[k].item] = p} :
                       n > MaxOf({k \in Of("settles") : parent[log[k].item] = p})
  BY DEF SettledIsHeard
<1> DEFINE S == {n \in Of("settles") : parent[log[n].item] = p}
<1>1. AllTold(p)
  BY NoneIsNobody DEF HeardInv, AnsweredOK, OpenPart, InHand
<1>2. MaxOf(S) \in S
  <2>1. Len(log) \in Nat /\ DOMAIN log = 1..Len(log)
    BY DEF TypeInv, LogOK, IsLog
  <2>2. S \in SUBSET (0..Len(log))
    BY <2>1 DEF Of
  <2> HIDE DEF S
  <2> QED
    BY <2>1, <2>2, MaxOfIsLast DEF S
<1>3. PICK n \in Told(p) : n > MaxOf(S)
  BY <1>1, <1>2 DEF AllTold
<1>4. n \in {k \in Of("settled") \cup Of("refused") : log[k].item = p} \cup {k \in Of("stops") : parent[log[k].item] = p}
  BY <1>3 DEF Told, Of
<1> QED
  BY <1>3, <1>4

-----------------------------------------------------------------------------
(* What a turn says of the messages it read *)

\* What it answers is behind the cursor of its author.
Past(e, a) == \E x \in e.re : x <= read[a]

\* A Manager that asked to close its item, that was refused a dispatch, and the Primary
\* at its replies: each is at the end of the turn, or the turn is over.
SettlesOK(e) == e.item \in Item /\ (Past(e, e.item) \/ (turn[e.item].pc = "done" /\ e.re = Batch(e.item)))
RefusalOK(e) ==
  /\ e.item \in Item /\ \A x \in e.re : x \in DOMAIN log /\ log[x].box = e.item
  /\ Past(e, e.item) \/ (turn[e.item].pc = "work" /\ turn[e.item].refused /\ e.re = Batch(e.item))
AnswerOK(e) ==
  \/ Past(e, Primary)
  \/ turn[Primary].pc = "reply" /\ \E m \in Batch(Primary) : e.re = {m} /\ (e.kind = "confirm" => m \in turn[Primary].confirmed)

BySettling(e) == e.kind = "settles" /\ e.re # {}
ByRefusal(e) == e.kind = "escalation" /\ e.re # {} /\ e.item # None
ByPrimary(e) == e.kind = "confirm" \/ (e.kind = "reply" /\ e.item = None)
SaidOK(e) ==
  /\ BySettling(e) => SettlesOK(e)
  /\ ByRefusal(e) => RefusalOK(e)
  /\ ByPrimary(e) => AnswerOK(e)

\* What may follow what.
PairOK(e, f) ==
  /\ BySettling(e) /\ f.kind = "reply" /\ f.item = e.item => f.re # e.re
  /\ ByRefusal(e) /\ f.kind = "reply" => f.re # e.re
  /\ ByPrimary(e) /\ ByPrimary(f) /\ "confirm" \in {e.kind, f.kind} => f.re # e.re
Pairs == \A n, k \in DOMAIN log : n < k => PairOK(log[n], log[k])

\* A call that closes an item on account of its Manager's turn, which waits for it.
Words(c) == c.pc \in {"lock", "siblings", "notify"} /\ c.re # {}
SayOK(p) ==
  Words(call[p]) => /\ p \in Item /\ Len(call[p].todo) = 1 /\ Now(p).item = p
                    /\ turn[p].pc = "done" /\ call[p].re = Batch(p)

MarksOK(a) == (turn[a].refused => turn[a].spawned) /\ turn[a].confirmed \subseteq turn[a].covered

LogSays == \A e \in {log[n] : n \in DOMAIN log} : SaidOK(e)
CallsSay == \A p \in Proc : SayOK(p)
MarksSay == \A a \in Agent : MarksOK(a)
SaidInv == LogSays /\ Pairs /\ CallsSay /\ MarksSay

LEMMA SaidInit == Init => SaidInv
<1> SUFFICES ASSUME Init  PROVE SaidInv
  OBVIOUS
<1>1. DOMAIN log = {} /\ (\A p \in Proc : call[p] = Idle) /\ \A a \in Agent : turn[a] = NoTurn
  BY DEF Init, TreeInit
<1>2. ~Words(Idle)
  BY DEF Words, Idle
<1>3. \A a \in Agent : MarksOK(a)
  BY <1>1 DEF MarksOK, NoTurn
<1> QED
  BY <1>1, <1>2, <1>3 DEF SaidInv, LogSays, Pairs, CallsSay, SayOK, MarksSay

\* A turn that is at its end stays there or is over.
AtEnd(a) == \/ turn[a].pc = "done" \/ (turn[a].pc = "work" /\ turn[a].refused)
            \/ a = Primary /\ turn[a].pc = "reply"
Stays(a) == /\ turn'[a].pc = turn[a].pc /\ turn'[a].batch = turn[a].batch /\ turn'[a].refused = turn[a].refused
            /\ turn[a].confirmed \subseteq turn'[a].confirmed
TurnKeeps(a) == read[a] <= read'[a] /\ (AtEnd(a) => Stays(a) \/ \A x \in Batch(a) : x <= read'[a])

LEMMA PastStays ==
  ASSUME TypeInv, TypeInv', NEW e, e.re \subseteq 1..Len(log), NEW a \in Agent, read[a] <= read'[a], Past(e, a)
  PROVE  Past(e, a)'
<1>1. PICK x \in e.re : x <= read[a]
  BY DEF Past
<1>2. x \in Int /\ read[a] \in Int /\ read'[a] \in Int
  BY <1>1 DEF TypeInv, TurnsOK, TurnOK
<1>3. x <= read'[a]
  BY <1>1, <1>2
<1> QED
  BY <1>1, <1>3 DEF Past

LEMMA SaidStays ==
  ASSUME TypeInv, TypeInv', NEW E, Added(E), NEW e, EventOK(e), SaidOK(e), \A a \in Agent : TurnKeeps(a)
  PROVE  SaidOK(e)'
<1>1. e.re \subseteq 1..Len(log) /\ Item \subseteq Agent /\ Primary \in Agent
  BY DEF EventOK, Agent
<1>2. \A a \in Agent : Past(e, a) => Past(e, a)'
  BY <1>1, PastStays DEF TurnKeeps
<1>3. \A a \in Agent : (\A x \in Batch(a) : x <= read'[a]) /\ e.re # {} /\ e.re \subseteq Batch(a) => Past(e, a)'
  BY DEF Past
<1>4. ASSUME BySettling(e)  PROVE SettlesOK(e)'
  <2>1. e.item \in Item /\ (Past(e, e.item) \/ (turn[e.item].pc = "done" /\ e.re = Batch(e.item))) /\ e.re # {}
    BY <1>4 DEF SaidOK, SettlesOK, BySettling
  <2>2. CASE turn[e.item].pc = "done" /\ e.re = Batch(e.item)
    <3>1. Stays(e.item) \/ \A x \in Batch(e.item) : x <= read'[e.item]
      BY <1>1, <2>1, <2>2 DEF TurnKeeps, AtEnd
    <3>2. ASSUME Stays(e.item)  PROVE turn'[e.item].pc = "done" /\ e.re = Batch(e.item)'
      BY <2>2, <3>2 DEF Stays, Batch
    <3> QED
      BY <1>1, <1>3, <2>1, <2>2, <3>1, <3>2 DEF SettlesOK
  <2> QED
    BY <1>1, <1>2, <2>1, <2>2 DEF SettlesOK
<1>5. ASSUME ByRefusal(e)  PROVE RefusalOK(e)'
  <2>1. /\ e.item \in Item /\ \A x \in e.re : x \in DOMAIN log /\ log[x].box = e.item
        /\ Past(e, e.item) \/ (turn[e.item].pc = "work" /\ turn[e.item].refused /\ e.re = Batch(e.item))
        /\ e.re # {}
    BY <1>5 DEF SaidOK, RefusalOK, ByRefusal
  <2>2. \A x \in e.re : x \in DOMAIN log' /\ log'[x].box = e.item
    BY <2>1 DEF Added
  <2>3. CASE turn[e.item].pc = "work" /\ turn[e.item].refused /\ e.re = Batch(e.item)
    <3>1. Stays(e.item) \/ \A x \in Batch(e.item) : x <= read'[e.item]
      BY <1>1, <2>1, <2>3 DEF TurnKeeps, AtEnd
    <3>2. ASSUME Stays(e.item)  PROVE turn'[e.item].pc = "work" /\ turn'[e.item].refused /\ e.re = Batch(e.item)'
      BY <2>3, <3>2 DEF Stays, Batch
    <3> QED
      BY <1>1, <1>3, <2>1, <2>2, <2>3, <3>1, <3>2 DEF RefusalOK
  <2> QED
    BY <1>1, <1>2, <2>1, <2>2, <2>3 DEF RefusalOK
<1>6. ASSUME ByPrimary(e)  PROVE AnswerOK(e)'
  <2>1. CASE Past(e, Primary)
    BY <1>1, <1>2, <2>1 DEF AnswerOK
  <2>2. CASE ~Past(e, Primary)
    <3>1. turn[Primary].pc = "reply"
      BY <1>6, <2>2 DEF SaidOK, AnswerOK
    <3>2. PICK m \in Batch(Primary) : e.re = {m} /\ (e.kind = "confirm" => m \in turn[Primary].confirmed)
      BY <1>6, <2>2 DEF SaidOK, AnswerOK
    <3>3. Stays(Primary) \/ \A x \in Batch(Primary) : x <= read'[Primary]
      BY <1>1, <3>1 DEF TurnKeeps, AtEnd
    <3>4. ASSUME Stays(Primary)  PROVE turn'[Primary].pc = "reply" /\ m \in Batch(Primary)' /\ (e.kind = "confirm" => m \in turn'[Primary].confirmed)
      BY <3>1, <3>2, <3>4 DEF Stays, Batch
    <3> QED
      BY <1>1, <1>3, <3>2, <3>3, <3>4 DEF AnswerOK
  <2> QED
    BY <2>1, <2>2
<1> QED
  BY <1>4, <1>5, <1>6 DEF SaidOK

\* The log goes on saying what may be said.
LEMMA LogStaysSaid ==
  ASSUME TypeInv, TypeInv', LogSays, Pairs, \A a \in Agent : TurnKeeps(a), NEW E, Added(E), \A e \in E : SaidOK(e)',
         \A n \in DOMAIN log : \A e \in E : PairOK(log[n], e),
         \A n, k \in DOMAIN log' : n \notin DOMAIN log /\ k \notin DOMAIN log /\ n < k => PairOK(log'[n], log'[k])
  PROVE  LogSays' /\ Pairs'
<1>1. \A n \in DOMAIN log : log'[n] = log[n] /\ n \in DOMAIN log'
  BY DEF Added
<1>2. \A n \in DOMAIN log' : n \notin DOMAIN log => log'[n] \in E
  BY DEF Added
<1>3. LogSays'
  <2> SUFFICES ASSUME NEW e, NEW n \in DOMAIN log', e = log'[n]  PROVE SaidOK(e)'
    BY DEF LogSays
  <2>1. CASE n \in DOMAIN log
    <3>1. e = log[n] /\ SaidOK(e) /\ EventOK(e)
      BY <1>1, <2>1 DEF LogSays, TypeInv, LogOK
    <3> QED
      BY <3>1, SaidStays
  <2>2. CASE n \notin DOMAIN log
    BY <1>2, <2>2
  <2> QED
    BY <2>1, <2>2
<1>4. Pairs'
  <2> SUFFICES ASSUME NEW n \in DOMAIN log', NEW k \in DOMAIN log', n < k  PROVE PairOK(log'[n], log'[k])
    BY DEF Pairs, PairOK, BySettling, ByRefusal, ByPrimary
  <2>1. CASE k \in DOMAIN log
    <3>1. n \in DOMAIN log
      BY <2>1 DEF Added
    <3> QED
      BY <1>1, <2>1, <3>1 DEF Pairs
  <2>2. CASE k \notin DOMAIN log /\ n \in DOMAIN log
    BY <1>1, <1>2, <2>2
  <2>3. CASE k \notin DOMAIN log /\ n \notin DOMAIN log
    BY <2>3
  <2> QED
    BY <2>1, <2>2, <2>3
<1> QED
  BY <1>3, <1>4

\* Events that say nothing of what a turn read.
Plain(e) == ~BySettling(e) /\ ~ByRefusal(e) /\ ~ByPrimary(e) /\ e.kind # "reply"

LEMMA PlainSaid ==
  ASSUME TypeInv, TypeInv', LogSays, Pairs, \A a \in Agent : TurnKeeps(a), NEW E, Added(E), \A e \in E : Plain(e)
  PROVE  LogSays' /\ Pairs'
<1>1. \A e \in E : SaidOK(e)'
  <2>1. \A e : Plain(e) => SaidOK(e)'
    BY DEF Plain, SaidOK, BySettling, ByRefusal, ByPrimary
  <2> QED
    BY <2>1
<1>2. \A d, e : Plain(e) => PairOK(d, e)
  BY DEF Plain, PairOK
<1>3. \A k \in DOMAIN log' : k \notin DOMAIN log => log'[k] \in E
  BY DEF Added
<1> QED
  BY <1>1, <1>2, <1>3, LogStaysSaid

LEMMA OneSaid ==
  ASSUME TypeInv, TypeInv', LogSays, Pairs, \A a \in Agent : TurnKeeps(a), NEW e, OneMore(e), SaidOK(e)',
         \A n \in DOMAIN log : PairOK(log[n], e)
  PROVE  LogSays' /\ Pairs'
<1>1. Added({e}) /\ \A x \in {e} : SaidOK(x)'
  BY DEF OneMore
<1>2. \A n, k \in DOMAIN log' : n \notin DOMAIN log /\ k \notin DOMAIN log /\ n < k => PairOK(log'[n], log'[k])
  <2>1. DOMAIN log = 1..Len(log) /\ DOMAIN log' = 1..(Len(log) + 1) /\ Len(log) \in Nat
    BY DEF OneMore, Added
  <2> QED
    BY <2>1
<1>3. \A n \in DOMAIN log : \A x \in {e} : PairOK(log[n], x)
  OBVIOUS
<1> QED
  BY <1>1, <1>2, <1>3, LogStaysSaid

\* The other turns rest while one moves.
Moves(a) == \A b \in Agent : b # a => turn'[b] = turn[b] /\ read'[b] = read[b]

LEMMA BecomesMoves ==
  ASSUME TypeInv, NEW a \in Agent, NEW t, NEW r, Becomes(a, t, r)
  PROVE  Moves(a) /\ turn'[a] = t /\ read'[a] = r
  BY DEF TypeInv, TurnsOK, Becomes, Moves

LEMMA TurnsKeep ==
  ASSUME TypeInv, SaidInv, NEW a \in Agent, Moves(a), TurnKeeps(a), MarksOK(a)'
  PROVE  (\A b \in Agent : TurnKeeps(b)) /\ MarksSay'
<1>1. ASSUME NEW b \in Agent, b # a  PROVE TurnKeeps(b) /\ MarksOK(b)'
  <2>1. turn'[b] = turn[b] /\ read'[b] = read[b] /\ read[b] \in Int
    BY <1>1 DEF Moves, TypeInv, TurnsOK, TurnOK
  <2>2. MarksOK(b)
    BY DEF SaidInv, MarksSay
  <2> QED
    BY <2>1, <2>2 DEF TurnKeeps, Stays, MarksOK
<1> QED
  BY <1>1 DEF MarksSay

LEMMA SameTurnsKeep ==
  ASSUME TypeInv, SaidInv, UNCHANGED <<turn, read>>
  PROVE  (\A b \in Agent : TurnKeeps(b)) /\ MarksSay'
<1>1. \A b \in Agent : read[b] \in Int
  BY DEF TypeInv, TurnsOK, TurnOK
<1> QED
  BY <1>1 DEF TurnKeeps, Stays, SaidInv, MarksSay, MarksOK

\* A turn that is over has nothing marked.
LEMMA NoMarks ==
  ASSUME NEW a \in Agent, turn'[a] = NoTurn
  PROVE  MarksOK(a)'
  BY DEF MarksOK, NoTurn

LEMMA ConsumesSays ==
  ASSUME TypeInv, SaidInv, NEW a \in Agent, On(a, "idle"), Unread(a) # {}, Consumes(a, Unread(a))
  PROVE  /\ (\A b \in Agent : TurnKeeps(b)) /\ MarksSay' /\ turn' = turn
         /\ \A S : S \subseteq Unread(a) /\ S # {} => \E x \in S : x <= read'[a]
<1>1. PICK r : r = MaxOf(Unread(a))
  OBVIOUS
<1>2. r \in Unread(a) /\ (\A n \in Unread(a) : n <= r) /\ read[a] < r /\ r \in Int
  BY <1>1, UnreadIs
<1>3. turn' = turn /\ read'[a] = r /\ \A b \in Agent : b # a => read'[b] = read[b]
  BY <1>1 DEF Consumes, TypeInv, TurnsOK
<1>4. read[a] \in Int
  BY DEF TypeInv, TurnsOK, TurnOK
<1>5. TurnKeeps(a)
  BY <1>2, <1>3, <1>4 DEF TurnKeeps, AtEnd, On
<1>6. Moves(a) /\ MarksOK(a)'
  BY <1>3 DEF Moves, MarksOK, SaidInv, MarksSay
<1> QED
  BY <1>2, <1>3, <1>5, <1>6, TurnsKeep

LEMMA EndsSays ==
  ASSUME TypeInv, SaidInv, NEW a \in Agent, turn[a].pc # "idle", Ends(a)
  PROVE  /\ (\A b \in Agent : TurnKeeps(b)) /\ MarksSay' /\ Moves(a)
         /\ \A x \in Batch(a) : x <= read'[a]
<1>1. turn'[a] = NoTurn /\ read'[a] = turn[a].upto /\ Moves(a)
  BY DEF Ends, TypeInv, TurnsOK, Moves
<1>2. TurnOK(turn[a], a, read[a]) /\ Batch(a) # {}
  BY TurnIs
<1>3. \A x \in Batch(a) : x <= read'[a] /\ read[a] < x /\ x \in Int
  BY <1>1, <1>2, TurnIs DEF TurnOK, Batch
<1>4. read[a] <= read'[a]
  <2>1. PICK x \in Batch(a) : TRUE
    BY <1>2
  <2>2. read[a] \in Int /\ read'[a] \in Int
    BY <1>1, <1>2 DEF TurnOK
  <2> QED
    BY <1>3, <2>1, <2>2
<1>5. TurnKeeps(a) /\ MarksOK(a)'
  BY <1>1, <1>3, <1>4, NoMarks DEF TurnKeeps
<1> QED
  BY <1>1, <1>3, <1>5, TurnsKeep

\* A turn that is not at its end is elsewhere then, with marks that go together.
LEMMA GoesOn ==
  ASSUME TypeInv, SaidInv, NEW a \in Agent, NEW t, turn' = [turn EXCEPT ![a] = t], read' = read, ~AtEnd(a),
         (t.refused => t.spawned) /\ t.confirmed \subseteq t.covered
  PROVE  (\A b \in Agent : TurnKeeps(b)) /\ MarksSay' /\ Moves(a) /\ turn'[a] = t
<1>1. turn'[a] = t /\ Moves(a) /\ read[a] \in Int
  BY DEF Moves, TypeInv, TurnsOK, TurnOK
<1>2. TurnKeeps(a) /\ MarksOK(a)'
  BY <1>1 DEF TurnKeeps, MarksOK
<1> QED
  BY <1>1, <1>2, TurnsKeep

LEMMA ThinksSays ==
  ASSUME TypeInv, SaidInv, NEW a \in Agent, On(a, "idle"), NEW B, NEW u, NEW all, NEW v, Thinks(a, v),
         v = [NoTurn EXCEPT !.batch = B, !.upto = u, !.all = all]
  PROVE  (\A b \in Agent : TurnKeeps(b)) /\ MarksSay' /\ Moves(a)
<1>1. PICK t : t = [v EXCEPT !.pc = "think"]
  OBVIOUS
<1>2. turn' = [turn EXCEPT ![a] = t] /\ read' = read
  BY <1>1 DEF Thinks
<1>3. ~t.refused /\ t.confirmed = {}
  BY <1>1 DEF NoTurn
<1>4. ~AtEnd(a)
  BY DEF AtEnd, On
<1> QED
  BY <1>2, <1>3, <1>4, GoesOn

LEMMA AbortsSays ==
  ASSUME TypeInv, SaidInv, NEW a \in Agent, Aborts(a)
  PROVE  (\A b \in Agent : TurnKeeps(b)) /\ MarksSay' /\ Moves(a)
<1>1. PICK t : t = NoTurn
  OBVIOUS
<1>2. turn' = [turn EXCEPT ![a] = t] /\ read' = read /\ ~t.refused /\ t.confirmed = {} /\ ~AtEnd(a)
  BY <1>1 DEF Aborts, NoTurn, AtEnd, On
<1> QED
  BY <1>2, GoesOn

\* The calls of the others go on, and this one's closes nothing for a turn.
LEMMA CallsSayStill ==
  ASSUME TypeInv, SaidInv, NEW a \in Agent, NEW p \in Proc, p = a \/ UNCHANGED turn, Moves(a) \/ UNCHANGED turn,
         call' = call \/ \E c : call' = [call EXCEPT ![p] = c] /\ ~Words(c),
         UNCHANGED turn \/ ~Words(call[a])
  PROVE  CallsSay'
<1> SUFFICES ASSUME NEW q \in Proc, Words(call'[q])  PROVE SayOK(q)'
  BY DEF CallsSay, SayOK
<1>1. call'[q] = call[q]
  BY DEF TypeInv, CallsOK
<1>2. SayOK(q) /\ Words(call[q])
  BY <1>1 DEF SaidInv, CallsSay
<1>3. q \in Item /\ turn'[q] = turn[q]
  BY <1>2 DEF SayOK, Moves, Agent
<1> QED
  BY <1>1, <1>2, <1>3 DEF SayOK, Now, Batch

LEMMA PlainKinds ==
  ASSUME NEW K, K \cap {"settles", "escalation", "confirm", "reply"} = {}, Adds(K)
  PROVE  \E E : Added(E) /\ \A e \in E : Plain(e)
  BY DEF Adds, Plain, BySettling, ByRefusal, ByPrimary

\* A handler's step that adds nothing a turn says.
LEMMA HandlerPlain ==
  ASSUME TypeInv, NEW p \in Proc, Step(p), ~ChangeRow(p)
  PROVE  \E E : Added(E) /\ \A e \in E : Plain(e)
<1>1. CASE Reopen(p)
  BY <1>1, ReopenAdds, PlainKinds
<1>2. CASE Attribute(p)
  BY <1>2, AttributeAdds, PlainKinds
<1>3. CASE Copy(p)
  BY <1>3, CopyAdds, PlainKinds
<1>4. CASE NotifyParent(p)
  BY <1>4, NotifyParentAdds, PlainKinds
<1>5. CASE StopExecutions(p)
  BY <1>5, StopExecutionsAdds, PlainKinds
<1>6. CASE ClosePart(p)
  BY <1>6, ClosePartAdds, PlainKinds
<1>7. CASE Siblings(p)
  <2>1. Adds({"reopened"})
    BY <1>7, NoneAdds DEF Siblings
  <2> QED
    BY <2>1, PlainKinds
<1> QED
  BY <1>1, <1>2, <1>3, <1>4, <1>5, <1>6, <1>7 DEF Step

\* A call that closes one item for a turn goes on, or is over.
LEMMA WordsGoOn ==
  ASSUME TypeInv, SaidInv, NEW p \in Proc, UNCHANGED turn, NEW c, call' = [call EXCEPT ![p] = c],
         ~Words(c) \/ (Words(call[p]) /\ c.todo = call[p].todo /\ c.re = call[p].re)
  PROVE  CallsSay'
<1> SUFFICES ASSUME NEW q \in Proc, Words(call'[q])  PROVE SayOK(q)'
  BY DEF CallsSay, SayOK
<1>1. Words(call[q]) /\ call'[q].todo = call[q].todo /\ call'[q].re = call[q].re
  <2>1. CASE q = p
    BY <2>1 DEF TypeInv, CallsOK
  <2>2. CASE q # p
    BY <2>2 DEF TypeInv, CallsOK
  <2> QED
    BY <2>1, <2>2
<1>2. SayOK(q)
  BY DEF SaidInv, CallsSay
<1> QED
  BY <1>1, <1>2 DEF SayOK, Now, Batch

LEMMA ProceedsSays ==
  ASSUME TypeInv, SaidInv, NEW p \in Proc, UNCHANGED turn, NEW pc, Proceeds(p, pc),
         pc \notin {"lock", "siblings", "notify"} \/ call[p].pc \in {"lock", "siblings", "notify"}
  PROVE  CallsSay'
<1>1. PICK c : /\ call' = [call EXCEPT ![p] = c]
               /\ c = IF Len(call[p].todo) = 1 THEN Idle ELSE [call[p] EXCEPT !.todo = Tail(@), !.pc = pc]
  BY DEF Proceeds
<1>2. ~Words(c)
  <2>1. CASE Len(call[p].todo) = 1
    BY <1>1, <2>1 DEF Words, Idle
  <2>2. CASE Len(call[p].todo) # 1
    <3>1. c.pc = pc /\ c.re = call[p].re
      BY <1>1, <2>2 DEF TypeInv, CallsOK, CallOK
    <3>2. ~Words(call[p])
      BY <2>2 DEF SaidInv, CallsSay, SayOK
    <3> QED
      BY <3>1, <3>2 DEF Words
  <2> QED
    BY <2>1, <2>2
<1> QED
  BY <1>1, <1>2, WordsGoOn

LEMMA HandlerSays ==
  ASSUME TypeInv, SaidInv, NEW p \in Proc, Step(p), UNCHANGED turn
  PROVE  CallsSay'
<1>1. PICK u : u = call[p] /\ {"pc", "todo", "re", "saw"} \subseteq DOMAIN u
  BY DEF TypeInv, CallsOK, CallOK
<1>2. CASE Reopen(p)
  <2>1. PICK c : c = [u EXCEPT !.saw[Now(p).item] = "open"] /\ call' = [call EXCEPT ![p] = c]
    BY <1>1, <1>2 DEF Reopen
  <2>2. c.pc = "deliver"
    BY <1>1, <1>2, <2>1 DEF Reopen, At
  <2> QED
    BY <2>1, <2>2, WordsGoOn DEF Words
<1>3. CASE Attribute(p)
  <2>1. PICK c : c = [u EXCEPT !.pc = "copy"] /\ call' = [call EXCEPT ![p] = c]
    BY <1>1, <1>3 DEF Attribute, Goto
  <2>2. c.pc = "copy"
    BY <1>1, <2>1
  <2> QED
    BY <2>1, <2>2, WordsGoOn DEF Words
<1>4. CASE Copy(p)
  BY <1>4, ProceedsSays DEF Copy
<1>5. CASE ChangeRow(p)
  <2>1. PICK c : c = [u EXCEPT !.pc = "siblings"] /\ call' = [call EXCEPT ![p] = c]
    BY <1>1, <1>5 DEF ChangeRow, Goto
  <2>2. c.pc = "siblings" /\ c.todo = u.todo /\ c.re = u.re /\ u.pc = "lock"
    BY <1>1, <1>5, <2>1 DEF ChangeRow, At
  <2> QED
    BY <1>1, <2>1, <2>2, WordsGoOn DEF Words
<1>6. CASE Siblings(p)
  <2>1. CASE Proceeds(p, "lock")
    BY <1>6, <2>1, ProceedsSays DEF Siblings, At
  <2>2. CASE Goto(p, "notify")
    <3>1. PICK c : c = [u EXCEPT !.pc = "notify"] /\ call' = [call EXCEPT ![p] = c]
      BY <1>1, <2>2 DEF Goto
    <3>2. c.pc = "notify" /\ c.todo = u.todo /\ c.re = u.re /\ u.pc = "siblings"
      BY <1>1, <1>6, <3>1 DEF Siblings, At
    <3> QED
      BY <1>1, <3>1, <3>2, WordsGoOn DEF Words
  <2> QED
    BY <1>6, <2>1, <2>2 DEF Siblings
<1>7. CASE NotifyParent(p)
  BY <1>7, ProceedsSays DEF NotifyParent, At
<1>8. CASE StopExecutions(p)
  <2>1. PICK c : c = (IF u.todo = <<>> THEN Idle ELSE [u EXCEPT !.pc = "close"]) /\ call' = [call EXCEPT ![p] = c]
    BY <1>1, <1>8 DEF StopExecutions, TypeInv, CallsOK
  <2>2. c.pc \in {"idle", "close"}
    BY <1>1, <2>1 DEF Idle
  <2> QED
    BY <2>1, <2>2, WordsGoOn DEF Words
<1>9. CASE ClosePart(p)
  BY <1>9, ProceedsSays DEF ClosePart
<1> QED
  BY <1>2, <1>3, <1>4, <1>5, <1>6, <1>7, <1>8, <1>9 DEF Step

LEMMA ChangeRowSaid ==
  ASSUME TypeInv, TypeInv', SaidInv, NEW p \in Proc, ChangeRow(p), UNCHANGED <<turn, read>>
  PROVE  LogSays' /\ Pairs'
<1>1. PICK e : /\ e = [Event(IF call[p].want = "open" THEN "reopened" ELSE "settles", None, Now(p).item, None) EXCEPT !.re = call[p].re]
               /\ OneMore(e)
  BY RecordsOne DEF ChangeRow
<1>2. e.kind \in {"reopened", "settles"} /\ e.item = Now(p).item /\ e.re = call[p].re
  BY <1>1 DEF Event
<1>3. SaidOK(e)'
  <2> SUFFICES ASSUME BySettling(e)  PROVE SettlesOK(e)'
    BY <1>2 DEF SaidOK, ByRefusal, ByPrimary
  <2>1. Words(call[p]) /\ SayOK(p)
    BY <1>2 DEF Words, ChangeRow, At, BySettling, SaidInv, CallsSay
  <2>2. p \in Item /\ e.item = p /\ turn'[p].pc = "done" /\ e.re = turn'[p].batch
    BY <1>2, <2>1 DEF SayOK, Batch
  <2> QED
    BY <2>2 DEF SettlesOK, Batch
<1>4. \A d : PairOK(d, e)
  BY <1>2 DEF PairOK, ByPrimary
<1> QED
  BY <1>1, <1>3, <1>4, SameTurnsKeep, OneSaid DEF SaidInv

LEMMA HandlerSaid ==
  ASSUME TypeInv, TypeInv', SaidInv, NEW p \in Proc, Step(p), UNCHANGED <<turn, read>>
  PROVE  SaidInv'
<1>1. CallsSay' /\ MarksSay' /\ \A b \in Agent : TurnKeeps(b)
  BY HandlerSays, SameTurnsKeep
<1>2. LogSays' /\ Pairs'
  <2>1. CASE ChangeRow(p)
    BY <2>1, ChangeRowSaid
  <2>2. CASE ~ChangeRow(p)
    BY <1>1, <2>2, HandlerPlain, PlainSaid DEF SaidInv
  <2> QED
    BY <2>1, <2>2
<1> QED
  BY <1>1, <1>2 DEF SaidInv

\* What begins a call closes nothing for a turn.
LEMMA NoWords ==
  /\ ~Words(Idle)
  /\ \A todo, saw, prev, re : ~Words(Delivering(todo, saw, prev, re))
  /\ \A items, want, hop : ~Words(Changing(items, want, hop))
  /\ \A i : ~Words(Cancelling(i))
<1>1. ~Words(Idle)
  BY DEF Words, Idle
<1>2. ASSUME NEW todo, NEW saw, NEW prev, NEW re  PROVE ~Words(Delivering(todo, saw, prev, re))
  BY DEF Words, Delivering, Idle
<1>3. ASSUME NEW items, NEW want, NEW hop  PROVE ~Words(Changing(items, want, hop))
  BY DEF Words, Changing, Idle
<1>4. ASSUME NEW i  PROVE ~Words(Cancelling(i))
  BY DEF Words, Cancelling, Idle
<1> QED
  BY <1>1, <1>2, <1>3, <1>4

LEMMA PersonSaid ==
  ASSUME TypeInv, TypeInv', SaidInv, NEW p \in Caller, Ask(p) \/ CallFails(p), UNCHANGED <<turn, read>>
  PROVE  SaidInv'
<1>1. \/ (\E m, targets : Submit(p, m, targets)) \/ (\E m, i : Reattribute(p, m, i)) \/ (\E m : StartFromMessage(p, m))
      \/ (\E i, s : SetStatus(p, i, s)) \/ (\E i : Cancel(p, i)) \/ CallFails(p)
  BY DEF Ask
<1>2. p \in Proc /\ \E c : call' = [call EXCEPT ![p] = c] /\ ~Words(c)
  BY <1>1, NoWords DEF Submit, Reattribute, StartFromMessage, SetStatus, Cancel, CallFails, Proc
<1>3. CallsSay'
  BY <1>2, WordsGoOn
<1>4. \E E : Added(E) /\ \A e \in E : Plain(e)
  BY AskAdds, PlainKinds
<1> QED
  BY <1>3, <1>4, SameTurnsKeep, PlainSaid DEF SaidInv

\* What a Manager says after what was said: not of what it is done with.
LEMMA ReplyAfter ==
  ASSUME TypeInv, SaidInv, NEW i \in Item, NEW e, e.kind = "reply", e.item = i, e.re # {},
         \A x \in e.re : log[x].box = i /\ read[i] < x, turn[i].pc \notin {"done", "work"}
  PROVE  \A n \in DOMAIN log : PairOK(log[n], e)
<1> SUFFICES ASSUME NEW d, NEW n \in DOMAIN log, d = log[n]  PROVE PairOK(d, e)
  OBVIOUS
<1>1. SaidOK(d) /\ d.re \subseteq 1..Len(log) /\ read[i] \in Int
  BY DEF SaidInv, LogSays, TypeInv, LogOK, EventOK, TurnsOK, TurnOK, Agent
<1>2. Past(d, i) => e.re # d.re
  BY <1>1 DEF Past
<1>3. BySettling(d) /\ d.item = i => e.re # d.re
  BY <1>1, <1>2 DEF SaidOK, SettlesOK
<1>4. ByRefusal(d) => e.re # d.re
  <2> SUFFICES ASSUME ByRefusal(d), e.re = d.re  PROVE FALSE
    OBVIOUS
  <2>1. RefusalOK(d)
    BY <1>1 DEF SaidOK
  <2>2. d.item = i
    BY <2>1 DEF RefusalOK
  <2> QED
    BY <1>2, <2>1, <2>2 DEF RefusalOK
<1>5. ~ByPrimary(e)
  BY NoneIsNobody DEF ByPrimary
<1> QED
  BY <1>3, <1>4, <1>5 DEF PairOK

LEMMA ManagerReplySaid ==
  ASSUME TypeInv, TypeInv', SaidInv, \A a \in Agent : TurnKeeps(a), NEW i \in Item, NEW re, re # {},
         \A x \in re : log[x].box = i /\ read[i] < x, turn[i].pc \notin {"done", "work"},
         Record(Answer("reply", i, None, re)) \/ Post(Answer("reply", i, None, re))
  PROVE  LogSays' /\ Pairs'
<1>1. PICK e : e = Answer("reply", i, None, re)
  OBVIOUS
<1>2. e.kind = "reply" /\ e.item = i /\ e.re = re
  BY <1>1 DEF Answer, Event
<1>3. PICK q : OneMore(q) /\ (q = e \/ Refusal(q, e))
  BY <1>1, RecordsOne, PostsOne
<1>4. CASE q = e
  <2>1. SaidOK(e)'
    BY <1>2, NoneIsNobody DEF SaidOK, BySettling, ByRefusal, ByPrimary
  <2>2. \A n \in DOMAIN log : PairOK(log[n], e)
    BY <1>2, ReplyAfter
  <2> QED
    BY <1>3, <1>4, <2>1, <2>2, OneSaid DEF SaidInv
<1>5. CASE Refusal(q, e)
  <2>1. Added({q}) /\ \A x \in {q} : Plain(x)
    BY <1>3, <1>5 DEF OneMore, Refusal, Plain, BySettling, ByRefusal, ByPrimary
  <2> QED
    BY <2>1, PlainSaid DEF SaidInv
<1> QED
  BY <1>3, <1>4, <1>5

\* A turn goes on while its call is idle.
LEMMA IdleCallSays ==
  ASSUME TypeInv, SaidInv, NEW a \in Agent, At(a, "idle"), Moves(a) \/ UNCHANGED turn, UNCHANGED call
  PROVE  CallsSay'
<1>1. a \in Proc /\ ~Words(call[a])
  BY DEF Words, At, Agent, Proc
<1> QED
  BY <1>1, CallsSayStill

LEMMA SilentSays ==
  ASSUME TypeInv, TypeInv', SaidInv, (\A b \in Agent : TurnKeeps(b)) /\ MarksSay', CallsSay', log' = log
  PROVE  SaidInv'
<1>1. \E E : Added(E) /\ \A e \in E : Plain(e)
  <2>1. Adds({"started"})
    BY NoneAdds
  <2> QED
    BY <2>1, PlainKinds
<1> QED
  BY <1>1, PlainSaid DEF SaidInv

LEMMA AbortsSaid ==
  ASSUME TypeInv, TypeInv', SaidInv, NEW a \in Agent, Aborts(a)
  PROVE  SaidInv'
<1>1. (\A b \in Agent : TurnKeeps(b)) /\ MarksSay' /\ Moves(a) /\ At(a, "idle") /\ call' = call /\ log' = log
  BY AbortsSays DEF Aborts, On
<1> QED
  BY <1>1, IdleCallSays, SilentSays

LEMMA ManagerReadsSaid ==
  ASSUME TypeInv, TypeInv', SaidInv, NEW i \in Item, ManagerSkips(i) \/ ManagerAcknowledges(i) \/ ManagerBegins(i)
  PROVE  SaidInv'
<1>1. i \in Agent /\ On(i, "idle") /\ At(i, "idle") /\ call' = call /\ Kept(i) \subseteq Unread(i) /\ turn[i].pc = "idle"
  BY DEF ManagerSkips, ManagerAcknowledges, ManagerBegins, On, Agent, Kept
<1>2. CASE ManagerSkips(i)
  <2>1. (\A b \in Agent : TurnKeeps(b)) /\ MarksSay' /\ UNCHANGED turn
    BY <1>1, <1>2, ConsumesSays DEF ManagerSkips
  <2> QED
    BY <1>1, <1>2, <2>1, IdleCallSays, SilentSays DEF ManagerSkips
<1>3. CASE ManagerAcknowledges(i)
  <2>1. Unread(i) # {} /\ Kept(i) # {}
    BY <1>1, <1>3 DEF ManagerAcknowledges
  <2>2. (\A b \in Agent : TurnKeeps(b)) /\ MarksSay' /\ UNCHANGED turn
    BY <1>1, <1>3, <2>1, ConsumesSays DEF ManagerAcknowledges
  <2>3. \A x \in Kept(i) : log[x].box = i /\ read[i] < x
    BY <1>1, UnreadIs
  <2>4. LogSays' /\ Pairs'
    BY <1>1, <1>3, <2>1, <2>2, <2>3, ManagerReplySaid DEF ManagerAcknowledges
  <2> QED
    BY <1>1, <2>2, <2>4, IdleCallSays DEF SaidInv
<1>4. CASE ManagerBegins(i)
  <2>1. PICK v, all : v = [NoTurn EXCEPT !.batch = Kept(i), !.upto = MaxOf(Unread(i))] /\ all = NoTurn.all
    OBVIOUS
  <2>2. v = [NoTurn EXCEPT !.batch = Kept(i), !.upto = MaxOf(Unread(i)), !.all = all]
    BY <2>1 DEF NoTurn
  <2>3. Thinks(i, v) /\ log' = log
    BY <1>4, <2>1 DEF ManagerBegins
  <2>4. (\A b \in Agent : TurnKeeps(b)) /\ MarksSay' /\ Moves(i)
    BY <1>1, <2>2, <2>3, ThinksSays
  <2> QED
    BY <1>1, <2>3, <2>4, IdleCallSays, SilentSays
<1> QED
  BY <1>2, <1>3, <1>4

LEMMA ManagerFallsBackSaid ==
  ASSUME TypeInv, TypeInv', SaidInv, NEW i \in Item, ManagerFallsBack(i)
  PROVE  SaidInv'
<1>1. i \in Agent /\ At(i, "idle") /\ turn[i].pc = "think" /\ call' = call
  BY DEF ManagerFallsBack, On, Agent
<1>2. (\A b \in Agent : TurnKeeps(b)) /\ MarksSay' /\ Moves(i)
  BY <1>1, EndsSays DEF ManagerFallsBack
<1>3. Batch(i) # {} /\ \A x \in Batch(i) : log[x].box = i /\ read[i] < x
  BY <1>1, TurnIs DEF TurnOK, Batch
<1>4. LogSays' /\ Pairs'
  BY <1>1, <1>2, <1>3, ManagerReplySaid DEF ManagerFallsBack
<1> QED
  BY <1>1, <1>2, <1>4, IdleCallSays DEF SaidInv

LEMMA ManagerPhaseSaid ==
  ASSUME TypeInv, TypeInv', SaidInv, NEW i \in Item, ManagerPhase(i)
  PROVE  SaidInv'
<1>1. i \in Agent /\ i # Primary /\ At(i, "idle") /\ turn[i].pc # "idle" /\ call' = call /\ log' = log
  BY NoneIsNobody DEF ManagerPhase, Agent
<1>2. (\A b \in Agent : TurnKeeps(b)) /\ MarksSay' /\ Moves(i)
  <2>1. CASE Ends(i)
    BY <1>1, <2>1, EndsSays
  <2>2. CASE ~Ends(i)
    <3>1. PICK pc : pc = NextPhase(turn[i].pc)
      OBVIOUS
    <3>2. PICK t : t = [turn[i] EXCEPT !.pc = pc]
      OBVIOUS
    <3>3. turn' = [turn EXCEPT ![i] = t] /\ read' = read /\ ~turn[i].refused /\ turn[i].pc # "done"
      BY <2>2, <3>1, <3>2 DEF ManagerPhase, NextPhase
    <3>4. t.refused = turn[i].refused /\ t.spawned = turn[i].spawned /\ t.confirmed = turn[i].confirmed /\ t.covered = turn[i].covered
      BY <1>1, <3>2, TurnIs DEF TurnOK
    <3>5. MarksOK(i) /\ ~AtEnd(i)
      BY <1>1, <3>3 DEF SaidInv, MarksSay, AtEnd
    <3> QED
      BY <1>1, <3>3, <3>4, <3>5, GoesOn DEF MarksOK
  <2> QED
    BY <2>1, <2>2
<1> QED
  BY <1>1, <1>2, IdleCallSays, SilentSays

LEMMA ManagerRecordsSaid ==
  ASSUME TypeInv, TypeInv', SaidInv, NEW i \in Item,
         AttachAsks(i) \/ ManagerReplies(i) \/ Escalate(i) \/ AnswerChild(i) \/ Reroute(i) \/ CreateChild(i)
  PROVE  SaidInv'
<1>1. i \in Agent /\ At(i, "idle") /\ UNCHANGED <<call, read, turn>> /\ turn[i].pc \in {"attach", "reply", "work"}
  BY DEF AttachAsks, ManagerReplies, Escalate, AnswerChild, Reroute, CreateChild, Records, Effect, Asks, On, Agent
<1>2. (\A b \in Agent : TurnKeeps(b)) /\ MarksSay' /\ CallsSay'
  BY <1>1, SameTurnsKeep, IdleCallSays
<1>3. CASE AttachAsks(i) \/ ManagerReplies(i)
  <2>1. Post(Answer("reply", i, None, Batch(i))) /\ turn[i].pc \in {"attach", "reply"}
    BY <1>3 DEF AttachAsks, ManagerReplies, Records, Effect, Asks, On
  <2>2. Batch(i) # {} /\ \A x \in Batch(i) : log[x].box = i /\ read[i] < x
    BY <1>1, TurnIs DEF TurnOK, Batch
  <2> QED
    BY <1>2, <2>1, <2>2, ManagerReplySaid DEF SaidInv
<1>4. CASE Escalate(i) \/ AnswerChild(i) \/ Reroute(i) \/ CreateChild(i)
  <2>1. \E e : e.kind \in {"escalation.raised", "reroute", "copy"} /\ Post(e)
    <3>1. CASE Escalate(i)
      <4>1. PICK e : e = Bubble(i, "escalation.raised", None)
        OBVIOUS
      <4>2. Post(e) /\ e.kind = "escalation.raised"
        BY <3>1, <4>1 DEF Escalate, Records, Bubble, Event
      <4> QED
        BY <4>2
    <3>2. CASE Reroute(i)
      <4>1. PICK n : Post(Bubble(i, "reroute", log[n].of))
        BY <3>2 DEF Reroute, Records
      <4>2. PICK e : e = Bubble(i, "reroute", log[n].of)
        OBVIOUS
      <4>3. Post(e) /\ e.kind = "reroute"
        BY <4>1, <4>2 DEF Bubble, Event
      <4> QED
        BY <4>3
    <3>3. CASE AnswerChild(i)
      <4>1. PICK c, e : e = [Event("copy", c, c, None) EXCEPT !.hop = NextHop(i)] /\ Post(e)
        BY <3>3 DEF AnswerChild, Records
      <4>2. e.kind = "copy" /\ Post(e)
        BY <4>1 DEF Event
      <4> QED
        BY <4>2
    <3>4. CASE CreateChild(i)
      <4>1. PICK e : e = [Event("copy", Fresh, Fresh, None) EXCEPT !.hop = NextHop(i)] /\ Post(e)
        BY <3>4 DEF CreateChild
      <4>2. e.kind = "copy" /\ Post(e)
        BY <4>1 DEF Event
      <4> QED
        BY <4>2
    <3> QED
      BY <1>4, <3>1, <3>2, <3>3, <3>4
  <2>2. PICK K : K = {"escalation.raised", "reroute", "copy", "refused"}
    OBVIOUS
  <2>3. Adds(K)
    BY <2>1, <2>2, RecordAdds
  <2>4. \E E : Added(E) /\ \A e \in E : Plain(e)
    BY <2>2, <2>3, PlainKinds
  <2> QED
    BY <1>2, <2>4, PlainSaid DEF SaidInv
<1> QED
  BY <1>3, <1>4

LEMMA SpawnSaid ==
  ASSUME TypeInv, TypeInv', SaidInv, NEW i \in Item, Spawn(i)
  PROVE  SaidInv'
<1>1. i \in Agent /\ i # Primary /\ At(i, "idle") /\ turn[i].pc = "work" /\ ~turn[i].spawned /\ call' = call /\ read' = read
  BY NoneIsNobody DEF Spawn, Asks, On, Agent
<1>2. PICK refused \in BOOLEAN :
        /\ turn' = [turn EXCEPT ![i].spawned = TRUE, ![i].refused = refused]
        /\ Record([Answer(IF refused THEN "escalation" ELSE "started", i, None, Batch(i)) EXCEPT !.hop = NextHop(i)])
  BY DEF Spawn
<1>3. PICK t : t = [turn[i] EXCEPT !.spawned = TRUE, !.refused = refused]
  OBVIOUS
<1>4. turn' = [turn EXCEPT ![i] = t]
  BY <1>1, <1>2, <1>3 DEF TypeInv, TurnsOK
<1>5. /\ t.refused = refused /\ t.spawned = TRUE /\ t.confirmed = turn[i].confirmed /\ t.covered = turn[i].covered
      /\ t.pc = "work" /\ t.batch = Batch(i)
  BY <1>1, <1>3, TurnIs DEF TurnOK, Batch
<1>6. MarksOK(i) /\ ~AtEnd(i)
  BY <1>1 DEF SaidInv, MarksSay, MarksOK, AtEnd
<1>7. (\A b \in Agent : TurnKeeps(b)) /\ MarksSay' /\ Moves(i) /\ turn'[i] = t
  BY <1>1, <1>4, <1>5, <1>6, GoesOn DEF MarksOK
<1>8. PICK e : /\ e = [Answer(IF refused THEN "escalation" ELSE "started", i, None, Batch(i)) EXCEPT !.hop = NextHop(i)]
               /\ OneMore(e)
  BY <1>2, RecordsOne
<1>9. e.kind = (IF refused THEN "escalation" ELSE "started") /\ e.item = i /\ e.re = Batch(i)
  BY <1>8 DEF Answer, Event
<1>10. SaidOK(e)'
  <2> SUFFICES ASSUME ByRefusal(e)  PROVE RefusalOK(e)'
    BY <1>9 DEF SaidOK, BySettling, ByPrimary
  <2>1. refused /\ e.re = t.batch /\ turn'[i].pc = "work" /\ turn'[i].refused /\ e.re = Batch(i)'
    BY <1>5, <1>7, <1>9 DEF ByRefusal, Batch
  <2>2. \A x \in e.re : x \in DOMAIN log' /\ log'[x].box = i
    BY <1>1, <1>8, <1>9, TurnIs DEF TurnOK, Batch, OneMore, Added
  <2> QED
    BY <1>9, <2>1, <2>2 DEF RefusalOK
<1>11. \A d : PairOK(d, e)
  BY <1>9 DEF PairOK, ByPrimary
<1>12. LogSays' /\ Pairs'
  BY <1>7, <1>8, <1>10, <1>11, OneSaid DEF SaidInv
<1> QED
  BY <1>1, <1>7, <1>12, IdleCallSays DEF SaidInv

LEMMA DoneSaid ==
  ASSUME TypeInv, TypeInv', SaidInv, NEW i \in Item, Done(i)
  PROVE  SaidInv'
<1>1. UNCHANGED <<log, read, turn>> /\ turn[i].pc = "done"
  BY DEF Done, Effect, Asks, On
<1>2. PICK c : /\ c = [Changing(<<i>>, "done", NextHop(i) - 1) EXCEPT !.re = Batch(i)]
               /\ call' = [call EXCEPT ![i] = c]
  BY DEF Done
<1>3. c.re = Batch(i) /\ Len(c.todo) = 1 /\ Head(c.todo).item = i
  <2>1. c.re = Batch(i) /\ c.todo = [n \in DOMAIN <<i>> |-> For(None, <<i>>[n])]
    BY <1>2 DEF Changing, Idle
  <2>2. c.todo = <<For(None, i)>>
    BY <2>1
  <2> QED
    BY <2>1, <2>2 DEF For
<1>4. CallsSay'
  <2> SUFFICES ASSUME NEW q \in Proc, Words(call'[q])  PROVE SayOK(q)'
    BY DEF CallsSay, SayOK
  <2>1. CASE q = i
    <3>1. call'[q] = c
      BY <1>2, <2>1 DEF TypeInv, CallsOK
    <3> QED
      BY <1>1, <1>3, <2>1, <3>1 DEF SayOK, Now, Batch
  <2>2. CASE q # i
    <3>1. call'[q] = call[q]
      BY <1>2, <2>2 DEF TypeInv, CallsOK
    <3>2. SayOK(q)
      BY DEF SaidInv, CallsSay
    <3> QED
      BY <1>1, <3>1, <3>2 DEF SayOK, Now, Batch
  <2> QED
    BY <2>1, <2>2
<1> QED
  BY <1>1, <1>4, SameTurnsKeep, SilentSays

LEMMA ExecutionEndsSaid ==
  ASSUME TypeInv, TypeInv', SaidInv, NEW i \in Item, ExecutionEnds(i)
  PROVE  SaidInv'
<1>1. UNCHANGED <<call, read, turn>>
  BY DEF ExecutionEnds
<1>2. PICK e : e = [Event("finished", i, i, None) EXCEPT !.hop = OutcomeHop(i)] /\ Record(e)
  BY DEF ExecutionEnds
<1>3. PICK K : K = {"finished"}
  OBVIOUS
<1>4. e.kind \in K
  BY <1>2, <1>3 DEF Event
<1>5. \E E : Added(E) /\ \A x \in E : Plain(x)
  BY <1>2, <1>3, <1>4, RecordAdds, PlainKinds
<1>6. CallsSay'
  BY <1>1 DEF SaidInv, CallsSay, SayOK, Now, Batch
<1> QED
  BY <1>1, <1>5, <1>6, SameTurnsKeep, PlainSaid DEF SaidInv

LEMMA ManagerSaid ==
  ASSUME TypeInv, TypeInv', SaidInv, NEW i \in Item, ManagerTurn(i) \/ ExecutionEnds(i)
  PROVE  SaidInv'
<1>1. i \in Agent
  BY DEF Agent
<1> QED
  BY <1>1, AbortsSaid, ManagerReadsSaid, ManagerFallsBackSaid, ManagerPhaseSaid, ManagerRecordsSaid, SpawnSaid, DoneSaid,
     ExecutionEndsSaid DEF ManagerTurn

\* What the Primary says after what was said: not of what it is done with.
LEMMA AnswerAfter ==
  ASSUME TypeInv, SaidInv, NEW e, e.kind \in {"confirm", "reply"}, e.item = None, NEW m \in Batch(Primary), e.re = {m},
         turn[Primary].pc = "reply" => e.kind = "reply" /\ m \notin turn[Primary].confirmed
  PROVE  \A n \in DOMAIN log : PairOK(log[n], e)
<1> SUFFICES ASSUME NEW d, NEW n \in DOMAIN log, d = log[n]  PROVE PairOK(d, e)
  OBVIOUS
<1>1. SaidOK(d) /\ d.re \subseteq 1..Len(log)
  BY DEF SaidInv, LogSays, TypeInv, LogOK, EventOK
<1>2. m \in Int /\ log[m].box = Primary /\ read[Primary] < m /\ read[Primary] \in Int
  BY TurnIs DEF TurnOK, Batch, Agent
<1>3. ~(BySettling(d) /\ e.item = d.item)
  BY <1>1, NoneIsNobody DEF SaidOK, SettlesOK
<1>4. ByRefusal(d) => e.re # d.re
  BY <1>1, <1>2, NoneIsNobody DEF SaidOK, RefusalOK
<1>5. ByPrimary(d) /\ "confirm" \in {d.kind, e.kind} => e.re # d.re
  <2> SUFFICES ASSUME ByPrimary(d), "confirm" \in {d.kind, e.kind}, e.re = d.re  PROVE FALSE
    OBVIOUS
  <2>1. AnswerOK(d)
    BY <1>1 DEF SaidOK
  <2>2. ~Past(d, Primary)
    BY <1>2 DEF Past
  <2>3. turn[Primary].pc = "reply" /\ (d.kind = "confirm" => m \in turn[Primary].confirmed)
    BY <2>1, <2>2 DEF AnswerOK
  <2> QED
    BY <2>3
<1> QED
  BY <1>3, <1>4, <1>5 DEF PairOK

\* It answers each of these messages, and is then at its replies or past them.
LEMMA AnswersSaid ==
  ASSUME TypeInv, TypeInv', SaidInv, \A a \in Agent : TurnKeeps(a),
         NEW kind \in {"confirm", "reply"}, NEW S, S \subseteq Batch(Primary), Answers(kind, S),
         turn[Primary].pc = "reply" => kind = "reply" /\ S \cap turn[Primary].confirmed = {},
         \A n \in S : \/ n <= read'[Primary]
                      \/ turn'[Primary].pc = "reply" /\ n \in turn'[Primary].batch /\ (kind = "confirm" => n \in turn'[Primary].confirmed)
  PROVE  LogSays' /\ Pairs'
<1>1. PICK E : E = {Answer(kind, None, log[n].of, {n}) : n \in S}
  OBVIOUS
<1>2. S \subseteq DOMAIN log
  BY TurnIs DEF Agent
<1>3. Added(E) /\ \A j, k \in DOMAIN log' : j \notin DOMAIN log /\ k \notin DOMAIN log /\ log'[j] = log'[k] => j = k
  BY <1>1, <1>2, PositionsAreFinite, AddedAnswers DEF TypeInv, LogOK
<1>4. \A e \in E : \E n \in S : e = Answer(kind, None, log[n].of, {n}) /\ e.kind = kind /\ e.item = None /\ e.re = {n}
  BY <1>1 DEF Answer, Event
<1>5. ASSUME NEW e \in E  PROVE SaidOK(e)'
  <2>1. PICK n \in S : e.kind = kind /\ e.item = None /\ e.re = {n}
    BY <1>4
  <2>2. n <= read'[Primary] => Past(e, Primary)'
    BY <2>1 DEF Past
  <2>3. n \in turn'[Primary].batch => n \in Batch(Primary)'
    BY DEF Batch
  <2>4. AnswerOK(e)'
    BY <2>1, <2>2, <2>3 DEF AnswerOK
  <2> QED
    BY <2>1, <2>4 DEF SaidOK, BySettling, ByRefusal
<1>6. ASSUME NEW e \in E  PROVE \A n \in DOMAIN log : PairOK(log[n], e)
  <2>1. PICK m \in Batch(Primary) : m \in S /\ e.kind = kind /\ e.item = None /\ e.re = {m}
    BY <1>4
  <2> QED
    BY <2>1, AnswerAfter
<1>7. ASSUME NEW j \in DOMAIN log', NEW k \in DOMAIN log', j \notin DOMAIN log, k \notin DOMAIN log, j < k
      PROVE  PairOK(log'[j], log'[k])
  <2>1. j # k /\ DOMAIN log' = 1..Len(log') /\ Len(log') \in Nat
    BY <1>3, <1>7 DEF Added
  <2>2. PICK d, e : d = log'[j] /\ e = log'[k]
    OBVIOUS
  <2>3. d # e /\ d \in E /\ e \in E
    BY <1>3, <1>7, <2>1, <2>2 DEF Added
  <2>4. PICK x \in S : d = Answer(kind, None, log[x].of, {x}) /\ d.kind = kind /\ d.item = None /\ d.re = {x}
    BY <1>4, <2>3
  <2>5. PICK y \in S : e = Answer(kind, None, log[y].of, {y}) /\ e.kind = kind /\ e.item = None /\ e.re = {y}
    BY <1>4, <2>3
  <2>6. x # y
    BY <2>3, <2>4, <2>5
  <2>7. PairOK(d, e)
    BY <2>4, <2>5, <2>6 DEF PairOK, BySettling, ByRefusal
  <2> QED
    BY <2>2, <2>7
<1> QED
  BY <1>3, <1>5, <1>6, <1>7, LogStaysSaid DEF SaidInv

LEMMA PrimaryBeginsSaid ==
  ASSUME TypeInv, TypeInv', SaidInv, PrimaryBegins
  PROVE  SaidInv'
<1>1. Primary \in Agent /\ On(Primary, "idle") /\ At(Primary, "idle") /\ Unread(Primary) # {} /\ call' = call
  BY DEF PrimaryBegins, On, Agent
<1>2. PICK B : B = {n \in Unread(Primary) : Routable(n)}
  OBVIOUS
<1>3. /\ Answers("escalation", Unread(Primary) \ B)
      /\ \/ Consumes(Primary, Unread(Primary))
         \/ Thinks(Primary, [NoTurn EXCEPT !.batch = B, !.upto = MaxOf(Unread(Primary)), !.all = status])
  BY <1>2 DEF PrimaryBegins
<1>4. (\A b \in Agent : TurnKeeps(b)) /\ MarksSay' /\ (Moves(Primary) \/ UNCHANGED turn)
  <2>1. CASE Consumes(Primary, Unread(Primary))
    BY <1>1, <2>1, ConsumesSays
  <2>2. CASE Thinks(Primary, [NoTurn EXCEPT !.batch = B, !.upto = MaxOf(Unread(Primary)), !.all = status])
    <3>1. PICK v : v = [NoTurn EXCEPT !.batch = B, !.upto = MaxOf(Unread(Primary)), !.all = status]
      OBVIOUS
    <3> QED
      BY <1>1, <2>2, <3>1, ThinksSays
  <2> QED
    BY <1>3, <2>1, <2>2
<1>5. \E E : Added(E) /\ \A e \in E : Plain(e)
  <2>1. PICK S : S = Unread(Primary) \ B
    OBVIOUS
  <2>2. PICK E : E = {Answer("escalation", None, log[n].of, {n}) : n \in S}
    OBVIOUS
  <2>3. S \subseteq DOMAIN log
    BY <1>1, <2>1, UnreadIs
  <2>4. Added(E)
    BY <1>3, <2>1, <2>2, <2>3, PositionsAreFinite, AddedAnswers DEF TypeInv, LogOK
  <2>5. \A e \in E : e.kind = "escalation" /\ e.item = None
    BY <2>2 DEF Answer, Event
  <2>6. \A e \in E : Plain(e)
    BY <2>5 DEF Plain, BySettling, ByRefusal, ByPrimary
  <2> QED
    BY <2>4, <2>6
<1> QED
  BY <1>1, <1>4, <1>5, IdleCallSays, PlainSaid DEF SaidInv

LEMMA PrimaryOverSaid ==
  ASSUME TypeInv, TypeInv', SaidInv, PrimaryFallsBack \/ PrimaryEnds
  PROVE  SaidInv'
<1>1. /\ Primary \in Agent /\ At(Primary, "idle") /\ turn[Primary].pc \in {"think", "reply"} /\ Ends(Primary) /\ call' = call
  BY DEF PrimaryFallsBack, PrimaryEnds, On, Agent
<1>2. (\A b \in Agent : TurnKeeps(b)) /\ MarksSay' /\ Moves(Primary) /\ \A x \in Batch(Primary) : x <= read'[Primary]
  BY <1>1, EndsSays
<1>3. LogSays' /\ Pairs'
  <2>1. PICK S : S = IF turn[Primary].pc = "reply" THEN Batch(Primary) \ turn[Primary].covered ELSE Batch(Primary)
    OBVIOUS
  <2>2. Answers("reply", S)
    BY <2>1 DEF PrimaryFallsBack, PrimaryEnds, On
  <2>3. turn[Primary].confirmed \subseteq turn[Primary].covered
    BY <1>1 DEF SaidInv, MarksSay, MarksOK
  <2>4. S \subseteq Batch(Primary) /\ (turn[Primary].pc = "reply" => S \cap turn[Primary].confirmed = {})
    BY <2>1, <2>3
  <2> QED
    BY <1>2, <2>2, <2>4, AnswersSaid
<1> QED
  BY <1>1, <1>2, <1>3, IdleCallSays DEF SaidInv

LEMMA PrimaryMovesSaid ==
  ASSUME TypeInv, TypeInv', SaidInv, PrimaryDecides \/ Flush
  PROVE  SaidInv'
<1>1. PICK pc \in {"act", "reply"} : turn' = [turn EXCEPT ![Primary].pc = pc] /\ (Flush => pc = "reply")
  BY DEF PrimaryDecides, Flush
<1>2. Primary \in Agent /\ At(Primary, "idle") /\ turn[Primary].pc \in {"think", "act"} /\ call' = call /\ read' = read
  BY DEF PrimaryDecides, Flush, On, Agent
<1>3. PICK t : t = [turn[Primary] EXCEPT !.pc = pc]
  OBVIOUS
<1>4. turn' = [turn EXCEPT ![Primary] = t]
  BY <1>1, <1>3
<1>5. /\ t.refused = turn[Primary].refused /\ t.spawned = turn[Primary].spawned /\ t.confirmed = turn[Primary].confirmed
      /\ t.covered = turn[Primary].covered /\ t.pc = pc /\ t.batch = turn[Primary].batch
      /\ turn[Primary].confirmed \subseteq turn[Primary].batch
  BY <1>2, <1>3, TurnIs DEF TurnOK
<1>6. MarksOK(Primary) /\ ~AtEnd(Primary)
  BY <1>2 DEF SaidInv, MarksSay, AtEnd
<1>7. (\A b \in Agent : TurnKeeps(b)) /\ MarksSay' /\ Moves(Primary) /\ turn'[Primary] = t
  BY <1>2, <1>4, <1>5, <1>6, GoesOn DEF MarksOK
<1>8. CallsSay'
  BY <1>2, <1>7, IdleCallSays
<1>9. CASE PrimaryDecides
  BY <1>7, <1>8, <1>9, SilentSays DEF PrimaryDecides
<1>10. CASE Flush
  <2>1. PICK S : S = turn[Primary].confirmed
    OBVIOUS
  <2>2. Answers("confirm", S) /\ turn[Primary].pc = "act" /\ pc = "reply" /\ S \subseteq Batch(Primary)
    BY <1>1, <1>5, <1>10, <2>1 DEF Flush, On, Batch
  <2>3. \A n \in S : turn'[Primary].pc = "reply" /\ n \in turn'[Primary].batch /\ n \in turn'[Primary].confirmed
    BY <1>5, <1>7, <2>1, <2>2
  <2>4. LogSays' /\ Pairs'
    BY <1>7, <2>2, <2>3, AnswersSaid
  <2> QED
    BY <1>7, <1>8, <2>4 DEF SaidInv
<1> QED
  BY <1>9, <1>10

\* An effect on a message leaves marks, and the turn where it is.
LEMMA MarksSaid ==
  ASSUME TypeInv, SaidInv, NEW n \in Batch(Primary), NEW also, Covering(n, also) \/ Confirming(n), read' = read
  PROVE  (\A b \in Agent : TurnKeeps(b)) /\ MarksSay' /\ Moves(Primary) /\ Stays(Primary)
<1>1. Primary \in Agent /\ TurnOK(turn[Primary], Primary, read[Primary]) /\ MarksOK(Primary) /\ read[Primary] \in Int
  BY TurnIs DEF Agent, SaidInv, MarksSay, TurnOK
<1>2. PICK t : turn' = [turn EXCEPT ![Primary] = t] /\ (t = Covers(n, also) \/ t = [Covers(n, {}) EXCEPT !.confirmed = @ \cup {n}])
  BY DEF Covering, Confirming
<1>3. /\ t.pc = turn[Primary].pc /\ t.batch = turn[Primary].batch /\ t.refused = turn[Primary].refused
      /\ t.spawned = turn[Primary].spawned
      /\ turn[Primary].confirmed \subseteq t.confirmed /\ turn[Primary].covered \cup {n} \subseteq t.covered
      /\ t.confirmed \subseteq turn[Primary].confirmed \cup {n}
  BY <1>1, <1>2 DEF TurnOK, Covers
<1>4. turn'[Primary] = t /\ Moves(Primary)
  BY <1>1, <1>2 DEF Moves, TypeInv, TurnsOK
<1>5. MarksOK(Primary)' /\ Stays(Primary)
  BY <1>1, <1>3, <1>4 DEF MarksOK, Stays
<1>6. TurnKeeps(Primary)
  BY <1>1, <1>5 DEF TurnKeeps
<1> QED
  BY <1>1, <1>4, <1>5, <1>6, TurnsKeep

LEMMA PrimaryRepliesSaid ==
  ASSUME TypeInv, TypeInv', SaidInv, NEW n \in Batch(Primary), NEW also, PrimaryReplies(n, also)
  PROVE  SaidInv'
<1>1. Primary \in Agent /\ At(Primary, "idle") /\ turn[Primary].pc = "reply" /\ UNCHANGED <<call, read>> /\ Covering(n, also)
  BY DEF PrimaryReplies, Effect, Asks, On, Agent
<1>2. (\A b \in Agent : TurnKeeps(b)) /\ MarksSay' /\ Moves(Primary) /\ Stays(Primary)
  BY <1>1, MarksSaid
<1>3. CallsSay'
  BY <1>1, <1>2, IdleCallSays
<1>4. CASE n \in turn[Primary].confirmed
  BY <1>2, <1>3, <1>4, SilentSays DEF PrimaryReplies
<1>5. CASE n \notin turn[Primary].confirmed
  <2>1. PICK e : e = Answer("reply", None, log[n].of, {n}) /\ OneMore(e)
    BY <1>5, RecordsOne DEF PrimaryReplies
  <2>2. e.kind = "reply" /\ e.item = None /\ e.re = {n}
    BY <2>1 DEF Answer, Event
  <2>3. \A k \in DOMAIN log : PairOK(log[k], e)
    BY <1>5, <2>2, AnswerAfter
  <2>4. turn'[Primary].pc = "reply" /\ n \in Batch(Primary)'
    BY <1>1, <1>2 DEF Stays, Batch
  <2>5. AnswerOK(e)'
    BY <2>2, <2>4 DEF AnswerOK
  <2>6. SaidOK(e)'
    BY <2>2, <2>5 DEF SaidOK, BySettling, ByRefusal
  <2> QED
    BY <1>2, <1>3, <2>1, <2>3, <2>6, OneSaid DEF SaidInv
<1> QED
  BY <1>4, <1>5

\* The other effects say nothing yet.
LEMMA PrimaryEffectSaid ==
  ASSUME TypeInv, TypeInv', SaidInv, NEW n \in Batch(Primary), PrimaryActs(n), ~\E also : PrimaryReplies(n, also)
  PROVE  SaidInv'
<1>1. \/ (\E also : Recall(n, also) \/ AskWhich(n, also) \/ CreateRefused(n, also) \/ Create(n, also) \/ CreateDeferred(n, also))
      \/ (\E also, i : Route(n, also, i)) \/ (\E items, want, all : SetStatusOf(n, items, want, all))
      \/ (\E i : CancelOf(n, i)) \/ ConfirmOnly(n)
  BY DEF PrimaryActs
<1>2. /\ Primary \in Agent /\ Primary \in Proc /\ At(Primary, "idle") /\ read' = read
      /\ Confirming(n) \/ \E also : Covering(n, also)
  BY <1>1 DEF Recall, AskWhich, CreateRefused, Create, CreateDeferred, Route, SetStatusOf, CancelOf, ConfirmOnly,
              Does, Effect, Asks, On, Agent, Proc
<1>3. call' = call \/ \E c : call' = [call EXCEPT ![Primary] = c] /\ ~Words(c)
  BY <1>1, NoWords DEF Recall, AskWhich, CreateRefused, Create, CreateDeferred, Route, SetStatusOf, CancelOf, ConfirmOnly
<1>4. (\A b \in Agent : TurnKeeps(b)) /\ MarksSay' /\ Moves(Primary)
  BY <1>2, MarksSaid
<1>5. CallsSay'
  <2>1. ~Words(call[Primary])
    BY <1>2 DEF Words, At
  <2> QED
    BY <1>2, <1>3, <1>4, <2>1, CallsSayStill
<1>6. PICK K : K = {"recalled", "refused", "ambiguous", "told", "attributed", "copy"}
  OBVIOUS
<1>7. Adds(K)
  <2>1. CASE \E also : Recall(n, also)
    <3>1. PICK e : e = [Event("recalled", Primary, None, log[n].of) EXCEPT !.hop = log[n].hop + 1, !.re = {n}] /\ Post(e)
      BY <2>1 DEF Recall
    <3>2. e.kind \in K /\ "refused" \in K
      BY <1>6, <3>1 DEF Event
    <3> QED
      BY <3>1, <3>2, RecordAdds
  <2>2. CASE \E also : AskWhich(n, also) \/ CreateRefused(n, also)
    <3>1. PICK kind \in {"ambiguous", "told"} : Record(Answer(kind, None, log[n].of, {n}))
      BY <2>2 DEF AskWhich, CreateRefused
    <3>2. Answer(kind, None, log[n].of, {n}).kind \in K
      BY <1>6 DEF Answer, Event
    <3> QED
      BY <3>1, <3>2, RecordAdds
  <2>3. CASE \E also : CreateDeferred(n, also)
    <3>1. PICK E : E = {Deferred(n, Fresh)[1], Deferred(n, Fresh)[2], Deferred(n, Fresh)[3]}
      OBVIOUS
    <3>2. Added(E)
      BY <2>3, <3>1, DeferredAdds
    <3>3. \A k \in 1..3 : Deferred(n, Fresh)[k].kind \in K
      BY <1>6 DEF Deferred, Answer, Event
    <3>4. \A e \in E : e.kind \in K
      BY <3>1, <3>3
    <3> QED
      BY <3>2, <3>4 DEF Adds
  <2>4. CASE log' = log
    BY <2>4, NoneAdds
  <2> QED
    BY <1>1, <2>1, <2>2, <2>3, <2>4 DEF Create, Route, SetStatusOf, CancelOf, ConfirmOnly
<1>8. \E E : Added(E) /\ \A e \in E : Plain(e)
  BY <1>6, <1>7, PlainKinds
<1> QED
  BY <1>4, <1>5, <1>8, PlainSaid DEF SaidInv

LEMMA PrimarySaid ==
  ASSUME TypeInv, TypeInv', SaidInv, PrimaryTurn
  PROVE  SaidInv'
<1>1. Primary \in Agent
  BY DEF Agent
<1> QED
  BY <1>1, PrimaryBeginsSaid, AbortsSaid, PrimaryOverSaid, PrimaryMovesSaid, PrimaryRepliesSaid, PrimaryEffectSaid DEF PrimaryTurn

LEMMA NextSaid == TypeInv /\ TypeInv' /\ SaidInv /\ [Next]_vars => SaidInv'
<1> SUFFICES ASSUME TypeInv, TypeInv', SaidInv, [Next]_vars  PROVE SaidInv'
  OBVIOUS
<1>1. CASE UNCHANGED vars
  <2>1. UNCHANGED <<call, turn, read, log>>
    BY <1>1 DEF vars, treeVars
  <2>2. CallsSay'
    BY <2>1 DEF SaidInv, CallsSay, SayOK, Now, Batch
  <2> QED
    BY <2>1, <2>2, SameTurnsKeep, SilentSays
<1> QED
  BY <1>1, HandlerSaid, PersonSaid, ManagerSaid, PrimarySaid DEF Next

LEMMA SaidHolds ==
  ASSUME TypeInv, SaidInv
  PROVE  ResultBeforeSettled /\ NoReplyAfterRefusal /\ ConfirmedOnce
<1>1. DOMAIN log = 1..Len(log) /\ Len(log) \in Nat
  BY DEF TypeInv, LogOK, IsLog
<1>2. \A n, k \in DOMAIN log : n < k => PairOK(log[n], log[k])
  BY DEF SaidInv, Pairs
<1>3. ResultBeforeSettled
  BY <1>1, <1>2 DEF ResultBeforeSettled, PairOK, BySettling, Of
<1>4. NoReplyAfterRefusal
  BY <1>1, <1>2 DEF NoReplyAfterRefusal, PairOK, ByRefusal, Of
<1>5. ConfirmedOnce
  <2> SUFFICES ASSUME NEW n \in Of("confirm"), NEW k \in Of("confirm") \cup Of("reply"), log[k].item = None, n # k
               PROVE  log[k].re # log[n].re
    BY DEF ConfirmedOnce
  <2>1. n \in DOMAIN log /\ k \in DOMAIN log /\ (n < k \/ k < n)
    BY <1>1 DEF Of
  <2>2. ByPrimary(log[n]) /\ ByPrimary(log[k]) /\ log[n].kind = "confirm"
    BY DEF ByPrimary, Of
  <2>3. PairOK(log[n], log[k]) \/ PairOK(log[k], log[n])
    BY <1>2, <2>1
  <2> QED
    BY <2>2, <2>3 DEF PairOK
<1> QED
  BY <1>3, <1>4, <1>5

-----------------------------------------------------------------------------
(* Where a message is worked on *)

Latest(m) == MaxOf(Attributions(m))
Bringing(p, m) == call[p].pc = "copy" /\ Now(p).of = m

\* The item the message was given to last has its copy and no call brings one, or one
\* call is about to bring the first copy since.
Brought(m) ==
  /\ \E c \in OfMessage("copy", m) : c > Latest(m) /\ log[c].item = Owner(m)
  /\ \A p \in Proc : ~Bringing(p, m)
ToBring(m) ==
  /\ \A c \in OfMessage("copy", m) : c < Latest(m)
  /\ \E p \in Proc : /\ Bringing(p, m) /\ Now(p).item = Owner(m)
                     /\ \A q \in Proc : Bringing(q, m) => q = p
\* The copies elsewhere were made before the message moved away from there.
Gone(m) == \A c \in OfMessage("copy", m) : \A i \in {log[c].item} : i = Owner(m) \/ MovedAway(i, c)

MoveOK(m) ==
  IF Attributions(m) = {} THEN OfMessage("copy", m) = {} /\ \A p \in Proc : ~Bringing(p, m)
  ELSE (Brought(m) \/ ToBring(m)) /\ Gone(m)

AttributedOK == \A n \in Of("attributed") : log[n].item \in Item
MoveInv == AttributedOK /\ (faults = 0 => \A m \in Message : Orderly(m) => MoveOK(m))

LEMMA MoveInit == Init => MoveInv
<1> SUFFICES ASSUME Init  PROVE MoveInv
  OBVIOUS
<1>1. DOMAIN log = {} /\ \A p \in Proc : call[p].pc = "idle"
  BY DEF Init, TreeInit, Idle
<1>2. \A kind : Of(kind) = {}
  BY <1>1 DEF Of
<1>3. \A m : Attributions(m) = {} /\ OfMessage("copy", m) = {} /\ \A p \in Proc : ~Bringing(p, m)
  BY <1>1, <1>2 DEF Attributions, OfMessage, Bringing
<1> QED
  BY <1>2, <1>3 DEF MoveInv, AttributedOK, MoveOK

LEMMA LatestIs ==
  ASSUME TypeInv, NEW m, Attributions(m) # {}
  PROVE  Latest(m) \in Attributions(m) /\ Owner(m) = log[Latest(m)].item /\ \A k \in Attributions(m) : k <= Latest(m)
<1>1. Len(log) \in Nat /\ DOMAIN log = 1..Len(log)
  BY DEF TypeInv, LogOK, IsLog
<1>2. Attributions(m) \in SUBSET (0..Len(log))
  BY <1>1 DEF Attributions, Of
<1> QED
  BY <1>1, <1>2, MaxOfIsLast DEF Latest, Owner

\* The events about a message that a step adds.
LEMMA OfMessageIs ==
  ASSUME NEW E, Added(E), NEW kind, NEW m
  PROVE  /\ OfMessage(kind, m) \subseteq OfMessage(kind, m)' /\ OfMessage(kind, m)' \subseteq Nat
         /\ \A n \in OfMessage(kind, m) : n \in DOMAIN log /\ log'[n] = log[n] /\ n <= Len(log) /\ n \in Nat
         /\ \A n \in OfMessage(kind, m)' : \/ n \in OfMessage(kind, m)
                                           \/ n > Len(log) /\ log'[n] \in E /\ log'[n].kind = kind /\ log'[n].of = m
<1>1. /\ DOMAIN log = 1..Len(log) /\ DOMAIN log' = 1..Len(log') /\ Len(log) \in Nat /\ Len(log') \in Nat /\ Len(log) <= Len(log')
      /\ (\A n \in DOMAIN log : log'[n] = log[n]) /\ \A n \in DOMAIN log' : n \notin DOMAIN log => log'[n] \in E
  BY DEF Added
<1> QED
  BY <1>1 DEF OfMessage, Of

LEMMA AttributionsAre ==
  ASSUME NEW m
  PROVE  Attributions(m) = OfMessage("attributed", m) /\ Attributions(m)' = OfMessage("attributed", m)'
  BY DEF Attributions, OfMessage

\* Each attribution follows the one before it.
Before(m, n) == {k \in Attributions(m) : k < n}
Follows(m, n) ==
  IF Before(m, n) = {} THEN log[n].prev = None
  ELSE /\ log[n].prev = log[MaxOf(Before(m, n))].item
       /\ \E c \in OfMessage("copy", m) : c \in MaxOf(Before(m, n))..n /\ log[c].item = log[MaxOf(Before(m, n))].item

LEMMA OrderlyIs ==
  ASSUME NEW m
  PROVE  /\ Orderly(m) <=> \A n \in Attributions(m) : Follows(m, n)
         /\ Orderly(m)' <=> \A n \in Attributions(m)' : Follows(m, n)'
  BY DEF Orderly, Follows, Before

LEMMA BeforeIs ==
  ASSUME TypeInv, NEW m, NEW n \in Nat
  PROVE  Before(m, n) # {} => MaxOf(Before(m, n)) \in Attributions(m) /\ MaxOf(Before(m, n)) < n
<1>1. Len(log) \in Nat /\ DOMAIN log = 1..Len(log)
  BY DEF TypeInv, LogOK, IsLog
<1>2. Before(m, n) \in SUBSET (0..Len(log))
  BY <1>1 DEF Before, Attributions, Of
<1>3. Before(m, n) # {} => MaxOf(Before(m, n)) \in Before(m, n)
  BY <1>1, <1>2, MaxOfIsLast
<1> QED
  BY <1>3 DEF Before

\* What was orderly can not become so by what comes later.
LEMMA OrderlyWas ==
  ASSUME TypeInv, NEW E, Added(E), NEW m, Orderly(m)'
  PROVE  Orderly(m)
<1> SUFFICES ASSUME NEW n \in Attributions(m)  PROVE Follows(m, n)
  BY OrderlyIs
<1>1. n \in DOMAIN log /\ log'[n] = log[n] /\ n <= Len(log) /\ n \in Nat /\ n \in Attributions(m)'
  BY AttributionsAre, OfMessageIs
<1>2. PICK B : B = Before(m, n)
  OBVIOUS
<1>3. Before(m, n)' = B
  <2>1. \A k \in Attributions(m)' : k < n => k \in Attributions(m)
    <3>1. \A k \in OfMessage("attributed", m)' : k \in Nat /\ (k \in OfMessage("attributed", m) \/ k > Len(log))
      BY OfMessageIs
    <3> QED
      BY <1>1, <3>1, AttributionsAre DEF Added
  <2>2. Attributions(m) \subseteq Attributions(m)'
    BY AttributionsAre, OfMessageIs
  <2> QED
    BY <1>2, <2>1, <2>2 DEF Before
<1>4. Follows(m, n)'
  BY <1>1, OrderlyIs
<1>5. CASE B = {}
  BY <1>1, <1>2, <1>3, <1>4, <1>5 DEF Follows
<1>6. CASE B # {}
  <2>1. PICK k : k = MaxOf(B)
    OBVIOUS
  <2>2. k \in Attributions(m) /\ k < n
    BY <1>1, <1>2, <1>6, <2>1, BeforeIs
  <2>3. log'[k] = log[k] /\ k \in Nat
    BY <2>2, AttributionsAre, OfMessageIs
  <2>4. log'[n].prev = log'[k].item /\ \E c \in OfMessage("copy", m)' : c \in k..n /\ log'[c].item = log'[k].item
    BY <1>3, <1>4, <1>6, <2>1 DEF Follows
  <2>5. PICK c \in OfMessage("copy", m)' : c \in k..n /\ log'[c].item = log'[k].item
    BY <2>4
  <2>6. c \in OfMessage("copy", m) /\ log'[c] = log[c]
    <3>1. c \in Nat /\ (c \in OfMessage("copy", m) \/ c > Len(log)) /\ Len(log) \in Nat
      BY <2>5, OfMessageIs DEF Added
    <3>2. c <= n
      BY <1>1, <2>3, <2>5
    <3> QED
      BY <1>1, <3>1, <3>2, OfMessageIs
  <2> QED
    BY <1>1, <1>2, <1>6, <2>1, <2>3, <2>4, <2>5, <2>6 DEF Follows
<1> QED
  BY <1>5, <1>6

LEMMA MovedAwayStays ==
  ASSUME NEW E, Added(E), NEW i, NEW c \in DOMAIN log, MovedAway(i, c)
  PROVE  MovedAway(i, c)'
<1>1. PICK k \in DOMAIN log : k > c /\ log[k].kind = "attributed" /\ log[k].of = log[c].of /\ log[k].prev = i
  BY DEF MovedAway
<1>2. k \in DOMAIN log' /\ log'[k] = log[k] /\ log'[c] = log[c]
  BY DEF Added
<1> QED
  BY <1>1, <1>2 DEF MovedAway

\* Nothing was said of this message, and the calls that bring it are where they were.
LEMMA StillMoved ==
  ASSUME TypeInv, NEW m, MoveOK(m), NEW E, Added(E), \A e \in E : e.kind \in {"attributed", "copy"} => e.of # m,
         \A p \in Proc : /\ Bringing(p, m)' <=> Bringing(p, m)
                         /\ Bringing(p, m) => Now(p)' = Now(p)
  PROVE  MoveOK(m)'
<1>1. Attributions(m)' = Attributions(m) /\ OfMessage("copy", m)' = OfMessage("copy", m)
  <2>1. \A kind \in {"attributed", "copy"} : OfMessage(kind, m)' = OfMessage(kind, m)
    <3> SUFFICES ASSUME NEW kind \in {"attributed", "copy"}  PROVE OfMessage(kind, m)' = OfMessage(kind, m)
      OBVIOUS
    <3>1. /\ OfMessage(kind, m) \subseteq OfMessage(kind, m)'
          /\ \A n \in OfMessage(kind, m)' : n \in OfMessage(kind, m) \/ (log'[n] \in E /\ log'[n].kind = kind /\ log'[n].of = m)
      BY OfMessageIs
    <3> QED
      BY <3>1
  <2> QED
    BY <2>1, AttributionsAre
<1>2. \A n \in OfMessage("copy", m) : n \in DOMAIN log /\ log'[n] = log[n]
  BY OfMessageIs
<1>3. CASE Attributions(m) = {}
  BY <1>1, <1>3 DEF MoveOK
<1>4. CASE Attributions(m) # {}
  <2>1. Latest(m)' = Latest(m) /\ Owner(m)' = Owner(m)
    <3>1. Latest(m) \in DOMAIN log
      BY <1>4, LatestIs DEF Attributions, Of
    <3>2. Latest(m)' = Latest(m)
      BY <1>1 DEF Latest
    <3>3. log'[Latest(m)] = log[Latest(m)]
      BY <3>1 DEF Added
    <3> QED
      BY <1>1, <1>4, <3>2, <3>3 DEF Owner, Latest
  <2>2. Brought(m) => Brought(m)'
    BY <1>1, <1>2, <2>1 DEF Brought
  <2>3. ToBring(m) => ToBring(m)'
    BY <1>1, <2>1 DEF ToBring
  <2>4. Gone(m)'
    <3> SUFFICES ASSUME NEW c \in OfMessage("copy", m)', NEW i, i = log'[c].item, i # Owner(m)'  PROVE MovedAway(i, c)'
      BY DEF Gone
    <3>1. c \in DOMAIN log /\ log[c].item = i /\ MovedAway(i, c)
      BY <1>1, <1>2, <1>4, <2>1 DEF MoveOK, Gone
    <3> QED
      BY <3>1, MovedAwayStays
  <2> QED
    BY <1>1, <1>4, <2>2, <2>3, <2>4 DEF MoveOK
<1> QED
  BY <1>3, <1>4

Copying(c) == c.pc = "copy"

\* A step that gives no message to an item.
Unmoving ==
  /\ faults' = faults
  /\ \E E : Added(E) /\ \A e \in E : e.kind # "attributed" /\ (e.kind = "copy" => e.of = None)
  /\ call' = call \/ \E p \in Proc : \E c : call' = [call EXCEPT ![p] = c] /\ ~Copying(call[p]) /\ ~Copying(c)

LEMMA CopiersStay ==
  ASSUME TypeInv, call' = call \/ \E p \in Proc : \E c : call' = [call EXCEPT ![p] = c] /\ ~Copying(call[p]) /\ ~Copying(c)
  PROVE  \A q \in Proc : \A m : /\ Bringing(q, m)' <=> Bringing(q, m)
                                /\ Bringing(q, m) => Now(q)' = Now(q)
<1> SUFFICES ASSUME NEW q \in Proc, NEW m  PROVE (Bringing(q, m)' <=> Bringing(q, m)) /\ (Bringing(q, m) => Now(q)' = Now(q))
  OBVIOUS
<1>1. call'[q] = call[q] \/ (~Copying(call[q]) /\ ~Copying(call'[q]))
  BY DEF TypeInv, CallsOK
<1> QED
  BY <1>1 DEF Bringing, Now, Copying

LEMMA AttributedStays ==
  ASSUME MoveInv, NEW E, Added(E), \A e \in E : e.kind = "attributed" => e.item \in Item
  PROVE  AttributedOK'
<1> SUFFICES ASSUME NEW n \in Of("attributed")', NEW e, e = log'[n]  PROVE e.item \in Item
  BY DEF AttributedOK
<1>1. CASE n \in Of("attributed")
  BY <1>1 DEF MoveInv, AttributedOK, Of, Added
<1>2. CASE n \notin Of("attributed")
  <2>1. e \in E /\ e.kind = "attributed"
    BY <1>2, OfIs
  <2> QED
    BY <2>1
<1> QED
  BY <1>1, <1>2

LEMMA UnmovingKeeps ==
  ASSUME TypeInv, MoveInv, Unmoving
  PROVE  MoveInv'
<1>1. PICK E : Added(E) /\ \A e \in E : e.kind # "attributed" /\ (e.kind = "copy" => e.of = None)
  BY DEF Unmoving
<1>2. AttributedOK'
  BY <1>1, AttributedStays
<1>3. ASSUME faults' = 0, NEW m \in Message, Orderly(m)'  PROVE MoveOK(m)'
  <2>1. Orderly(m)
    BY <1>1, <1>3, OrderlyWas
  <2>2. MoveOK(m)
    BY <1>3, <2>1 DEF MoveInv, Unmoving
  <2>3. \A e \in E : e.kind \in {"attributed", "copy"} => e.of # m
    BY <1>1, WorkTreeAssumption
  <2>4. \A p \in Proc : (Bringing(p, m)' <=> Bringing(p, m)) /\ (Bringing(p, m) => Now(p)' = Now(p))
    BY CopiersStay DEF Unmoving
  <2> QED
    BY <1>1, <2>2, <2>3, <2>4, StillMoved
<1> QED
  BY <1>2, <1>3 DEF MoveInv

LEMMA StillKinds ==
  ASSUME NEW K, K \cap {"attributed", "copy"} = {}, Adds(K)
  PROVE  \E E : Added(E) /\ \A e \in E : e.kind # "attributed" /\ (e.kind = "copy" => e.of = None)
  BY DEF Adds

LEMMA NoCopy ==
  /\ ~Copying(Idle)
  /\ \A todo, saw, prev, re : ~Copying(Delivering(todo, saw, prev, re))
  /\ \A items, want, hop : ~Copying(Changing(items, want, hop))
  /\ \A items, want, hop, re : ~Copying([Changing(items, want, hop) EXCEPT !.re = re])
  /\ \A i : ~Copying(Cancelling(i))
<1>1. ~Copying(Idle)
  BY DEF Copying, Idle
<1>2. ASSUME NEW todo, NEW saw, NEW prev, NEW re  PROVE ~Copying(Delivering(todo, saw, prev, re))
  BY DEF Copying, Delivering, Idle
<1>3. ASSUME NEW items, NEW want, NEW hop  PROVE ~Copying(Changing(items, want, hop))
  BY DEF Copying, Changing, Idle
<1>4. ASSUME NEW items, NEW want, NEW hop, NEW re  PROVE ~Copying([Changing(items, want, hop) EXCEPT !.re = re])
  BY DEF Copying, Changing, Idle
<1>5. ASSUME NEW i  PROVE ~Copying(Cancelling(i))
  BY DEF Copying, Cancelling, Idle
<1> QED
  BY <1>1, <1>2, <1>3, <1>4, <1>5

LEMMA ProceedsOff ==
  ASSUME TypeInv, NEW p \in Proc, NEW pc, Proceeds(p, pc), call[p].pc \in Busy, pc \in Busy \ {"copy"}
  PROVE  \E c : call' = [call EXCEPT ![p] = c] /\ ~Copying(c)
  BY ProceedsTo, IdleIsOK DEF Copying

LEMMA HandlerUnmoving ==
  ASSUME TypeInv, NEW p \in Proc, Step(p), ~Attribute(p), ~Copy(p)
  PROVE  Unmoving
<1>1. \E E : Added(E) /\ \A e \in E : e.kind # "attributed" /\ (e.kind = "copy" => e.of = None)
  <2>1. CASE Siblings(p)
    <3>1. Adds({"reopened"})
      BY <2>1, NoneAdds DEF Siblings
    <3> QED
      BY <3>1, StillKinds
  <2>2. CASE Reopen(p)
    BY <2>2, ReopenAdds, StillKinds
  <2>3. CASE ChangeRow(p)
    BY <2>3, ChangeRowAdds, StillKinds
  <2>4. CASE NotifyParent(p)
    BY <2>4, NotifyParentAdds, StillKinds
  <2>5. CASE StopExecutions(p)
    BY <2>5, StopExecutionsAdds, StillKinds
  <2>6. CASE ClosePart(p)
    BY <2>6, ClosePartAdds, StillKinds
  <2> QED
    BY <2>1, <2>2, <2>3, <2>4, <2>5, <2>6 DEF Step
<1>2. PICK u : u = call[p] /\ {"pc", "todo", "re", "saw"} \subseteq DOMAIN u
  BY DEF TypeInv, CallsOK, CallOK
<1>3. ~Copying(call[p]) /\ faults' = faults
  BY DEF Step, Reopen, ChangeRow, Siblings, NotifyParent, StopExecutions, ClosePart, At, Copying
<1>4. \E c : call' = [call EXCEPT ![p] = c] /\ ~Copying(c)
  <2>1. CASE Reopen(p)
    <3>1. PICK c : c = [u EXCEPT !.saw[Now(p).item] = "open"] /\ call' = [call EXCEPT ![p] = c]
      BY <1>2, <2>1 DEF Reopen
    <3>2. c.pc = "deliver"
      BY <1>2, <2>1, <3>1 DEF Reopen, At
    <3> QED
      BY <3>1, <3>2 DEF Copying
  <2>2. ASSUME NEW pc \in {"siblings", "notify"}, Goto(p, pc)  PROVE \E c : call' = [call EXCEPT ![p] = c] /\ ~Copying(c)
    <3>1. PICK c : c = [u EXCEPT !.pc = pc] /\ call' = [call EXCEPT ![p] = c]
      BY <1>2, <2>2 DEF Goto
    <3>2. c.pc = pc
      BY <1>2, <3>1
    <3> QED
      BY <3>1, <3>2 DEF Copying
  <2>3. CASE ChangeRow(p)
    BY <2>2, <2>3 DEF ChangeRow
  <2>4. CASE Siblings(p)
    <3>1. call[p].pc \in Busy /\ "lock" \in Busy
      BY <2>4 DEF Siblings, At, Busy
    <3> QED
      BY <2>2, <2>4, <3>1, ProceedsOff DEF Siblings
  <2>5. CASE NotifyParent(p) \/ ClosePart(p)
    <3>1. call[p].pc \in Busy /\ {"lock", "close"} \subseteq Busy
      BY <2>5 DEF NotifyParent, ClosePart, At, Busy
    <3>2. Proceeds(p, "lock") \/ Proceeds(p, "close")
      BY <2>5 DEF NotifyParent, ClosePart
    <3> QED
      BY <3>1, <3>2, ProceedsOff
  <2>6. CASE StopExecutions(p)
    <3>1. PICK c : c = (IF u.todo = <<>> THEN Idle ELSE [u EXCEPT !.pc = "close"]) /\ call' = [call EXCEPT ![p] = c]
      BY <1>2, <2>6 DEF StopExecutions, TypeInv, CallsOK
    <3>2. ~Copying(c)
      BY <1>2, <3>1, NoCopy DEF Copying
    <3> QED
      BY <3>1, <3>2
  <2> QED
    BY <2>1, <2>3, <2>4, <2>5, <2>6 DEF Step
<1> QED
  BY <1>1, <1>3, <1>4 DEF Unmoving

LEMMA AskUnmoving ==
  ASSUME TypeInv, NEW p \in Caller, Ask(p)
  PROVE  Unmoving
<1>1. \/ (\E m, targets : Submit(p, m, targets)) \/ (\E m, i : Reattribute(p, m, i)) \/ (\E m : StartFromMessage(p, m))
      \/ (\E i, s : SetStatus(p, i, s)) \/ (\E i : Cancel(p, i))
  BY DEF Ask
<1>2. p \in Proc /\ faults' = faults /\ ~Copying(call[p])
  BY <1>1 DEF Submit, Reattribute, StartFromMessage, SetStatus, Cancel, Called, At, Proc, Copying
<1>3. \E c : call' = [call EXCEPT ![p] = c] /\ ~Copying(c)
  BY <1>1, NoCopy DEF Submit, Reattribute, StartFromMessage, SetStatus, Cancel
<1> QED
  BY <1>2, <1>3, AskAdds, StillKinds DEF Unmoving

LEMMA ManagerUnmoving ==
  ASSUME TypeInv, NEW i \in Item, ManagerTurn(i) \/ ExecutionEnds(i)
  PROVE  Unmoving
<1>1. \E E : Added(E) /\ \A e \in E : e.kind # "attributed" /\ (e.kind = "copy" => e.of = None)
  <2>1. CASE log' = log
    <3>1. Adds({"started"})
      BY <2>1, NoneAdds
    <3> QED
      BY <3>1, StillKinds
  <2>2. CASE \E q : OneMore(q) /\ ManagerEvent(q)
    BY <2>2 DEF OneMore, ManagerEvent, ManagerKinds
  <2> QED
    BY <2>1, <2>2, ManagerTells
<1>2. faults' = faults /\ (call' = call \/ Done(i))
  BY DEF ManagerTurn, ManagerSkips, ManagerAcknowledges, ManagerBegins, Aborts, ManagerFallsBack, ManagerPhase,
         AttachAsks, ManagerReplies, Escalate, AnswerChild, Reroute, Records, Spawn, CreateChild, Done, ExecutionEnds, Quiet
<1>3. Done(i) => ~Copying(call[i]) /\ \E c : call' = [call EXCEPT ![i] = c] /\ ~Copying(c)
  <2>1. Done(i) => ~Copying(call[i])
    BY DEF Done, Effect, Asks, On, At, Copying
  <2>2. Done(i) => \E c : call' = [call EXCEPT ![i] = c] /\ ~Copying(c)
    BY NoCopy DEF Done
  <2> QED
    BY <2>1, <2>2
<1>4. i \in Proc
  BY DEF Proc
<1> QED
  BY <1>1, <1>2, <1>3, <1>4 DEF Unmoving

LEMMA PrimaryUnmoving ==
  ASSUME TypeInv, PrimaryTurn, ~\E n \in Batch(Primary) : \E also : CreateDeferred(n, also)
  PROVE  Unmoving
<1>1. \E E : Added(E) /\ \A e \in E : e.kind # "attributed" /\ (e.kind = "copy" => e.of = None)
  BY PrimarySpeaks, StillKinds DEF SpokenKinds
<1>2. ASSUME NEW n, PrimaryActs(n)
      PROVE  /\ faults' = faults
             /\ call' = call \/ (~Copying(call[Primary]) /\ \E c : call' = [call EXCEPT ![Primary] = c] /\ ~Copying(c))
  <2>1. faults' = faults /\ (call' = call \/ \E c : call' = [call EXCEPT ![Primary] = c] /\ ~Copying(c))
    BY <1>2, NoCopy DEF PrimaryActs, Recall, AskWhich, CreateRefused, PrimaryReplies, Create, CreateDeferred, Route,
                SetStatusOf, CancelOf, ConfirmOnly, Quiet
  <2>2. ~Copying(call[Primary])
    BY <1>2 DEF PrimaryActs, Recall, AskWhich, CreateRefused, PrimaryReplies, Create, CreateDeferred, Route,
                SetStatusOf, CancelOf, ConfirmOnly, Does, Effect, Asks, On, At, Copying
  <2> QED
    BY <2>1, <2>2
<1>3. /\ faults' = faults
      /\ call' = call \/ (~Copying(call[Primary]) /\ \E c : call' = [call EXCEPT ![Primary] = c] /\ ~Copying(c))
  BY <1>2 DEF PrimaryTurn, PrimaryBegins, Aborts, PrimaryFallsBack, PrimaryDecides, Flush, PrimaryEnds, Quiet
<1> QED
  BY <1>1, <1>3 DEF Unmoving, Proc

\* The last attribution is what it was.
LEMMA LatestStays ==
  ASSUME TypeInv, NEW E, Added(E), NEW m, Attributions(m)' = Attributions(m), Attributions(m) # {}
  PROVE  Latest(m)' = Latest(m) /\ Owner(m)' = Owner(m)
<1>1. Latest(m) \in DOMAIN log
  BY LatestIs DEF Attributions, Of
<1>2. Latest(m)' = Latest(m)
  BY DEF Latest
<1>3. log'[Latest(m)] = log[Latest(m)]
  BY <1>1 DEF Added
<1> QED
  BY <1>2, <1>3 DEF Owner, Latest

\* The last attribution is the one this step adds.
LEMMA LatestAdded ==
  ASSUME TypeInv, TypeInv', NEW E, Added(E), NEW m, NEW k \in Nat, k = Len(log) + 1, k \in Attributions(m)',
         \A j \in Attributions(m)' : j \in Attributions(m) \/ j = k
  PROVE  Latest(m)' = k /\ Owner(m)' = log'[k].item /\ Before(m, k)' = Attributions(m)
<1>1. /\ Len(log) \in Nat /\ Attributions(m) \subseteq Attributions(m)'
      /\ \A j \in Attributions(m) : j <= Len(log) /\ j \in Nat
  <2>1. /\ Len(log) \in Nat /\ OfMessage("attributed", m) \subseteq OfMessage("attributed", m)'
        /\ \A j \in OfMessage("attributed", m) : j <= Len(log) /\ j \in Nat
    BY OfMessageIs DEF Added
  <2> QED
    BY <2>1, AttributionsAre
<1>2. \A j \in Attributions(m) : j < k
  BY <1>1
<1>3. Before(m, k)' = Attributions(m)
  <2>1. Before(m, k)' = {j \in Attributions(m)' : j < k}
    BY DEF Before
  <2>2. ~(k < k)
    OBVIOUS
  <2> QED
    BY <1>1, <1>2, <2>1, <2>2
<1>4. /\ Latest(m)' \in Attributions(m)' /\ Owner(m)' = log'[Latest(m)'].item
      /\ \A j \in Attributions(m)' : j <= Latest(m)'
  <2>1. PICK S : S = Attributions(m)'
    OBVIOUS
  <2>2. \A j \in S : j \in 0..k
    BY <1>1, <1>2, <2>1
  <2>3. S \in SUBSET (0..k) /\ S # {}
    BY <2>1, <2>2
  <2>4. MaxOf(S) \in S /\ \A j \in S : j <= MaxOf(S)
    BY <2>3, MaxOfIsLast
  <2> QED
    BY <2>1, <2>3, <2>4 DEF Latest, Owner
<1>5. PICK l : l = Latest(m)'
  OBVIOUS
<1>6. l = k
  <2>1. l \in Attributions(m) => l < k /\ l \in Nat
    BY <1>1, <1>2
  <2>2. k <= l /\ (l \in Attributions(m) \/ l = k)
    BY <1>4, <1>5
  <2> QED
    BY <2>1, <2>2
<1> QED
  BY <1>3, <1>4, <1>5, <1>6

LEMMA CallFailsMoves ==
  ASSUME TypeInv, MoveInv, NEW p, CallFails(p)
  PROVE  MoveInv'
<1>1. faults' # 0
  BY DEF CallFails, TypeInv, TreeOK
<1>2. AttributedOK'
  <2>1. Added({})
    BY AddedNone DEF CallFails, TypeInv, LogOK
  <2> QED
    BY <2>1, AttributedStays
<1> QED
  BY <1>1, <1>2 DEF MoveInv

\* The copy goes to the item that waits for it.
LEMMA CopyBrings ==
  ASSUME TypeInv, NEW p \in Proc, NEW m \in Message, Bringing(p, m), MoveOK(m), NEW e, OneMore(e),
         e.kind = "copy" /\ e.of = m /\ e.item = Now(p).item,
         \A q \in Proc : ~Bringing(q, m)' \/ (q # p /\ Bringing(q, m))
  PROVE  MoveOK(m)'
<1>1. Attributions(m) # {} /\ ToBring(m) /\ Gone(m) /\ Added({e})
  BY DEF MoveOK, Brought, OneMore
<1>2. Now(p).item = Owner(m) /\ \A q \in Proc : Bringing(q, m) => q = p
  BY <1>1 DEF ToBring
<1>3. Attributions(m)' = Attributions(m)
  <2>1. /\ OfMessage("attributed", m) \subseteq OfMessage("attributed", m)'
        /\ \A n \in OfMessage("attributed", m)' : n \in OfMessage("attributed", m) \/ (log'[n] \in {e} /\ log'[n].kind = "attributed")
    BY <1>1, OfMessageIs
  <2> QED
    BY <2>1, AttributionsAre
<1>4. Latest(m)' = Latest(m) /\ Owner(m)' = Owner(m) /\ Latest(m) \in Attributions(m)
  BY <1>1, <1>3, LatestStays, LatestIs
<1>5. Latest(m) <= Len(log) /\ Latest(m) \in Nat /\ Len(log) \in Nat
  <2>1. Latest(m) \in OfMessage("attributed", m)
    BY <1>4, AttributionsAre
  <2>2. \A j \in OfMessage("attributed", m) : j <= Len(log) /\ j \in Nat
    BY <1>1, OfMessageIs
  <2>3. Len(log) \in Nat
    BY <1>1 DEF Added
  <2> QED
    BY <2>1, <2>2, <2>3
<1>6. PICK k \in Nat : k = Len(log) + 1
  BY <1>5
<1>7. k > Latest(m) /\ k \in OfMessage("copy", m)' /\ log'[k].item = Owner(m)
  <2>1. log'[k] = e /\ k \in DOMAIN log'
    BY <1>6 DEF OneMore, Added
  <2> QED
    BY <1>2, <1>5, <1>6, <2>1 DEF OfMessage, Of
<1>8. \A q \in Proc : ~Bringing(q, m)'
  BY <1>2
<1>9. Brought(m)'
  BY <1>4, <1>7, <1>8 DEF Brought
<1>10. Gone(m)'
  <2> SUFFICES ASSUME NEW c \in OfMessage("copy", m)', NEW i, i = log'[c].item, i # Owner(m)'  PROVE MovedAway(i, c)'
    BY DEF Gone
  <2>1. c \in OfMessage("copy", m)
    <3>1. c \in OfMessage("copy", m) \/ log'[c] \in {e}
      BY <1>1, OfMessageIs
    <3> QED
      BY <1>2, <1>4, <3>1
  <2>2. c \in DOMAIN log /\ log[c].item = i
    BY <1>1, <2>1, OfMessageIs
  <2>3. MovedAway(i, c)
    BY <1>1, <1>4, <2>1, <2>2 DEF Gone
  <2> QED
    BY <1>1, <2>2, <2>3, MovedAwayStays
<1> QED
  BY <1>1, <1>3, <1>9, <1>10 DEF MoveOK

LEMMA CopyMoves ==
  ASSUME MaxHops > 0, TypeInv, MoveInv, NEW p \in Proc, Copy(p)
  PROVE  MoveInv'
<1>1. PICK e : e = [Event("copy", Now(p).item, Now(p).item, Now(p).of) EXCEPT !.hop = 1] /\ Post(e)
  BY DEF Copy
<1>2. e.kind = "copy" /\ e.of = Now(p).of /\ e.item = Now(p).item /\ e.hop = 1
  BY <1>1 DEF Event
<1>3. OneMore(e) /\ Added({e})
  <2>1. ~(e.hop > MaxHops)
    BY <1>2, WorkTreeAssumption
  <2>2. Record(e)
    BY <1>1, <2>1 DEF Post, Posted
  <2> QED
    BY <2>2, RecordsOne DEF OneMore
<1>4. AttributedOK'
  BY <1>2, <1>3, AttributedStays
<1>5. call[p].pc = "copy" /\ faults' = faults /\ call[p].pc \in Busy /\ "deliver" \in Busy \ {"copy"}
  BY DEF Copy, At, Busy
<1>6. PICK c : call' = [call EXCEPT ![p] = c] /\ ~Copying(c)
  BY <1>5, ProceedsOff DEF Copy
<1>7. call'[p].pc # "copy" /\ \A q \in Proc : q # p => call'[q] = call[q]
  BY <1>6 DEF Copying, TypeInv, CallsOK
<1>8. ASSUME faults' = 0, NEW m \in Message, Orderly(m)'  PROVE MoveOK(m)'
  <2>1. Orderly(m)
    BY <1>3, <1>8, OrderlyWas
  <2>2. MoveOK(m)
    BY <1>5, <1>8, <2>1 DEF MoveInv
  <2>3. CASE Now(p).of = m
    <3>1. Bringing(p, m)
      BY <1>5, <2>3 DEF Bringing
    <3>2. \A q \in Proc : ~Bringing(q, m)' \/ (q # p /\ Bringing(q, m))
      BY <1>7 DEF Bringing, Now
    <3> QED
      BY <1>2, <1>3, <2>2, <2>3, <3>1, <3>2, CopyBrings
  <2>4. CASE Now(p).of # m
    <3>1. \A q \in Proc : (Bringing(q, m)' <=> Bringing(q, m)) /\ (Bringing(q, m) => Now(q)' = Now(q))
      BY <1>7, <2>4 DEF Bringing, Now
    <3>2. \A x \in {e} : x.kind \in {"attributed", "copy"} => x.of # m
      BY <1>2, <2>4
    <3> QED
      BY <1>3, <2>2, <3>1, <3>2, StillMoved
  <2> QED
    BY <2>3, <2>4
<1> QED
  BY <1>4, <1>8 DEF MoveInv

\* The message moves on from the item it was given to before.
LEMMA AttributeMoves ==
  ASSUME TypeInv, TypeInv', NEW p \in Proc, NEW m \in Message, call[p].pc = "deliver", Now(p).of = m, MoveOK(m), Orderly(m)',
         NEW e, OneMore(e), e.kind = "attributed" /\ e.of = m /\ e.item = Now(p).item,
         call'[p].pc = "copy" /\ Now(p)' = Now(p), \A q \in Proc : q # p => call'[q] = call[q]
  PROVE  MoveOK(m)'
<1>1. Added({e}) /\ Len(log) \in Nat
  BY DEF OneMore, Added
<1>2. PICK k \in Nat : k = Len(log) + 1
  BY <1>1
<1>3. log'[k] = e /\ k \in DOMAIN log' /\ k \in Attributions(m)'
  BY <1>2 DEF OneMore, Added, Attributions, Of
<1>4. \A j \in Attributions(m)' : j \in Attributions(m) \/ j = k
  <2>1. \A j \in OfMessage("attributed", m)' : j \in OfMessage("attributed", m) \/ (j > Len(log) /\ j \in DOMAIN log')
    <3> TAKE j \in OfMessage("attributed", m)'
    <3>1. j \in OfMessage("attributed", m) \/ j > Len(log)
      BY <1>1, OfMessageIs
    <3>2. j \in DOMAIN log'
      BY DEF OfMessage, Of
    <3> QED
      BY <3>1, <3>2
  <2>2. \A j \in DOMAIN log' : j > Len(log) => j = k
    BY <1>1, <1>2 DEF OneMore, Added
  <2> QED
    BY <2>1, <2>2, AttributionsAre
<1>5. Latest(m)' = k /\ Owner(m)' = e.item /\ Before(m, k)' = Attributions(m)
  BY <1>1, <1>2, <1>3, <1>4, LatestAdded
<1>6. \A c \in OfMessage("copy", m)' : c \in OfMessage("copy", m) /\ c < k /\ c \in DOMAIN log /\ log'[c] = log[c] /\ c \in Nat
  <2>1. /\ \A c \in OfMessage("copy", m)' : c \in OfMessage("copy", m) \/ (log'[c] \in {e} /\ log'[c].kind = "copy")
        /\ \A c \in OfMessage("copy", m) : c \in DOMAIN log /\ log'[c] = log[c] /\ c <= Len(log) /\ c \in Nat
    BY <1>1, OfMessageIs
  <2> QED
    BY <1>1, <1>2, <2>1
<1>7. (\A q \in Proc : ~Bringing(q, m)) /\ Gone(m)
  <2>1. CASE Attributions(m) = {}
    BY <1>6, <2>1 DEF MoveOK, Gone
  <2>2. CASE Attributions(m) # {}
    <3>1. Follows(m, k)'
      BY <1>3, OrderlyIs
    <3>2. PICK B : B = Attributions(m)
      OBVIOUS
    <3>3. PICK c \in OfMessage("copy", m)' : c \in MaxOf(B)..k
      BY <1>5, <2>2, <3>1, <3>2 DEF Follows
    <3>4. MaxOf(B) = Latest(m) /\ Latest(m) \in Nat
      <4>1. Latest(m) \in DOMAIN log
        BY <2>2, LatestIs DEF Attributions, Of
      <4>2. DOMAIN log = 1..Len(log)
        BY <1>1 DEF Added
      <4> QED
        BY <1>1, <3>2, <4>1, <4>2 DEF Latest
    <3>5. ~(c < Latest(m)) /\ c \in OfMessage("copy", m)
      BY <1>2, <1>6, <3>3, <3>4
    <3> QED
      BY <2>2, <3>5 DEF MoveOK, ToBring, Brought
  <2> QED
    BY <2>1, <2>2
<1>8. ToBring(m)'
  <2>1. \A c \in OfMessage("copy", m)' : c < k
    BY <1>6
  <2>2. Bringing(p, m)' /\ Now(p)'.item = e.item
    BY DEF Bringing
  <2>3. \A q \in Proc : Bringing(q, m)' => q = p
    BY <1>7 DEF Bringing, Now
  <2> QED
    BY <1>5, <2>1, <2>2, <2>3 DEF ToBring
<1>9. Gone(m)'
  <2> SUFFICES ASSUME NEW c \in OfMessage("copy", m)', NEW i, i = log'[c].item  PROVE MovedAway(i, c)'
    BY DEF Gone
  <2>1. c \in OfMessage("copy", m) /\ c \in DOMAIN log /\ log[c].item = i /\ log'[c] = log[c] /\ c < k
    BY <1>6
  <2>2. CASE Attributions(m) # {} /\ i = Owner(m)
    <3>1. e.prev = i
      <4>1. Follows(m, k)'
        BY <1>3, OrderlyIs
      <4>2. log'[k].prev = log'[MaxOf(Attributions(m))].item
        <5>1. PICK B : B = Attributions(m)
          OBVIOUS
        <5> QED
          BY <1>5, <2>2, <4>1, <5>1 DEF Follows
      <4>3. MaxOf(Attributions(m)) = Latest(m) /\ Latest(m) \in DOMAIN log /\ Owner(m) = log[Latest(m)].item
        BY <2>2, LatestIs DEF Latest, Attributions, Of
      <4> QED
        BY <1>1, <1>3, <2>2, <4>2, <4>3 DEF Added
    <3>2. log'[c].kind = "copy" /\ log'[c].of = m /\ m # None
      BY <2>1, WorkTreeAssumption DEF OfMessage, Of
    <3> QED
      BY <1>3, <2>1, <3>1, <3>2 DEF MovedAway
  <2>3. CASE Attributions(m) # {} /\ i # Owner(m)
    <3>1. MovedAway(i, c)
      BY <1>7, <2>1, <2>3 DEF Gone
    <3> QED
      BY <1>1, <2>1, <3>1, MovedAwayStays
  <2>4. CASE Attributions(m) = {}
    BY <2>1, <2>4 DEF MoveOK
  <2> QED
    BY <2>2, <2>3, <2>4
<1> QED
  BY <1>3, <1>8, <1>9 DEF MoveOK

LEMMA AttributeKeeps ==
  ASSUME TypeInv, TypeInv', MoveInv, NEW p \in Proc, Attribute(p)
  PROVE  MoveInv'
<1>1. PICK e : /\ e = [Event("attributed", None, Now(p).item, Now(p).of) EXCEPT !.prev = call[p].prev, !.re = call[p].re]
               /\ Record(e)
  BY DEF Attribute
<1>2. e.kind = "attributed" /\ e.of = Now(p).of /\ e.item = Now(p).item
  BY <1>1 DEF Event
<1>3. OneMore(e) /\ Added({e})
  BY <1>1, RecordsOne DEF OneMore
<1>4. call[p].pc = "deliver" /\ faults' = faults /\ call[p].pc \in Busy /\ Now(p).item \in Item
  BY NowIsJob DEF Attribute, At, Busy
<1>5. AttributedOK'
  BY <1>2, <1>3, <1>4, AttributedStays
<1>6. call[p].todo # <<>> /\ "copy" \in CallPcs
  BY <1>4, NowIsJob DEF CallPcs
<1>7. PICK c : call' = [call EXCEPT ![p] = c] /\ c.pc = "copy" /\ c.todo = call[p].todo
  BY <1>6, GoesTo DEF Attribute
<1>8. call'[p].pc = "copy" /\ Now(p)' = Now(p) /\ \A q \in Proc : q # p => call'[q] = call[q]
  BY <1>7 DEF Now, TypeInv, CallsOK
<1>9. ASSUME faults' = 0, NEW m \in Message, Orderly(m)'  PROVE MoveOK(m)'
  <2>1. Orderly(m)
    BY <1>3, <1>9, OrderlyWas
  <2>2. MoveOK(m)
    BY <1>4, <1>9, <2>1 DEF MoveInv
  <2>3. CASE Now(p).of = m
    BY <1>2, <1>3, <1>4, <1>8, <1>9, <2>2, <2>3, AttributeMoves
  <2>4. CASE Now(p).of # m
    <3>1. \A q \in Proc : (Bringing(q, m)' <=> Bringing(q, m)) /\ (Bringing(q, m) => Now(q)' = Now(q))
      BY <1>4, <1>8, <2>4 DEF Bringing, Now
    <3>2. \A x \in {e} : x.kind \in {"attributed", "copy"} => x.of # m
      BY <1>2, <2>4
    <3> QED
      BY <1>3, <2>2, <3>1, <3>2, StillMoved
  <2> QED
    BY <2>3, <2>4
<1> QED
  BY <1>5, <1>9 DEF MoveInv

\* A new item whose Manager is not woken has the message, which nobody had before.
LEMMA DeferredMoves ==
  ASSUME TypeInv, TypeInv', AttributedOK, NEW n, NEW also, CreateDeferred(n, also), NEW m \in Message, log[n].of = m, MoveOK(m), Orderly(m)'
  PROVE  MoveOK(m)'
<1>1. PICK a, b, c : a = Deferred(n, Fresh)[1] /\ b = Deferred(n, Fresh)[2] /\ c = Deferred(n, Fresh)[3]
  OBVIOUS
<1>2. /\ a.kind = "attributed" /\ a.of = m /\ a.item = Fresh /\ a.prev = None
      /\ b.kind = "copy" /\ b.of = m /\ b.item = Fresh /\ c.kind = "told"
  BY <1>1 DEF Deferred, Answer, Event
<1>3. PICK E : E = {a, b, c}
  OBVIOUS
<1>4. /\ Added(E) /\ Len(log') = Len(log) + 3
      /\ log'[Len(log) + 1] = a /\ log'[Len(log) + 2] = b /\ log'[Len(log) + 3] = c
  <2>1. 1 \in 1..3 /\ 2 \in 1..3 /\ 3 \in 1..3
    OBVIOUS
  <2> QED
    BY <1>1, <1>3, <2>1, DeferredAdds
<1>5. PICK k \in Nat : k = Len(log) + 1
  BY <1>4 DEF Added
<1>6. /\ Len(log) \in Nat /\ DOMAIN log' = 1..(k + 2) /\ k \in DOMAIN log' /\ k + 1 \in DOMAIN log'
      /\ log'[k] = a /\ log'[k + 1] = b /\ log'[k + 2] = c
      /\ \A j \in DOMAIN log' : j > Len(log) => j = k \/ j = k + 1 \/ j = k + 2
  BY <1>4, <1>5 DEF Added
<1>7. k \in Attributions(m)' /\ k + 1 \in OfMessage("copy", m)'
  BY <1>2, <1>6 DEF Attributions, OfMessage, Of
<1>8. \A j \in Attributions(m)' : j \in Attributions(m) \/ j = k
  <2>1. \A j \in OfMessage("attributed", m)' :
          j \in OfMessage("attributed", m) \/ (j > Len(log) /\ j \in DOMAIN log' /\ log'[j].kind = "attributed")
    <3>1. \A j \in OfMessage("attributed", m)' : j \in OfMessage("attributed", m) \/ j > Len(log)
      BY <1>4, OfMessageIs
    <3>2. \A j \in OfMessage("attributed", m)' : j \in DOMAIN log' /\ log'[j].kind = "attributed"
      BY DEF OfMessage, Of
    <3> QED
      BY <3>1, <3>2
  <2> QED
    BY <1>2, <1>6, <2>1, AttributionsAre
<1>9. \A j \in OfMessage("copy", m)' : j \in OfMessage("copy", m) \/ j = k + 1
  <2>1. \A j \in OfMessage("copy", m)' :
          j \in OfMessage("copy", m) \/ (j > Len(log) /\ j \in DOMAIN log' /\ log'[j].kind = "copy")
    <3>1. \A j \in OfMessage("copy", m)' : j \in OfMessage("copy", m) \/ j > Len(log)
      BY <1>4, OfMessageIs
    <3>2. \A j \in OfMessage("copy", m)' : j \in DOMAIN log' /\ log'[j].kind = "copy"
      BY DEF OfMessage, Of
    <3> QED
      BY <3>1, <3>2
  <2> QED
    BY <1>2, <1>6, <2>1
<1>10. Latest(m)' = k /\ Owner(m)' = Fresh /\ Before(m, k)' = Attributions(m)
  BY <1>2, <1>4, <1>5, <1>6, <1>7, <1>8, LatestAdded
<1>11. Attributions(m) = {}
  <2> SUFFICES ASSUME Attributions(m) # {}  PROVE FALSE
    OBVIOUS
  <2>1. Latest(m) \in DOMAIN log /\ log[Latest(m)].item \in Item
    <3>1. Latest(m) \in Attributions(m)
      BY LatestIs
    <3> QED
      BY <3>1 DEF AttributedOK, Attributions, Of
  <2>2. Follows(m, k)'
    BY <1>7, OrderlyIs
  <2>3. PICK B : B = Attributions(m)
    OBVIOUS
  <2>4. log'[k].prev = log'[MaxOf(B)].item
    BY <1>10, <2>2, <2>3 DEF Follows
  <2>5. MaxOf(B) = Latest(m) /\ log'[Latest(m)] = log[Latest(m)]
    BY <1>4, <2>1, <2>3 DEF Latest, Added
  <2> QED
    BY <1>2, <1>6, <2>1, <2>4, <2>5, NoneIsNobody
<1>12. OfMessage("copy", m) = {} /\ \A p \in Proc : ~Bringing(p, m)
  BY <1>11 DEF MoveOK
<1>13. \A p \in Proc : ~Bringing(p, m)'
  BY <1>12 DEF Bringing, Now, CreateDeferred
<1>14. k + 1 > k /\ log'[k + 1].item = Fresh
  BY <1>2, <1>6
<1>15. Brought(m)'
  BY <1>7, <1>10, <1>13, <1>14 DEF Brought
<1>16. Gone(m)'
  BY <1>9, <1>10, <1>12, <1>14 DEF Gone
<1> QED
  BY <1>7, <1>15, <1>16 DEF MoveOK

LEMMA DeferredKeeps ==
  ASSUME TypeInv, TypeInv', MoveInv, NEW n, NEW also, CreateDeferred(n, also)
  PROVE  MoveInv'
<1>1. PICK E : E = {Deferred(n, Fresh)[1], Deferred(n, Fresh)[2], Deferred(n, Fresh)[3]}
  OBVIOUS
<1>2. Added(E)
  BY <1>1, DeferredAdds
<1>3. Fresh \in Item
  BY FreshIsFree DEF CreateDeferred
<1>4. \A e \in E : (e.kind = "attributed" => e.item \in Item) /\ (e.kind \in {"attributed", "copy"} => e.of = log[n].of)
  <2>1. \A k \in 1..3 : /\ Deferred(n, Fresh)[k].kind = "attributed" => Deferred(n, Fresh)[k].item \in Item
                        /\ Deferred(n, Fresh)[k].of = log[n].of
    BY <1>3 DEF Deferred, Answer, Event
  <2> QED
    BY <1>1, <2>1
<1>5. AttributedOK'
  BY <1>2, <1>4, AttributedStays
<1>6. faults' = faults /\ call' = call
  BY DEF CreateDeferred
<1>7. ASSUME faults' = 0, NEW m \in Message, Orderly(m)'  PROVE MoveOK(m)'
  <2>1. Orderly(m)
    BY <1>2, <1>7, OrderlyWas
  <2>2. MoveOK(m)
    BY <1>6, <1>7, <2>1 DEF MoveInv
  <2>3. CASE log[n].of = m
    BY <1>7, <2>2, <2>3, DeferredMoves DEF MoveInv
  <2>4. CASE log[n].of # m
    <3>1. \A q \in Proc : (Bringing(q, m)' <=> Bringing(q, m)) /\ (Bringing(q, m) => Now(q)' = Now(q))
      BY <1>6 DEF Bringing, Now
    <3>2. \A x \in E : x.kind \in {"attributed", "copy"} => x.of # m
      BY <1>4, <2>4
    <3> QED
      BY <1>2, <2>2, <3>1, <3>2, StillMoved
  <2> QED
    BY <2>3, <2>4
<1> QED
  BY <1>5, <1>7 DEF MoveInv

LEMMA NextMoves == ASSUME MaxHops > 0, TypeInv, TypeInv', MoveInv, [Next]_vars  PROVE MoveInv'
<1>1. ASSUME NEW p \in Proc, Step(p)  PROVE MoveInv'
  BY <1>1, HandlerUnmoving, UnmovingKeeps, AttributeKeeps, CopyMoves
<1>2. ASSUME NEW p \in Caller, Ask(p) \/ CallFails(p)  PROVE MoveInv'
  BY <1>2, AskUnmoving, UnmovingKeeps, CallFailsMoves
<1>3. ASSUME NEW i \in Item, ManagerTurn(i) \/ ExecutionEnds(i)  PROVE MoveInv'
  BY <1>3, ManagerUnmoving, UnmovingKeeps
<1>4. ASSUME PrimaryTurn  PROVE MoveInv'
  BY <1>4, PrimaryUnmoving, UnmovingKeeps, DeferredKeeps
<1>5. ASSUME UNCHANGED vars  PROVE MoveInv'
  <2>1. log' = log /\ call' = call /\ faults' = faults
    BY <1>5 DEF vars, treeVars
  <2>2. Adds({"started"})
    BY <2>1, NoneAdds
  <2>3. Unmoving
    BY <2>1, <2>2, StillKinds DEF Unmoving
  <2> QED
    BY <2>3, UnmovingKeeps
<1> QED
  BY <1>1, <1>2, <1>3, <1>4, <1>5 DEF Next

\* Nothing on its way: the Manager of the last item has it, and nobody else.
LEMMA MovedIsThere == TypeInv /\ MoveInv => MovedOnce
<1> SUFFICES ASSUME TypeInv, MoveInv, faults = 0, NEW m \in Message, Orderly(m), Attributions(m) # {}, ~InFlight(m)
             PROVE  LiveAt(m) = {Owner(m)}
  BY DEF MovedOnce
<1>1. \A p \in Proc : ~Bringing(p, m)
  <2> SUFFICES ASSUME NEW p \in Proc, Bringing(p, m)  PROVE FALSE
    OBVIOUS
  <2>1. 1 \in DOMAIN call[p].todo /\ call[p].todo[1] = Now(p)
    BY NowIsJob DEF Bringing, Busy
  <2> QED
    BY <2>1 DEF Bringing, InFlight
<1>2. Brought(m) /\ Gone(m)
  BY <1>1 DEF MoveInv, MoveOK, ToBring
<1>3. \A i \in LiveAt(m) : i = Owner(m)
  BY <1>2 DEF LiveAt, Gone
<1>4. Owner(m) \in LiveAt(m)
  <2>1. PICK c \in OfMessage("copy", m) : c > Latest(m) /\ log[c].item = Owner(m)
    BY <1>2 DEF Brought
  <2>2. ~MovedAway(Owner(m), c)
    <3> SUFFICES ASSUME MovedAway(Owner(m), c)  PROVE FALSE
      OBVIOUS
    <3>1. PICK k \in DOMAIN log : k > c /\ log[k].kind = "attributed" /\ log[k].of = log[c].of
      BY DEF MovedAway
    <3>2. k \in Attributions(m)
      BY <2>1, <3>1 DEF Attributions, OfMessage, Of
    <3>3. k <= Latest(m) /\ Latest(m) \in DOMAIN log
      BY <3>2, LatestIs DEF Attributions, Of
    <3>4. DOMAIN log = 1..Len(log) /\ Len(log) \in Nat /\ c \in DOMAIN log
      BY <2>1 DEF TypeInv, LogOK, IsLog, OfMessage, Of
    <3> QED
      BY <2>1, <3>1, <3>3, <3>4
  <2> QED
    BY <2>1, <2>2 DEF LiveAt
<1> QED
  BY <1>3, <1>4

-----------------------------------------------------------------------------
LEMMA AllInvariant == Spec => [](TypeInv /\ HeardInv /\ SaidInv)
<1>1. Init => TypeInv /\ HeardInv /\ SaidInv
  BY TypeInit, HeardInit, SaidInit
<1>2. TypeInv /\ HeardInv /\ SaidInv /\ [Next]_vars => (TypeInv /\ HeardInv /\ SaidInv)'
  BY NextTypes, NextHeard, NextSaid
<1> QED
  BY <1>1, <1>2, PTL DEF Spec

\* The Manager of an item is told once that its parts have settled: between two such
\* notices a part was settled again (notifyParentIfSettled runs under statusMu).
THEOREM NoticeGivenOnce == Spec => []HeardOnce
<1>1. TypeInv /\ HeardInv => HeardOnce
  BY DEF HeardInv
<1> QED
  BY <1>1, AllInvariant, PTL

\* When the last of its parts has settled the Manager of an item is told, or the person
\* that the chain was too long, unless a cancel closed a part afterwards.
THEOREM NoticeGiven == Spec => []SettledIsHeard
<1>1. TypeInv /\ HeardInv => SettledIsHeard
  BY AnsweredIsHeard
<1> QED
  BY <1>1, AllInvariant, PTL

\* A Manager that closes its item has given its replies before: the phases of its effects
\* end with the status, and the turn waits for the call that sets it.
THEOREM ResultsFirst == Spec => []ResultBeforeSettled
<1>1. TypeInv /\ SaidInv => ResultBeforeSettled
  BY SaidHolds
<1> QED
  BY <1>1, AllInvariant, PTL

\* After a dispatch the budget refused, the turn says nothing as if it had happened, and
\* no later turn answers the same messages.
THEOREM RefusalsSilence == Spec => []NoReplyAfterRefusal
<1>1. TypeInv /\ SaidInv => NoReplyAfterRefusal
  BY SaidHolds
<1> QED
  BY <1>1, AllInvariant, PTL

\* What was changed or cancelled for a message is told once: neither again nor in the
\* model's own words, by this turn of the Primary or a later one.
THEOREM ConfirmationsOnce == Spec => []ConfirmedOnce
<1>1. TypeInv /\ SaidInv => ConfirmedOnce
  BY SaidHolds
<1> QED
  BY <1>1, AllInvariant, PTL

\* A message that was moved, also back and forth, is for the Manager of the item it was
\* moved to last and for no other, when its moves followed each other and no call failed:
\* the attribution says where it came from, and a Manager drops a copy that a later one
\* took away.  The Manager's copy is one hop deep, and with no hop allowed it is refused.
THEOREM MovesArrive == ASSUME MaxHops > 0 PROVE Spec => []MovedOnce
<1>1. Init => TypeInv /\ MoveInv
  BY TypeInit, MoveInit
<1>2. TypeInv /\ MoveInv /\ [Next]_vars => (TypeInv /\ MoveInv)'
  BY NextTypes, NextMoves
<1>3. TypeInv /\ MoveInv => MovedOnce
  BY MovedIsThere
<1> QED
  BY <1>1, <1>2, <1>3, PTL DEF Spec
====
