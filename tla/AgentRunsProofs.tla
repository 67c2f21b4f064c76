--------------------------- MODULE AgentRunsProofs ---------------------------
(***************************************************************************)
(* Safety of a run of any of the three agents, whatever is said to it and    *)
(* however it is stopped: its types, and that it implements SteeredWords     *)
(* (what Steer accepts is read if the run ends well, what it refuses is not  *)
(* read unless the run is being stopped).                                    *)
(***************************************************************************)
EXTENDS AgentRuns, FiniteSetTheorems, SequenceTheorems, TLAPS

-----------------------------------------------------------------------------
(* The inductive invariant                                                  *)

Text == Word \cup {Prompt}
Statuses == {"new", "asking", "accepted", "refused"}

\* The process and what is said to it; a run that has returned has read all there was.
ProcInv ==
  /\ DOMAIN proc = {"stdin", "state", "doomed", "timedOut", "crashed", "stops"}
  /\ proc.stdin \in {"open", "closed"} /\ proc.state \in {"up", "down", "done"}
  /\ proc.doomed \in BOOLEAN /\ proc.timedOut \in BOOLEAN /\ proc.crashed \in BOOLEAN
  /\ word \in [Word -> Statuses] /\ read \subseteq Word
  /\ result \in {"none", "ok", "failed", "cancelled"}
  /\ proc.state = "done" => out = <<>>
  /\ result # "none" => proc.state = "done"
  /\ proc.timedOut => proc.doomed
  /\ proc.crashed => proc.state # "up"
  /\ proc.state # "up" => proc.crashed \/ proc.doomed \/ proc.stdin = "closed"

(* Claude *)

ClaudeIn == [k : {"user"}, words : {<<x>> : x \in Text}]
ClaudeOut == [k : {"replay"}, words : Seq(Text), plain : BOOLEAN]
             \cup [k : {"result"}, error : BOOLEAN, queued : Int]
ResultLines(lines) == {n \in DOMAIN lines : lines[n].k = "result"}

ClaudeTypes ==
  /\ DOMAIN r = {"cancelled", "finishing", "sent", "results", "unread", "seen", "error"}
  /\ r.cancelled \in BOOLEAN /\ r.sent \in Nat /\ r.results \in Nat /\ r.unread \in Seq(Text)
  /\ DOMAIN cli = {"queue", "turn", "counts"} /\ cli.queue \in Seq(Text) /\ cli.turn \in BOOLEAN
  /\ pipe \in Seq(ClaudeIn) /\ out \in Seq(ClaudeOut)

\* Every result answers a message of its own.
ClaudeCounts ==
  /\ IsFiniteSet(ResultLines(out))
  /\ r.results + Cardinality(ResultLines(out)) + (IF cli.turn THEN 1 ELSE 0) + Len(cli.queue) + Len(pipe) <= r.sent
  /\ Len(r.unread) <= r.sent

InClaude(x) == x \in ToSet(cli.queue) \/ \E n \in DOMAIN pipe : x = pipe[n].words[1]
ClaudeWords ==
  /\ \A x \in Text : InClaude(x) \/ x \in ToSet(r.unread) => x = Prompt \/ word[x] = "accepted"
  /\ ~proc.doomed /\ ~proc.crashed =>
       \A w \in Word : word[w] = "accepted" => w \in read \/ (proc.state = "up" /\ InClaude(w))
  /\ proc.doomed => r.cancelled \/ proc.timedOut
  /\ result = "ok" => ~r.cancelled /\ ~proc.timedOut

ClaudeInv == ClaudeTypes /\ ClaudeCounts /\ ClaudeWords

(* pi *)

PiIn == [k : {"prompt", "abort", "get_state"}] \cup [k : {"steer"}, word : Word]
PiInv ==
  /\ pipe \in Seq(PiIn)
  /\ DOMAIN cli = {"at", "steers"} /\ cli.steers \in Seq(Word)
  /\ DOMAIN r = {"cancelled", "settled", "rejected", "failed", "state"} /\ r.cancelled \in BOOLEAN
  /\ \A n \in DOMAIN pipe : pipe[n].k = "steer" => word[pipe[n].word] = "accepted"
  /\ \A w \in ToSet(cli.steers) : word[w] = "accepted"

(* codex *)

CodexIn == [k : {"turn/start"}, words : Seq(Text)] \cup [k : {"turn/interrupt"}]
           \cup [k : {"turn/steer"}, turn : Nat, id : Nat, word : Word]
CodexOut == [k : {"started"}, turn : Nat] \cup [k : {"steered"}, id : Nat, ok : BOOLEAN]
            \cup [k : {"userMessage"}, id : Nat] \cup [k : {"tool"}]
            \cup [k : {"completed"}, turn : Nat, status : {"completed", "failed", "interrupted"}]
Steering1 == [id : Nat, word : Word]
Calls == [word : Word, from : {"driver", "person"}, at : {"sent", "ok", "error", "over"}]
Pcs == {"open", "start", "starting", "words", "word", "turn", "over", "decide", "finish", "closing", "done"}

CodexTypes ==
  /\ DOMAIN r = {"pc", "input", "turn", "state", "ended", "started", "token", "queue", "waiting", "steering",
                 "calls", "cancelled", "finishing", "failure"}
  /\ r.pc \in Pcs /\ r.input \in Seq(Text) /\ r.turn \in Nat /\ r.started \in Nat
  /\ r.queue \in Seq(Word) /\ r.waiting \in Seq(Word)
  /\ r.steering \in Seq(Steering1) /\ r.calls \in Seq(Calls)
  /\ r.cancelled \in BOOLEAN /\ r.finishing \in BOOLEAN /\ r.failure \in BOOLEAN
  /\ DOMAIN cli = {"turn", "turns", "steers", "owes", "unhooked", "interrupted"}
  /\ cli.turns \in Nat /\ cli.steers \in Seq(Steering1) /\ cli.owes \in SUBSET Nat
  /\ pipe \in Seq(CodexIn) /\ out \in Seq(CodexOut)

Ending == r.pc \in {"finish", "closing", "done"}
\* Why a run may not end well, and what its driver knows of it.
Bad == r.cancelled \/ proc.timedOut \/ r.failure \/ proc.crashed

\* Turns have been started by the program; the driver has a turn from its start to its end.
CodexTurns ==
  /\ r.turn \in 0..cli.turns /\ r.started \in 0..cli.turns
  /\ cli.turn \in 0..cli.turns /\ cli.owes \subseteq 1..cli.turns
  /\ DOMAIN r.ended \subseteq 1..cli.turns
  /\ \A n \in DOMAIN out : out[n].k \in {"started", "completed"} => out[n].turn \in 1..cli.turns
  /\ r.pc \in {"open", "start", "starting", "decide"} => r.turn = 0
  /\ r.turn = 0 => r.steering = <<>>
  /\ r.waiting # <<>> => r.pc \in {"words", "word", "over"}
  /\ r.finishing => Ending
  /\ r.finishing /\ r.steering # <<>> => r.pc = "done"
  /\ r.pc \in {"words", "word", "turn", "over"} => r.turn # 0
  /\ r.pc = "open" => r.state = "" /\ r.input = <<Prompt>>

\* At most one turn is being asked for: on its way to the program, owed an answer, on its
\* way back, or told to the driver.
Marked(lines, k) == {n \in DOMAIN lines : lines[n].k = k}
StartLines == Marked(pipe, "turn/start")
StartedLines == Marked(out, "started")
CodexStarts ==
  /\ r.pc # "starting" /\ ~Ending => StartLines = {} /\ cli.owes = {} /\ StartedLines = {} /\ r.started = 0
  /\ \A m, n \in StartLines : m = n
  /\ \A m, n \in StartedLines : m = n
  /\ StartLines # {} => cli.owes = {} /\ StartedLines = {} /\ r.started = 0
  /\ cli.owes # {} => StartedLines = {} /\ r.started = 0
  /\ StartedLines # {} => r.started = 0

\* Why the program may be gone.
CodexStops ==
  /\ proc.doomed => r.cancelled \/ proc.timedOut \/ r.failure \/ r.pc \in {"closing", "done"}
  /\ proc.stdin = "closed" => r.pc \in {"closing", "done"}
  /\ r.pc = "done" => proc.state = "done"
  /\ (r.pc = "done") <=> (result # "none")
  /\ result = "ok" => ~r.cancelled /\ ~proc.timedOut /\ ~r.failure /\ r.state = "completed"
  /\ cli.unhooked => r.failure \/ \E n \in DOMAIN out : out[n].k = "tool"

\* Who has a call, and what it is about: a person once for each word, the driver one at a time.
Alive(n) == r.calls[n].at # "over"
Personal(n) == r.calls[n].from = "person"
CallIs(s) == s.id \in DOMAIN r.calls /\ r.calls[s.id].word = s.word
CodexCalls ==
  /\ \A n \in DOMAIN r.steering : CallIs(r.steering[n])
  /\ \A m, n \in DOMAIN r.steering : r.steering[m].id = r.steering[n].id => m = n
  /\ \A n \in DOMAIN pipe : pipe[n].k = "turn/steer" => CallIs(pipe[n])
  /\ \A n \in DOMAIN cli.steers : CallIs(cli.steers[n])
  /\ \A n \in DOMAIN out : out[n].k = "userMessage" =>
       out[n].id \in DOMAIN r.calls /\ r.calls[out[n].id].word \in read
  /\ \A n \in DOMAIN r.calls : ~Personal(n) /\ Alive(n) => r.pc = "word"
  /\ \A m, n \in DOMAIN r.calls : ~Personal(m) /\ Alive(m) /\ ~Personal(n) /\ Alive(n) => m = n
  /\ \A n \in DOMAIN r.calls : Personal(n) /\ Alive(n) => word[r.calls[n].word] = "asking"
  /\ \A m, n \in DOMAIN r.calls : Personal(m) /\ Personal(n) /\ r.calls[m].word = r.calls[n].word => m = n

\* Words the driver has taken charge of are not refused, and what it is still asked to
\* answer for is not among them.
Started1(w) == \E n \in DOMAIN pipe : pipe[n].k = "turn/start" /\ w \in ToSet(pipe[n].words)
Kept(w) ==
  \/ w \in ToSet(r.queue) \/ w \in ToSet(r.waiting) \/ (r.pc = "start" /\ w \in ToSet(r.input)) \/ Started1(w)
Driven(w) == Kept(w) \/ \E n \in DOMAIN r.calls : ~Personal(n) /\ r.calls[n].word = w
CodexCharge ==
  /\ \A w \in Word : Driven(w) => word[w] \in {"asking", "accepted"}
  /\ \A n \in DOMAIN r.steering : word[r.steering[n].word] \in {"asking", "accepted"}
  /\ \A n \in DOMAIN r.steering : Personal(r.steering[n].id) /\ Alive(r.steering[n].id) => ~Driven(r.steering[n].word)
  /\ \A n \in DOMAIN r.calls : word[r.calls[n].word] # "new"
  /\ proc.state = "up" /\ ~r.cancelled =>
       /\ \A n \in DOMAIN pipe : pipe[n].k = "turn/steer" => word[pipe[n].word] # "refused"
       /\ \A n \in DOMAIN cli.steers : word[cli.steers[n].word] # "refused"

\* What was accepted, or may still be, is read or somewhere on its way, unless the run will
\* not end well.
Owed(w) == word[w] = "accepted" \/ \E n \in DOMAIN r.calls : r.calls[n].word = w /\ Alive(n)
Held(w) == w \in read \/ Kept(w) \/ \E n \in DOMAIN r.steering : r.steering[n].word = w
Fine == ~Bad /\ (Ending => r.state = "completed")
Emptied == r.finishing /\ r.queue = <<>> /\ r.waiting = <<>> /\ r.steering = <<>> /\ StartLines = {}
CodexWords == Fine => (\A w \in Word : Owed(w) => Held(w)) /\ (Ending => Emptied)

CodexInv ==
  /\ CodexTypes /\ CodexTurns /\ CodexStarts /\ CodexStops /\ CodexCalls /\ CodexCharge /\ CodexWords

AgentInv ==
  /\ ProcInv /\ agent \in {"claude", "codex", "pi"}
  /\ agent = "claude" => ClaudeInv
  /\ agent = "codex" => CodexInv
  /\ agent = "pi" => PiInv

-----------------------------------------------------------------------------
(* Sequences                                                                *)

LEMMA Appended ==
  ASSUME NEW S, NEW s \in Seq(S), NEW e \in S
  PROVE  LET t == Append(s, e) IN
         /\ t \in Seq(S) /\ Len(t) = Len(s) + 1
         /\ DOMAIN s = 1..Len(s) /\ DOMAIN t = 1..(Len(s) + 1) /\ Len(s) \in Nat
         /\ \A n \in DOMAIN s : n \in DOMAIN t /\ t[n] = s[n]
         /\ \A n \in DOMAIN t : n \in DOMAIN s \/ n = Len(s) + 1
         /\ Len(s) + 1 \in DOMAIN t /\ Len(s) + 1 \notin DOMAIN s /\ t[Len(s) + 1] = e
         /\ ToSet(t) = ToSet(s) \cup {e}
<1>1. Append(s, e) \in Seq(S) /\ Len(Append(s, e)) = Len(s) + 1 /\ Len(s) \in Nat
  BY AppendProperties, LenProperties
<1>2. DOMAIN s = 1..Len(s) /\ DOMAIN Append(s, e) = 1..(Len(s) + 1)
  BY <1>1, LenProperties
<1>3. (\A n \in 1..Len(s) : Append(s, e)[n] = s[n]) /\ Append(s, e)[Len(s) + 1] = e
  BY AppendProperties
<1>5. \A n \in DOMAIN Append(s, e) : n \in DOMAIN s \/ n = Len(s) + 1
  <2>1. \A l \in Nat : \A n \in 1..(l + 1) : n \in 1..l \/ n = l + 1
    OBVIOUS
  <2> QED
    BY <1>1, <1>2, <2>1
<1>4. ToSet(Append(s, e)) = ToSet(s) \cup {e}
  <2>1. \A x \in ToSet(Append(s, e)) : x \in ToSet(s) \/ x = e
    BY <1>1, <1>2, <1>3 DEF ToSet
  <2>2. \A x \in ToSet(s) : x \in ToSet(Append(s, e))
    BY <1>1, <1>2, <1>3 DEF ToSet
  <2>3. e \in ToSet(Append(s, e))
    BY <1>1, <1>2, <1>3 DEF ToSet
  <2> QED
    BY <2>1, <2>2, <2>3
<1> QED
  BY <1>1, <1>2, <1>3, <1>4, <1>5

LEMMA Behead ==
  ASSUME NEW S, NEW s \in Seq(S), s # <<>>
  PROVE  /\ Tail(s) \in Seq(S) /\ Len(Tail(s)) = Len(s) - 1 /\ Len(s) \in Nat \ {0}
         /\ DOMAIN s = 1..Len(s) /\ DOMAIN Tail(s) = 1..(Len(s) - 1)
         /\ \A n \in DOMAIN Tail(s) : n + 1 \in DOMAIN s /\ Tail(s)[n] = s[n + 1]
         /\ \A n \in DOMAIN s : n = 1 \/ (n - 1 \in DOMAIN Tail(s) /\ s[n] = Tail(s)[n - 1])
         /\ 1 \in DOMAIN s /\ Head(s) = s[1] /\ Head(s) \in S
         /\ ToSet(s) = ToSet(Tail(s)) \cup {Head(s)}
<1>1. Tail(s) \in Seq(S) /\ Len(Tail(s)) = Len(s) - 1 /\ Len(s) \in Nat \ {0} /\ Head(s) \in S
  BY HeadTailProperties, EmptySeq
<1>2. DOMAIN s = 1..Len(s) /\ DOMAIN Tail(s) = 1..(Len(s) - 1)
  BY <1>1, LenProperties
<1>3. \A n \in 1..(Len(s) - 1) : Tail(s)[n] = s[n + 1]
  BY <1>1, HeadTailProperties
<1>4. Head(s) = s[1]
  BY <1>1
<1>5. ToSet(s) = ToSet(Tail(s)) \cup {Head(s)}
  <2>1. ASSUME NEW x \in ToSet(s)
        PROVE  x \in ToSet(Tail(s)) \cup {Head(s)}
    <3>1. PICK n \in 1..Len(s) : s[n] = x
      BY <1>2 DEF ToSet
    <3>2. CASE n = 1
      BY <1>4, <3>1, <3>2
    <3>3. CASE n # 1
      <4>1. n - 1 \in 1..(Len(s) - 1) /\ Tail(s)[n - 1] = x
        BY <1>1, <1>3, <3>1, <3>3
      <4> QED
        BY <1>2, <4>1 DEF ToSet
    <3> QED
      BY <3>2, <3>3
  <2>2. \A x \in ToSet(Tail(s)) : x \in ToSet(s)
    BY <1>1, <1>2, <1>3 DEF ToSet
  <2>3. Head(s) \in ToSet(s)
    BY <1>1, <1>2, <1>4 DEF ToSet
  <2> QED
    BY <2>1, <2>2, <2>3
<1>6. \A n \in DOMAIN s : n = 1 \/ (n - 1 \in DOMAIN Tail(s) /\ s[n] = Tail(s)[n - 1])
  <2>1. \A l \in Nat : \A n \in 1..l : n = 1 \/ (n - 1 \in 1..(l - 1) /\ (n - 1) + 1 = n)
    OBVIOUS
  <2> QED
    BY <1>1, <1>2, <1>3, <2>1
<1> QED
  BY <1>1, <1>2, <1>3, <1>4, <1>5, <1>6

\* A sequence without one of its places.
LEMMA Dropped ==
  ASSUME NEW S, NEW s \in Seq(S), NEW i \in DOMAIN s
  PROVE  LET t == RemoveAt(s, i) IN
         /\ t \in Seq(S) /\ DOMAIN s = 1..Len(s) /\ DOMAIN t = 1..(Len(s) - 1) /\ Len(s) \in Nat
         /\ \A n \in DOMAIN t : t[n] = IF n < i THEN s[n] ELSE s[n + 1]
<1>1. DOMAIN s = 1..Len(s) /\ Len(s) \in Nat /\ i \in 1..Len(s)
  BY LenProperties
<1> DEFINE a == SubSeq(s, 1, i - 1)
           b == SubSeq(s, i + 1, Len(s))
<1>2. \A n \in 1..Len(s) : s[n] \in S
  BY ElementOfSeq
<1>3. a \in Seq(S) /\ Len(a) = i - 1 /\ \A n \in 1..(i - 1) : a[n] = s[n]
  BY <1>1, <1>2, SubSeqProperties
<1>4. b \in Seq(S) /\ Len(b) = Len(s) - i /\ \A n \in 1..(Len(s) - i) : b[n] = s[i + n]
  BY <1>1, <1>2, SubSeqProperties
<1> HIDE DEF a, b
<1>5. /\ a \o b \in Seq(S) /\ Len(a \o b) = Len(s) - 1
      /\ \A n \in 1..(Len(s) - 1) : (a \o b)[n] = IF n < i THEN s[n] ELSE s[n + 1]
  <2>1. /\ a \o b \in Seq(S) /\ Len(a \o b) = Len(a) + Len(b)
        /\ \A n \in 1..(Len(a) + Len(b)) : (a \o b)[n] = IF n <= Len(a) THEN a[n] ELSE b[n - Len(a)]
    BY <1>3, <1>4, ConcatProperties
  <2>2. Len(a) + Len(b) = Len(s) - 1
    BY <1>1, <1>3, <1>4
  <2>3. ASSUME NEW n \in 1..(Len(s) - 1)
        PROVE  (a \o b)[n] = IF n < i THEN s[n] ELSE s[n + 1]
    <3>1. CASE n < i
      BY <1>1, <1>3, <2>1, <2>2, <3>1
    <3>2. CASE ~(n < i)
      <4>1. ~(n <= Len(a)) /\ n - Len(a) = n - i + 1 /\ n - i + 1 \in 1..(Len(s) - i) /\ i + (n - i + 1) = n + 1
        BY <1>1, <1>3, <3>2
      <4>2. b[n - i + 1] = s[i + (n - i + 1)]
        BY <1>4, <4>1
      <4> QED
        BY <2>1, <2>2, <3>2, <4>1, <4>2
    <3> QED
      BY <3>1, <3>2
  <2> QED
    BY <2>1, <2>2, <2>3
<1>6. RemoveAt(s, i) = a \o b
  BY DEF RemoveAt, a, b
<1>7. DOMAIN (a \o b) = 1..(Len(s) - 1)
  BY <1>5, LenProperties
<1> QED
  BY <1>1, <1>5, <1>6, <1>7

\* The places of a sequence that stay, in their order (Struck).
LEMMA Chosen ==
  ASSUME NEW S, NEW s \in Seq(S), NEW stay \in SUBSET DOMAIN s
  PROVE  LET t == [k \in 1..Cardinality(stay) |->
                     s[CHOOSE n \in stay : Cardinality({m \in stay : m <= n}) = k]]
         IN  t \in Seq(S) /\ Len(t) <= Len(s) /\ ToSet(t) \subseteq ToSet(s)
<1>1. DOMAIN s = 1..Len(s) /\ Len(s) \in Nat
  BY LenProperties
<1>2. IsFiniteSet(stay) /\ Cardinality(stay) \in Nat /\ Cardinality(stay) <= Len(s)
  <2>1. IsFiniteSet(1..Len(s)) /\ Cardinality(1..Len(s)) = Len(s)
    <3>1. \A n \in Nat : IsFiniteSet(1..n) /\ Cardinality(1..n) = n
      BY FS_Interval
    <3> QED
      BY <1>1, <3>1
  <2> QED
    BY <1>1, <2>1, FS_Subset, FS_CardinalityType
<1> DEFINE rank == [n \in stay |-> Cardinality({m \in stay : m <= n})]
<1>3. \A n \in stay : /\ IsFiniteSet({m \in stay : m <= n})
                      /\ rank[n] \in 1..Cardinality(stay)
  <2> TAKE n \in stay
  <2>1. {m \in stay : m <= n} \in SUBSET stay /\ n \in {m \in stay : m <= n}
    BY <1>1
  <2>2. /\ IsFiniteSet({m \in stay : m <= n})
        /\ Cardinality({m \in stay : m <= n}) <= Cardinality(stay)
        /\ Cardinality({m \in stay : m <= n}) \in Nat
    BY <1>2, <2>1, FS_Subset, FS_CardinalityType
  <2>3. Cardinality({m \in stay : m <= n}) # 0
    BY <2>1, <2>2, FS_EmptySet
  <2> QED
    BY <1>2, <2>2, <2>3
<1>4. \A m, n \in stay : m < n => rank[m] # rank[n]
  <2> TAKE m, n \in stay
  <2> HAVE m < n
  <2>1. {x \in stay : x <= m} \in SUBSET {x \in stay : x <= n}
    BY <1>1
  <2>2. n \in {x \in stay : x <= n} /\ n \notin {x \in stay : x <= m}
    BY <1>1
  <2>3. {x \in stay : x <= m} # {x \in stay : x <= n}
    BY <2>2
  <2> QED
    BY <1>3, <2>1, <2>3, FS_Subset
<1>5. rank \in Injection(stay, 1..Cardinality(stay))
  <2>1. rank \in [stay -> 1..Cardinality(stay)]
    BY <1>3
  <2>2. \A m, n \in stay : rank[m] = rank[n] => m = n
    <3> HIDE DEF rank
    <3> QED
      BY <1>1, <1>4
  <2> HIDE DEF rank
  <2> QED
    BY <2>1, <2>2 DEF Injection, IsInjective
<1>6. rank \in Surjection(stay, 1..Cardinality(stay))
  <2>1. IsFiniteSet(1..Cardinality(stay)) /\ Cardinality(1..Cardinality(stay)) = Cardinality(stay)
    BY <1>2, FS_Interval
  <2> HIDE DEF rank
  <2> QED
    BY <1>5, <2>1, FS_Injection
<1>7. \A k \in 1..Cardinality(stay) : \E n \in stay : rank[n] = k
  <2> HIDE DEF rank
  <2> QED
    BY <1>6 DEF Surjection
<1>8. \A k \in 1..Cardinality(stay) : (CHOOSE n \in stay : Cardinality({m \in stay : m <= n}) = k) \in stay
  BY <1>7
<1> DEFINE at(k) == CHOOSE n \in stay : Cardinality({m \in stay : m <= n}) = k
           t == [k \in 1..Cardinality(stay) |-> s[at(k)]]
<1>9. \A k \in 1..Cardinality(stay) : at(k) \in DOMAIN s
  BY <1>8
<1> HIDE DEF at
<1>10. \A k \in 1..Cardinality(stay) : s[at(k)] \in S
  BY <1>1, <1>9, ElementOfSeq
<1>11. t \in Seq(S) /\ Len(t) = Cardinality(stay)
  BY <1>2, <1>10
<1>12. ToSet(t) \subseteq ToSet(s)
  BY <1>9, <1>11 DEF ToSet
<1> QED
  BY <1>2, <1>11, <1>12 DEF at

\* A sequence in two parts.
LEMMA Halves ==
  ASSUME NEW S, NEW s \in Seq(S), NEW n \in 1..Len(s)
  PROVE  LET a == SubSeq(s, 1, n)
             b == SubSeq(s, n + 1, Len(s))
         IN  /\ a \in Seq(S) /\ b \in Seq(S) /\ Len(b) = Len(s) - n /\ Len(s) \in Nat /\ Len(a) = n
             /\ ToSet(s) = ToSet(a) \cup ToSet(b)
<1> DEFINE a == SubSeq(s, 1, n)
           b == SubSeq(s, n + 1, Len(s))
<1>1. DOMAIN s = 1..Len(s) /\ Len(s) \in Nat /\ n \in 1..Len(s)
  BY LenProperties
<1>2. \A k \in 1..Len(s) : s[k] \in S
  BY ElementOfSeq
<1>3. a \in Seq(S) /\ Len(a) = n /\ \A k \in 1..n : a[k] = s[k]
  BY <1>1, <1>2, SubSeqProperties
<1>4. b \in Seq(S) /\ Len(b) = Len(s) - n /\ \A k \in 1..(Len(s) - n) : b[k] = s[n + k]
  <2>1. n + 1 \in Int /\ Len(s) \in Int /\ \A k \in (n + 1)..Len(s) : s[k] \in S
    BY <1>1, <1>2
  <2>2. /\ b \in Seq(S) /\ Len(b) = IF n + 1 <= Len(s) THEN Len(s) - (n + 1) + 1 ELSE 0
        /\ \A k \in 1..(Len(s) - (n + 1) + 1) : b[k] = s[(n + 1) + k - 1]
    BY <2>1, SubSeqProperties
  <2> HIDE DEF a, b
  <2>3. Len(b) = Len(s) - n
    <3>1. \A l \in Nat : \A m \in 1..l : (IF m + 1 <= l THEN l - (m + 1) + 1 ELSE 0) = l - m
      OBVIOUS
    <3>2. Len(b) = IF n + 1 <= Len(s) THEN Len(s) - (n + 1) + 1 ELSE 0
      BY <2>2
    <3> QED
      BY <1>1, <3>1, <3>2
  <2>4. \A k \in 1..(Len(s) - n) : k \in 1..(Len(s) - (n + 1) + 1) /\ (n + 1) + k - 1 = n + k
    BY <1>1
  <2> QED
    BY <2>2, <2>3, <2>4
<1> HIDE DEF a, b
<1>5. DOMAIN a = 1..n /\ DOMAIN b = 1..(Len(s) - n)
  BY <1>3, <1>4, LenProperties
<1>6. ASSUME NEW x \in ToSet(s)
      PROVE  x \in ToSet(a) \cup ToSet(b)
  <2>1. PICK k \in 1..Len(s) : s[k] = x
    BY <1>1 DEF ToSet
  <2>2. CASE k <= n
    BY <1>1, <1>3, <1>5, <2>1, <2>2 DEF ToSet
  <2>3. CASE k > n
    <3>1. k - n \in 1..(Len(s) - n) /\ n + (k - n) = k
      BY <1>1, <2>3
    <3>2. b[k - n] = x
      BY <1>4, <2>1, <3>1
    <3> QED
      BY <1>5, <3>1, <3>2 DEF ToSet
  <2> QED
    BY <1>1, <2>2, <2>3
<1>7. ASSUME NEW x \in ToSet(a) \cup ToSet(b)
      PROVE  x \in ToSet(s)
  <2>1. CASE x \in ToSet(a)
    <3>1. PICK k \in 1..n : a[k] = x
      BY <1>5, <2>1 DEF ToSet
    <3>2. k \in DOMAIN s /\ s[k] = x
      BY <1>1, <1>3, <3>1
    <3> QED
      BY <3>2 DEF ToSet
  <2>2. CASE x \in ToSet(b)
    <3>1. PICK k \in 1..(Len(s) - n) : b[k] = x
      BY <1>5, <2>2 DEF ToSet
    <3>2. n + k \in DOMAIN s
      BY <1>1, <3>1
    <3>3. s[n + k] = x
      BY <1>4, <3>1
    <3> QED
      BY <3>2, <3>3 DEF ToSet
  <2> QED
    BY <2>1, <2>2
<1>8. ToSet(s) = ToSet(a) \cup ToSet(b)
  BY <1>6, <1>7
<1> QED
  BY <1>1, <1>3, <1>4, <1>8 DEF a, b

-----------------------------------------------------------------------------
(* The process                                                              *)

\* What nothing but the process itself does.
LEMMA ProcessSteps ==
  ASSUME ProcInv, Process
  PROVE  ProcInv' /\ agent' = agent /\ UNCHANGED <<out, cli, r, word, read, result>>
<1>1. CASE Dies
  BY <1>1 DEF ProcInv, Dies, MayStop
<1>2. CASE TimesOut
  BY <1>2 DEF ProcInv, TimesOut, MayStop
<1>3. CASE Drained
  BY <1>3 DEF ProcInv, Drained
<1> QED
  BY <1>1, <1>2, <1>3 DEF Process

\* A step of the program, of the reader or of a caller, which leaves the process as it is,
\* or closes its input or dooms it, and takes words in only while it runs.
LEMMA ProcKept ==
  ASSUME ProcInv,
         \/ proc' = proc
         \/ proc' = Closed
         \/ proc' = Doomed
         \/ \E n \in Nat : proc' \in {[proc EXCEPT !.stops = n], [Closed EXCEPT !.doomed = TRUE],
                                      [Closed EXCEPT !.doomed = TRUE, !.stops = n]},
         word' \in [Word -> Statuses], read' \subseteq Word,
         result' = result \/ (result' \in {"ok", "failed", "cancelled"} /\ proc.state = "done"),
         out' = out \/ out # <<>> \/ proc.state = "up"
  PROVE  ProcInv'
<1>1. /\ DOMAIN proc' = DOMAIN proc
      /\ proc'.stdin \in {proc.stdin, "closed"} /\ proc'.state = proc.state
      /\ proc'.doomed \in {proc.doomed, TRUE} /\ proc'.timedOut = proc.timedOut /\ proc'.crashed = proc.crashed
  BY DEF ProcInv, Closed, Doomed
<1>2. DOMAIN proc' = {"stdin", "state", "doomed", "timedOut", "crashed", "stops"}
  BY <1>1 DEF ProcInv
<1>3. /\ proc'.stdin \in {"open", "closed"} /\ proc'.state \in {"up", "down", "done"}
      /\ proc'.doomed \in BOOLEAN /\ proc'.timedOut \in BOOLEAN /\ proc'.crashed \in BOOLEAN
  BY <1>1 DEF ProcInv
<1>4. proc'.state = "done" => out' = <<>>
  BY <1>1 DEF ProcInv
<1>5. result' \in {"none", "ok", "failed", "cancelled"} /\ (result' # "none" => proc'.state = "done")
  BY <1>1 DEF ProcInv
<1>6. /\ proc'.timedOut => proc'.doomed
      /\ proc'.crashed => proc'.state # "up"
      /\ proc'.state # "up" => proc'.crashed \/ proc'.doomed \/ proc'.stdin = "closed"
  BY <1>1 DEF ProcInv
<1> QED
  BY <1>2, <1>3, <1>4, <1>5, <1>6 DEF ProcInv

LEMMA ProgramExits ==
  ASSUME ProcInv, NEW idle \in BOOLEAN, Exits(idle)
  PROVE  /\ ProcInv' /\ idle /\ pipe = <<>> /\ proc'.state # "up" /\ proc.state = "up" /\ proc.stdin = "closed"
         /\ agent' = agent /\ UNCHANGED <<pipe, out, cli, r, word, read, result>>
         /\ proc'.doomed = proc.doomed /\ proc'.crashed = proc.crashed /\ proc'.timedOut = proc.timedOut
         /\ proc'.stdin = proc.stdin
  BY DEF ProcInv, Exits

LEMMA AnswerTypes ==
  ASSUME ProcInv, NEW w \in Word, NEW how \in Statuses, Answered(w, how)
  PROVE  word' \in [Word -> Statuses] /\ word'[w] = how /\ \A v \in Word \ {w} : word'[v] = word[v]
  BY DEF ProcInv, Answered

-----------------------------------------------------------------------------
(* CLAUDE                                                                   *)

LEMMA ClaudeStarts ==
  ASSUME ProcInit, ClaudeInit
  PROVE  ProcInv /\ ClaudeInv
<1>1. ProcInv
  BY AgentRunAssumption DEF ProcInit, ProcInv, Statuses
<1>2. <<Prompt>> \in Seq(Text) /\ <<>> \in Seq(Text) /\ out = <<>> /\ out \in Seq(ClaudeOut)
  <2>1. Prompt \in Text /\ out = <<>>
    BY DEF Text, ProcInit
  <2>2. <<Prompt>> \in Seq(Text)
    BY <2>1
  <2>3. \A S : <<>> \in Seq(S)
    BY EmptySeq
  <2> QED
    BY <2>1, <2>2, <2>3
<1>3. pipe = <<[k |-> "user", words |-> <<Prompt>>]>> /\ pipe \in Seq(ClaudeIn)
  BY DEF ClaudeInit, ClaudeIn, Text
<1>4. ClaudeTypes
  <2>1. PICK c \in BOOLEAN : cli = [queue |-> <<>>, turn |-> FALSE, counts |-> c]
    BY DEF ClaudeInit
  <2>2. DOMAIN cli = {"queue", "turn", "counts"} /\ cli.queue = <<>> /\ cli.turn = FALSE
    BY <2>1
  <2>3. /\ DOMAIN r = {"cancelled", "finishing", "sent", "results", "unread", "seen", "error"}
        /\ r.cancelled = FALSE /\ r.sent = 1 /\ r.results = 0 /\ r.unread = <<Prompt>>
    BY DEF ClaudeInit
  <2>4. r.unread \in Seq(Text) /\ cli.queue \in Seq(Text)
    BY <1>2, <2>2, <2>3
  <2>5. r.sent \in Nat /\ r.results \in Nat /\ r.cancelled \in BOOLEAN /\ cli.turn \in BOOLEAN
    <3>1. 0 \in Nat /\ 1 \in Nat /\ FALSE \in BOOLEAN
      OBVIOUS
    <3> QED
      BY <2>2, <2>3, <3>1, Zenon
  <2> QED
    BY <1>2, <1>3, <2>2, <2>3, <2>4, <2>5 DEF ClaudeTypes
<1>5. ResultLines(out) = {}
  BY <1>2 DEF ResultLines
<1>6. ClaudeCounts
  BY <1>3, <1>5, FS_EmptySet DEF ClaudeInit, ClaudeCounts
<1>7. ClaudeWords
  BY <1>3, AgentRunAssumption DEF ClaudeInit, ClaudeWords, ProcInit, InClaude, ToSet, Text
<1> QED
  BY <1>1, <1>4, <1>6, <1>7 DEF ClaudeInv

\* Lines that come and go among those with a result.
LEMMA ResultEmitted ==
  ASSUME out \in Seq(ClaudeOut), IsFiniteSet(ResultLines(out)), NEW line \in ClaudeOut, Emits(line)
  PROVE  /\ out' \in Seq(ClaudeOut) /\ IsFiniteSet(ResultLines(out'))
         /\ Cardinality(ResultLines(out')) = Cardinality(ResultLines(out)) + (IF line.k = "result" THEN 1 ELSE 0)
<1>1. /\ out' \in Seq(ClaudeOut) /\ DOMAIN out = 1..Len(out) /\ DOMAIN out' = 1..(Len(out) + 1) /\ Len(out) \in Nat
      /\ \A n \in DOMAIN out : out'[n] = out[n]
      /\ out'[Len(out) + 1] = line
  BY Appended DEF Emits
<1>2. ResultLines(out') = IF line.k = "result" THEN ResultLines(out) \cup {Len(out) + 1} ELSE ResultLines(out)
  BY <1>1 DEF ResultLines
<1>3. Len(out) + 1 \notin ResultLines(out)
  BY <1>1 DEF ResultLines
<1>4. Cardinality(ResultLines(out)) \in Nat
  BY FS_CardinalityType
<1> QED
  BY <1>1, <1>2, <1>3, <1>4, FS_AddElement

LEMMA ResultHandled ==
  ASSUME out \in Seq(ClaudeOut), out # <<>>, IsFiniteSet(ResultLines(out)), Handles
  PROVE  /\ out' \in Seq(ClaudeOut) /\ Head(out) \in ClaudeOut /\ IsFiniteSet(ResultLines(out'))
         /\ Cardinality(ResultLines(out')) <=
              Cardinality(ResultLines(out)) - (IF Head(out).k = "result" THEN 1 ELSE 0)
<1>1. /\ out' \in Seq(ClaudeOut) /\ Len(out) \in Nat \ {0}
      /\ DOMAIN out = 1..Len(out) /\ DOMAIN out' = 1..(Len(out) - 1)
      /\ \A n \in DOMAIN out' : n + 1 \in DOMAIN out /\ out'[n] = out[n + 1]
      /\ 1 \in DOMAIN out /\ Head(out) = out[1] /\ Head(out) \in ClaudeOut
  BY Behead DEF Handles
<1> DEFINE rest == ResultLines(out) \ {1}
           shift == [n \in ResultLines(out') |-> n + 1]
<1>2. /\ IsFiniteSet(rest) /\ Cardinality(rest) \in Nat
      /\ Cardinality(rest) = Cardinality(ResultLines(out)) - (IF Head(out).k = "result" THEN 1 ELSE 0)
  <2>1. 1 \in ResultLines(out) <=> Head(out).k = "result"
    BY <1>1 DEF ResultLines
  <2>2. Cardinality(ResultLines(out)) \in Nat
    BY FS_CardinalityType
  <2>3. IsFiniteSet(rest) /\ Cardinality(rest) =
          IF 1 \in ResultLines(out) THEN Cardinality(ResultLines(out)) - 1 ELSE Cardinality(ResultLines(out))
    BY FS_RemoveElement
  <2> QED
    BY <2>1, <2>2, <2>3, FS_CardinalityType
<1>3. \A n \in ResultLines(out') : n + 1 \in rest /\ n \in Nat
  BY <1>1 DEF ResultLines
<1>4. shift \in [ResultLines(out') -> rest]
  BY <1>3
<1>5. \A m, n \in ResultLines(out') : shift[m] = shift[n] => m = n
  BY <1>3
<1>6. shift \in Injection(ResultLines(out'), rest)
  <2> HIDE DEF shift, rest
  <2> QED
    BY <1>4, <1>5 DEF Injection, IsInjective
<1>7. IsFiniteSet(ResultLines(out')) /\ Cardinality(ResultLines(out')) <= Cardinality(rest)
  <2> HIDE DEF shift, rest
  <2> QED
    BY <1>2, <1>6, FS_Injection
<1> QED
  BY <1>1, <1>2, <1>7

\* What a replay leaves of the messages not read yet.
LEMMA StruckLeaves ==
  ASSUME NEW s \in Seq(Text), NEW replay
  PROVE  /\ Struck(s, replay) \in Seq(Text) /\ Len(Struck(s, replay)) <= Len(s)
         /\ ToSet(Struck(s, replay)) \subseteq ToSet(s)
<1> DEFINE carried == ToSet(replay.words) \cup UNION {Within[x] : x \in ToSet(replay.words)}
           stay == {n \in DOMAIN s : ~(replay.plain /\ s[n] \in carried)}
           kept == [k \in 1..Cardinality(stay) |-> s[CHOOSE n \in stay : Cardinality({m \in stay : m <= n}) = k]]
<1>1. Struck(s, replay) = IF kept = s /\ kept # <<>> THEN Tail(kept) ELSE kept
  BY DEF Struck
<1>2. stay \in SUBSET DOMAIN s
  OBVIOUS
<1> HIDE DEF stay
<1>3. kept \in Seq(Text) /\ Len(kept) <= Len(s) /\ ToSet(kept) \subseteq ToSet(s)
  BY <1>2, Chosen
<1>4. Len(s) \in Nat
  BY LenProperties
<1> HIDE DEF kept
<1>5. CASE kept # <<>>
  <2>1. Tail(kept) \in Seq(Text) /\ Len(Tail(kept)) = Len(kept) - 1 /\ Len(kept) \in Nat
        /\ ToSet(Tail(kept)) \subseteq ToSet(kept)
    BY <1>3, <1>5, Behead
  <2> QED
    BY <1>1, <1>3, <1>4, <2>1
<1>6. CASE kept = <<>>
  BY <1>1, <1>3, <1>6
<1> QED
  BY <1>5, <1>6

LEMMA ClaudeProgram ==
  ASSUME ProcInv, ClaudeInv, ClaudeCli
  PROVE  ProcInv' /\ ClaudeInv' /\ agent' = agent
<1> USE DEF ClaudeInv
<1>1. CASE Queues
  <2>1. /\ proc.state = "up" /\ pipe # <<>> /\ pipe' = Tail(pipe)
        /\ cli' = [cli EXCEPT !.queue = @ \o Head(pipe).words]
        /\ UNCHANGED <<agent, proc, out, r, word, read, result>>
    BY <1>1 DEF Queues, Reads
  <2>2. /\ pipe' \in Seq(ClaudeIn) /\ Len(pipe') = Len(pipe) - 1 /\ Len(pipe) \in Nat
        /\ \A n \in DOMAIN pipe' : n + 1 \in DOMAIN pipe /\ pipe'[n] = pipe[n + 1]
        /\ DOMAIN pipe = 1..Len(pipe) /\ DOMAIN pipe' = 1..(Len(pipe) - 1)
        /\ 1 \in DOMAIN pipe /\ Head(pipe) = pipe[1] /\ Head(pipe) \in ClaudeIn
    BY <2>1, Behead DEF ClaudeTypes
  <2>3. PICK x \in Text : Head(pipe).words = <<x>>
    BY <2>2 DEF ClaudeIn
  <2>4. x = pipe[1].words[1]
    BY <2>2, <2>3
  <2>5. /\ cli'.queue = Append(cli.queue, x) /\ cli'.turn = cli.turn
        /\ DOMAIN cli' = {"queue", "turn", "counts"}
    <3>1. /\ cli'.queue = cli.queue \o <<x>> /\ cli'.turn = cli.turn
          /\ DOMAIN cli' = {"queue", "turn", "counts"}
      BY <2>1, <2>3 DEF ClaudeTypes
    <3>2. \A q \in Seq(Text) : Append(q, x) = q \o <<x>>
      BY AppendIsConcat
    <3> QED
      BY <3>1, <3>2 DEF ClaudeTypes
  <2>6. /\ cli'.queue \in Seq(Text) /\ Len(cli'.queue) = Len(cli.queue) + 1 /\ Len(cli.queue) \in Nat
        /\ ToSet(cli'.queue) = ToSet(cli.queue) \cup {x}
    BY <2>5, Appended DEF ClaudeTypes
  <2>7. ProcInv'
    BY <2>1, ProcKept DEF ProcInv
  <2>8. ClaudeTypes'
    BY <2>1, <2>2, <2>5, <2>6 DEF ClaudeTypes
  <2>9. ClaudeCounts'
    <3>1. PICK c \in Nat, q \in Nat, l \in Nat, t \in Nat :
            /\ c = Cardinality(ResultLines(out)) /\ q = Len(cli.queue) /\ l = Len(pipe)
            /\ t = IF cli.turn THEN 1 ELSE 0
      BY <2>2, <2>6, FS_CardinalityType DEF ClaudeCounts
    <3>2. r.results \in Nat /\ r.sent \in Nat /\ r.results + c + t + q + l <= r.sent
      BY <3>1 DEF ClaudeCounts, ClaudeTypes
    <3>3. r.results + c + t + (q + 1) + (l - 1) <= r.sent
      BY <3>2
    <3>4. /\ r' = r /\ cli'.turn = cli.turn /\ ResultLines(out)' = ResultLines(out)
          /\ Len(cli'.queue) = q + 1 /\ Len(pipe') = l - 1
      BY <2>1, <2>2, <2>5, <2>6, <3>1 DEF ResultLines
    <3> QED
      BY <3>1, <3>3, <3>4 DEF ClaudeCounts
  <2>10. \A y : InClaude(y)' <=> InClaude(y)
    <3>1. \A n \in DOMAIN pipe : n = 1 \/ (n - 1 \in DOMAIN pipe' /\ pipe[n] = pipe'[n - 1])
      BY <2>2
    <3>2. ASSUME NEW y
          PROVE  InClaude(y)' <=> InClaude(y)
      <4>1. y \in ToSet(cli'.queue) <=> y \in ToSet(cli.queue) \/ y = x
        BY <2>6
      <4>2. (\E n \in DOMAIN pipe : y = pipe[n].words[1]) <=> y = x \/ \E n \in DOMAIN pipe' : y = pipe'[n].words[1]
        BY <2>2, <2>4, <3>1
      <4> QED
        BY <4>1, <4>2 DEF InClaude
    <3> QED
      BY <3>2
  <2>11. ClaudeWords'
    BY <2>1, <2>10 DEF ClaudeWords
  <2> QED
    BY <2>1, <2>7, <2>8, <2>9, <2>11
<1>2. CASE \E n \in 1..Cardinality(Word) + 1, plain \in BOOLEAN, into \in BOOLEAN : Takes(n, plain, into)
  <2>1. PICK n \in 1..Cardinality(Word) + 1, plain \in BOOLEAN, into \in BOOLEAN : Takes(n, plain, into)
    BY <1>2
  <2> DEFINE a == SubSeq(cli.queue, 1, n)
             b == SubSeq(cli.queue, n + 1, Len(cli.queue))
  <2>2. /\ proc.state = "up" /\ n \in 1..Len(cli.queue) /\ (into => n = 1) /\ cli.turn = into
        /\ Emits(Replay(a, plain))
        /\ read' = read \cup (ToSet(a) \ {Prompt})
        /\ cli' = [cli EXCEPT !.queue = b, !.turn = TRUE]
        /\ UNCHANGED <<agent, proc, pipe, r, word, result>>
    BY <2>1 DEF Takes
  <2>3. /\ a \in Seq(Text) /\ b \in Seq(Text) /\ Len(b) = Len(cli.queue) - n /\ Len(cli.queue) \in Nat
        /\ ToSet(cli.queue) = ToSet(a) \cup ToSet(b)
    BY <2>2, Halves DEF ClaudeTypes
  <2> HIDE DEF a, b
  <2>4. cli'.queue = b /\ cli'.turn = TRUE /\ DOMAIN cli' = {"queue", "turn", "counts"}
    BY <2>2 DEF ClaudeTypes
  <2>5. Replay(a, plain) \in ClaudeOut /\ Replay(a, plain).k # "result"
    BY <2>3 DEF Replay, ClaudeOut
  <2>6. /\ out' \in Seq(ClaudeOut) /\ IsFiniteSet(ResultLines(out'))
        /\ Cardinality(ResultLines(out')) = Cardinality(ResultLines(out))
    <3>1. Cardinality(ResultLines(out)) \in Nat
      BY FS_CardinalityType DEF ClaudeCounts
    <3> QED
      BY <2>2, <2>5, <3>1, ResultEmitted DEF ClaudeTypes, ClaudeCounts
  <2>7. read' \subseteq Word
    <3>1. ToSet(a) \subseteq Text
      BY <2>3 DEF ToSet
    <3> QED
      BY <2>2, <3>1 DEF ProcInv, Text
  <2>8. ProcInv'
    BY <2>2, <2>7, ProcKept DEF ProcInv
  <2>9. ClaudeTypes'
    BY <2>2, <2>3, <2>4, <2>6 DEF ClaudeTypes
  <2>10. ClaudeCounts'
    <3>1. Cardinality(ResultLines(out)) \in Nat /\ Len(pipe) \in Nat
      BY FS_CardinalityType, LenProperties DEF ClaudeCounts, ClaudeTypes
    <3>2. n >= 1 /\ n \in Int /\ (cli.turn => n = 1)
      BY <2>2, <2>3
    <3>3. r.results + Cardinality(ResultLines(out)) + (IF cli.turn THEN 1 ELSE 0) + Len(cli.queue) + Len(pipe) <= r.sent
      BY DEF ClaudeCounts
    <3>4. r.results \in Nat /\ r.sent \in Nat /\ cli.turn \in BOOLEAN
      BY DEF ClaudeTypes
    <3>5. r.results + Cardinality(ResultLines(out)) + 1 + Len(b) + Len(pipe) <= r.sent
      <4>1. \A c, q, m, l, d, t \in Int :
               m >= 1 /\ t \in {0, 1} /\ c + d + t + q + l <= r.sent
                 => c + d + 1 + (q - m) + l <= r.sent
        BY <3>4
      <4> DEFINE c == r.results
                 d == Cardinality(ResultLines(out))
                 t == IF cli.turn THEN 1 ELSE 0
                 q == Len(cli.queue)
                 l == Len(pipe)
      <4>2. c \in Int /\ d \in Int /\ t \in Int /\ q \in Int /\ l \in Int /\ t \in {0, 1}
        BY <2>3, <3>1, <3>4
      <4>3. c + d + t + q + l <= r.sent
        BY <3>3
      <4>4. Len(b) = q - n
        BY <2>3
      <4> HIDE DEF c, d, t, q, l
      <4>5. c + d + 1 + (q - n) + l <= r.sent
        BY <3>2, <4>1, <4>2, <4>3
      <4> QED
        BY <4>4, <4>5 DEF c, d, l
    <3> QED
      BY <2>2, <2>4, <2>6, <3>5 DEF ClaudeCounts
  <2>11. \A y : (InClaude(y)' => InClaude(y)) /\ (InClaude(y) => InClaude(y)' \/ y \in ToSet(a))
    BY <2>2, <2>3, <2>4 DEF InClaude
  <2>12. ClaudeWords'
    BY <2>2, <2>11, AgentRunAssumption DEF ClaudeWords
  <2> QED
    BY <2>2, <2>8, <2>9, <2>10, <2>12
<1>3. CASE Results
  <2>1. PICK error \in BOOLEAN :
          Emits([k |-> "result", error |-> error, queued |-> IF cli.counts THEN Len(cli.queue) ELSE -1])
    BY <1>3 DEF Results
  <2>2. /\ proc.state = "up" /\ cli.turn /\ cli' = [cli EXCEPT !.turn = FALSE]
        /\ UNCHANGED <<agent, proc, pipe, r, word, read, result>>
    BY <1>3 DEF Results
  <2>3. Len(cli.queue) \in Nat
    BY LenProperties DEF ClaudeTypes
  <2>4. [k |-> "result", error |-> error, queued |-> IF cli.counts THEN Len(cli.queue) ELSE -1] \in ClaudeOut
    BY <2>3 DEF ClaudeOut
  <2>5. /\ out' \in Seq(ClaudeOut) /\ IsFiniteSet(ResultLines(out'))
        /\ Cardinality(ResultLines(out')) = Cardinality(ResultLines(out)) + 1
    BY <2>1, <2>4, ResultEmitted DEF ClaudeTypes, ClaudeCounts
  <2>6. cli'.queue = cli.queue /\ cli'.turn = FALSE /\ DOMAIN cli' = {"queue", "turn", "counts"}
    BY <2>2 DEF ClaudeTypes
  <2>7. ProcInv'
    BY <2>2, ProcKept DEF ProcInv
  <2>8. ClaudeTypes'
    BY <2>2, <2>5, <2>6 DEF ClaudeTypes
  <2>9. ClaudeCounts'
    <3>1. Cardinality(ResultLines(out)) \in Nat /\ Len(pipe) \in Nat
      BY FS_CardinalityType, LenProperties DEF ClaudeCounts, ClaudeTypes
    <3> QED
      BY <2>2, <2>3, <2>5, <2>6, <3>1 DEF ClaudeCounts, ClaudeTypes
  <2>10. ClaudeWords'
    BY <2>2, <2>6 DEF ClaudeWords, InClaude
  <2> QED
    BY <2>2, <2>7, <2>8, <2>9, <2>10
<1>4. CASE Exits(~cli.turn /\ cli.queue = <<>>)
  <2>1. /\ ProcInv' /\ cli.queue = <<>> /\ pipe = <<>> /\ proc'.state # "up" /\ proc.state = "up"
        /\ agent' = agent /\ UNCHANGED <<pipe, out, cli, r, word, read, result>>
        /\ proc'.doomed = proc.doomed /\ proc'.crashed = proc.crashed /\ proc'.timedOut = proc.timedOut
    BY <1>4, ProgramExits
  <2>2. \A x : ~InClaude(x)
    BY <2>1 DEF InClaude, ToSet
  <2>3. ClaudeTypes' /\ ClaudeCounts'
    BY <2>1 DEF ClaudeTypes, ClaudeCounts
  <2>4. ClaudeWords'
    BY <2>1, <2>2 DEF ClaudeWords, InClaude
  <2> QED
    BY <2>1, <2>3, <2>4
<1> QED
  BY <1>1, <1>2, <1>3, <1>4 DEF ClaudeCli

\* Steps of the others do not owe more answers.
LEMMA CountsKept ==
  ASSUME ClaudeTypes, ClaudeCounts, IsFiniteSet(ResultLines(out')),
         r'.results \in Nat, r'.sent = r.sent, Len(r'.unread) \in Nat, Len(r'.unread) <= Len(r.unread), cli' = cli,
         Len(pipe') \in Nat, Len(pipe') <= Len(pipe),
         r'.results + Cardinality(ResultLines(out')) <= r.results + Cardinality(ResultLines(out))
  PROVE  ClaudeCounts'
<1> DEFINE c == r.results + Cardinality(ResultLines(out))
           c1 == r'.results + Cardinality(ResultLines(out'))
           t == IF cli.turn THEN 1 ELSE 0
           q == Len(cli.queue)
           l == Len(pipe)
           l1 == Len(pipe')
           u == Len(r.unread)
           u1 == Len(r'.unread)
           s == r.sent
<1>1. c \in Int /\ c1 \in Int
  <2>1. r.results \in Nat /\ IsFiniteSet(ResultLines(out))
    BY DEF ClaudeTypes, ClaudeCounts
  <2>2. Cardinality(ResultLines(out)) \in Nat /\ Cardinality(ResultLines(out')) \in Nat
    BY <2>1, FS_CardinalityType
  <2>3. c \in Int
    BY <2>1, <2>2
  <2>4. c1 \in Int
    BY <2>2
  <2> QED
    BY <2>3, <2>4
<1>2. t \in Int /\ q \in Int /\ l \in Int /\ l1 \in Int /\ u \in Int /\ u1 \in Int /\ s \in Int
  <2>1. s \in Int /\ cli.queue \in Seq(Text) /\ pipe \in Seq(ClaudeIn) /\ r.unread \in Seq(Text)
    BY ONLY ClaudeTypes DEF ClaudeTypes
  <2>2. q \in Int /\ l \in Int /\ u \in Int
    BY <2>1
  <2>3. l1 \in Int /\ u1 \in Int
    OBVIOUS
  <2>4. t \in Int
    OBVIOUS
  <2> QED
    BY <2>1, <2>2, <2>3, <2>4
<1>3. c1 <= c /\ l1 <= l /\ u1 <= u /\ c + t + q + l <= s /\ u <= s
  <2>1. c1 <= c /\ l1 <= l /\ u1 <= u
    OBVIOUS
  <2>2. c + t + q + l <= s /\ u <= s
    BY ONLY ClaudeCounts DEF ClaudeCounts
  <2> QED
    BY <2>1, <2>2
<1>4. r'.sent = s
  OBVIOUS
<1>5. ClaudeCounts' <=> (IsFiniteSet(ResultLines(out')) /\ c1 + t + q + l1 <= r'.sent /\ u1 <= r'.sent)
  BY DEF ClaudeCounts
<1> HIDE DEF c, c1, t, q, l, l1, u, u1, s
<1> QED
  BY <1>1, <1>2, <1>3, <1>4, <1>5

LEMMA ClaudeReads ==
  ASSUME ProcInv, ClaudeInv, ClaudeReader
  PROVE  ProcInv' /\ ClaudeInv' /\ agent' = agent
<1> USE DEF ClaudeInv
<1>1. CASE OnReplay
  <2>1. /\ out # <<>> /\ Handles /\ Head(out).k = "replay"
        /\ r' = [r EXCEPT !.unread = Struck(@, Head(out))]
        /\ UNCHANGED <<agent, proc, pipe, cli, word, read, result>>
    BY <1>1 DEF OnReplay, Next1
  <2>2. /\ out' \in Seq(ClaudeOut) /\ IsFiniteSet(ResultLines(out'))
        /\ Cardinality(ResultLines(out')) <= Cardinality(ResultLines(out))
    <3>1. Cardinality(ResultLines(out)) \in Nat
      BY FS_CardinalityType DEF ClaudeCounts
    <3> QED
      BY <2>1, <3>1, ResultHandled DEF ClaudeTypes, ClaudeCounts
  <2>3. /\ r'.unread = Struck(r.unread, Head(out)) /\ r'.sent = r.sent /\ r'.results = r.results
        /\ r'.cancelled = r.cancelled
        /\ DOMAIN r' = {"cancelled", "finishing", "sent", "results", "unread", "seen", "error"}
    BY <2>1 DEF ClaudeTypes
  <2>4. /\ r'.unread \in Seq(Text) /\ Len(r'.unread) <= Len(r.unread) /\ ToSet(r'.unread) \subseteq ToSet(r.unread)
    BY <2>3, StruckLeaves DEF ClaudeTypes
  <2>5. ProcInv'
    BY <2>1, ProcKept DEF ProcInv
  <2>6. ClaudeTypes'
    BY <2>1, <2>2, <2>3, <2>4 DEF ClaudeTypes
  <2>7. ClaudeCounts'
    <3>1. Len(r'.unread) \in Nat /\ Len(r.unread) \in Nat /\ Len(pipe) \in Nat /\ r.results \in Nat
      BY <2>4, LenProperties DEF ClaudeTypes
    <3>2. Cardinality(ResultLines(out)) \in Nat /\ Cardinality(ResultLines(out')) \in Nat
      BY <2>2, FS_CardinalityType DEF ClaudeCounts
    <3>3. r'.results + Cardinality(ResultLines(out')) <= r.results + Cardinality(ResultLines(out))
      BY <2>2, <2>3, <3>1, <3>2
    <3> QED
      BY <2>1, <2>2, <2>3, <2>4, <3>1, <3>3, CountsKept
  <2>8. ClaudeWords'
    BY <2>1, <2>3, <2>4 DEF ClaudeWords, InClaude
  <2> QED
    BY <2>1, <2>5, <2>6, <2>7, <2>8
<1>2. CASE OnResult
  <2>1. /\ out # <<>> /\ Handles /\ Head(out).k = "result"
        /\ \E b, c, d \in {Head(out).error, Finished(Head(out).queued), TRUE} :
             r' = [r EXCEPT !.results = @ + 1, !.seen = b, !.error = c, !.finishing = d]
        /\ proc' \in {Closed, proc}
        /\ UNCHANGED <<agent, pipe, cli, word, read, result>>
    BY <1>2 DEF OnResult, Next1
  <2>2. /\ out' \in Seq(ClaudeOut) /\ IsFiniteSet(ResultLines(out'))
        /\ Cardinality(ResultLines(out')) <= Cardinality(ResultLines(out)) - 1
    <3>1. Cardinality(ResultLines(out)) \in Nat
      BY FS_CardinalityType DEF ClaudeCounts
    <3> QED
      BY <2>1, <3>1, ResultHandled DEF ClaudeTypes, ClaudeCounts
  <2>3. /\ r'.unread = r.unread /\ r'.sent = r.sent /\ r'.results = r.results + 1
        /\ r'.cancelled = r.cancelled
        /\ DOMAIN r' = {"cancelled", "finishing", "sent", "results", "unread", "seen", "error"}
    BY <2>1 DEF ClaudeTypes
  <2>4. ProcInv'
    BY <2>1, ProcKept DEF ProcInv
  <2>5. ClaudeTypes'
    BY <2>1, <2>2, <2>3 DEF ClaudeTypes
  <2>6. ClaudeCounts'
    <3>1. Len(r'.unread) \in Nat /\ Len(r.unread) \in Nat /\ Len(pipe) \in Nat /\ r.results \in Nat
      BY <2>3, LenProperties DEF ClaudeTypes
    <3>2. Cardinality(ResultLines(out)) \in Nat /\ Cardinality(ResultLines(out')) \in Nat
      BY <2>2, FS_CardinalityType DEF ClaudeCounts
    <3>3. r'.results \in Nat /\ r'.results + Cardinality(ResultLines(out')) <= r.results + Cardinality(ResultLines(out))
      BY <2>2, <2>3, <3>1, <3>2
    <3> QED
      BY <2>1, <2>2, <2>3, <3>1, <3>3, CountsKept
  <2>7. /\ proc'.state = proc.state /\ proc'.doomed = proc.doomed /\ proc'.crashed = proc.crashed
        /\ proc'.timedOut = proc.timedOut
    BY <2>1 DEF Closed, ProcInv
  <2>8. ClaudeWords'
    BY <2>1, <2>3, <2>7 DEF ClaudeWords, InClaude
  <2> QED
    BY <2>1, <2>4, <2>5, <2>6, <2>8
<1>3. CASE ClaudeWaits
  <2>1. /\ proc.state = "done" /\ result' \in {"ok", "failed", "cancelled"}
        /\ result' = "ok" => ~r.cancelled /\ ~proc.timedOut
        /\ UNCHANGED <<agent, proc, pipe, out, cli, r, word, read>>
    BY <1>3 DEF ClaudeWaits
  <2>2. ProcInv'
    BY <2>1, ProcKept DEF ProcInv
  <2>3. ClaudeTypes' /\ ClaudeCounts'
    BY <2>1 DEF ClaudeTypes, ClaudeCounts
  <2>4. ClaudeWords'
    BY <2>1 DEF ClaudeWords, InClaude
  <2> QED
    BY <2>1, <2>2, <2>3, <2>4
<1> QED
  BY <1>1, <1>2, <1>3 DEF ClaudeReader

LEMMA ClaudeSaid ==
  ASSUME ProcInv, ClaudeInv, NEW w \in Word, ClaudeSteer(w)
  PROVE  ProcInv' /\ ClaudeInv' /\ agent' = agent
<1> USE DEF ClaudeInv
<1>1. word[w] = "new" /\ UNCHANGED <<agent, proc, out, cli, read, result>>
  BY DEF ClaudeSteer
<1>2. w # Prompt /\ w \in Text
  BY AgentRunAssumption DEF Text
<1>3. CASE Answered(w, "refused") /\ UNCHANGED <<pipe, r>>
  <2>1. word' \in [Word -> Statuses] /\ word'[w] = "refused" /\ \A v \in Word \ {w} : word'[v] = word[v]
    BY <1>3, AnswerTypes DEF Statuses
  <2>2. ProcInv'
    BY <1>1, <2>1, ProcKept DEF ProcInv
  <2>3. ClaudeTypes' /\ ClaudeCounts'
    BY <1>1, <1>3 DEF ClaudeTypes, ClaudeCounts
  <2>4. \A x : InClaude(x)' <=> InClaude(x)
    BY <1>1, <1>3 DEF InClaude
  <2>5. ClaudeWords'
    BY <1>1, <1>2, <1>3, <2>1, <2>4 DEF ClaudeWords, Text
  <2> QED
    BY <1>1, <2>2, <2>3, <2>5
<1>4. CASE /\ proc.state = "up" /\ Answered(w, "accepted")
           /\ pipe' = Append(pipe, [k |-> "user", words |-> <<w>>])
           /\ r' = [r EXCEPT !.sent = @ + 1, !.unread = Append(@, w)]
  <2>1. word' \in [Word -> Statuses] /\ word'[w] = "accepted" /\ \A v \in Word \ {w} : word'[v] = word[v]
    BY <1>4, AnswerTypes DEF Statuses
  <2>2. [k |-> "user", words |-> <<w>>] \in ClaudeIn
    BY <1>2 DEF ClaudeIn
  <2>3. /\ pipe' \in Seq(ClaudeIn) /\ Len(pipe') = Len(pipe) + 1 /\ Len(pipe) \in Nat
        /\ DOMAIN pipe = 1..Len(pipe) /\ DOMAIN pipe' = 1..(Len(pipe) + 1)
        /\ \A n \in DOMAIN pipe : pipe'[n] = pipe[n]
        /\ pipe'[Len(pipe) + 1] = [k |-> "user", words |-> <<w>>]
    BY <1>4, <2>2, Appended DEF ClaudeTypes
  <2>4. /\ r'.sent = r.sent + 1 /\ r'.unread = Append(r.unread, w) /\ r'.results = r.results
        /\ r'.cancelled = r.cancelled
        /\ DOMAIN r' = {"cancelled", "finishing", "sent", "results", "unread", "seen", "error"}
    BY <1>4 DEF ClaudeTypes
  <2>5. /\ r'.unread \in Seq(Text) /\ Len(r'.unread) = Len(r.unread) + 1 /\ Len(r.unread) \in Nat
        /\ ToSet(r'.unread) = ToSet(r.unread) \cup {w}
    BY <1>2, <2>4, Appended DEF ClaudeTypes
  <2>6. ProcInv'
    BY <1>1, <2>1, ProcKept DEF ProcInv
  <2>7. ClaudeTypes'
    BY <1>1, <2>3, <2>4, <2>5 DEF ClaudeTypes
  <2>8. ClaudeCounts'
    <3>1. Cardinality(ResultLines(out)) \in Nat /\ Len(cli.queue) \in Nat
      BY FS_CardinalityType, LenProperties DEF ClaudeCounts, ClaudeTypes
    <3>2. PICK c \in Nat, q \in Nat, l \in Nat, u \in Nat :
            c = Cardinality(ResultLines(out)) /\ q = Len(cli.queue) /\ l = Len(pipe) /\ u = Len(r.unread)
      BY <2>3, <2>5, <3>1
    <3>3. PICK t \in Nat : t = IF cli.turn THEN 1 ELSE 0
      OBVIOUS
    <3>4. /\ IsFiniteSet(ResultLines(out)) /\ r.results \in Nat /\ r.sent \in Nat
          /\ r.results + c + t + q + l <= r.sent /\ u <= r.sent
      BY <3>2, <3>3 DEF ClaudeCounts, ClaudeTypes
    <3>5. r.results + c + t + q + (l + 1) <= r.sent + 1 /\ u + 1 <= r.sent + 1
      BY <3>4
    <3>6. /\ cli' = cli /\ ResultLines(out)' = ResultLines(out) /\ Len(pipe') = l + 1 /\ Len(r'.unread) = u + 1
          /\ r'.results = r.results /\ r'.sent = r.sent + 1
      BY <1>1, <2>3, <2>4, <2>5, <3>2 DEF ResultLines
    <3> QED
      BY <3>2, <3>3, <3>4, <3>5, <3>6 DEF ClaudeCounts
  <2>9. \A x : (InClaude(x)' => InClaude(x) \/ x = w) /\ (InClaude(x) => InClaude(x)')
    <3>1. \A n \in DOMAIN pipe' : n \in DOMAIN pipe \/ (n = Len(pipe) + 1 /\ pipe'[n].words[1] = w)
      BY <2>3
    <3>2. \A n \in DOMAIN pipe : n \in DOMAIN pipe'
      BY <2>3
    <3> QED
      BY <1>1, <2>3, <3>1, <3>2 DEF InClaude
  <2>10. InClaude(w)'
    <3>1. Len(pipe) + 1 \in DOMAIN pipe' /\ pipe'[Len(pipe) + 1].words[1] = w
      BY <2>3
    <3> QED
      BY <3>1 DEF InClaude
  <2>11. ClaudeWords'
    BY <1>1, <1>2, <1>4, <2>1, <2>4, <2>5, <2>9, <2>10 DEF ClaudeWords, Text
  <2> QED
    BY <1>1, <2>6, <2>7, <2>8, <2>11
<1> QED
  BY <1>3, <1>4 DEF ClaudeSteer, CanWrite

LEMMA ClaudeStopped ==
  ASSUME ProcInv, ClaudeInv, ClaudeCancel
  PROVE  ProcInv' /\ ClaudeInv' /\ agent' = agent
<1> USE DEF ClaudeInv
<1>1. /\ result = "none" /\ r' = [r EXCEPT !.cancelled = TRUE]
      /\ proc' = [Closed EXCEPT !.doomed = TRUE, !.stops = @ + 1]
      /\ UNCHANGED <<agent, pipe, out, cli, word, read, result>>
  BY DEF ClaudeCancel
<1>2. /\ DOMAIN proc' = DOMAIN proc
      /\ proc'.stdin = "closed" /\ proc'.state = proc.state /\ proc'.doomed = TRUE
      /\ proc'.timedOut = proc.timedOut /\ proc'.crashed = proc.crashed
  BY <1>1 DEF ProcInv, Closed
<1>3. ProcInv'
  BY <1>1, <1>2 DEF ProcInv
<1>4. /\ r'.cancelled = TRUE /\ r'.unread = r.unread /\ r'.sent = r.sent /\ r'.results = r.results
      /\ DOMAIN r' = {"cancelled", "finishing", "sent", "results", "unread", "seen", "error"}
  BY <1>1 DEF ClaudeTypes
<1>5. ClaudeTypes' /\ ClaudeCounts'
  BY <1>1, <1>4 DEF ClaudeTypes, ClaudeCounts
<1>6. ClaudeWords'
  BY <1>1, <1>2, <1>4 DEF ClaudeWords, InClaude
<1> QED
  BY <1>1, <1>3, <1>5, <1>6

LEMMA ClaudeProcess ==
  ASSUME ProcInv, ClaudeInv, Process
  PROVE  ClaudeInv'
<1> USE DEF ClaudeInv
<1>1. /\ UNCHANGED <<agent, out, cli, r, word, read, result>>
      /\ pipe' = pipe \/ pipe' = <<>>
  BY DEF Process, Dies, TimesOut, Drained
<1>2. /\ pipe' \in Seq(ClaudeIn) /\ Len(pipe) \in Nat /\ Len(pipe') \in Nat /\ Len(pipe') <= Len(pipe)
  <2>1. Len(pipe) \in Nat
    BY LenProperties DEF ClaudeTypes
  <2>2. CASE pipe' = pipe
    BY <2>1, <2>2 DEF ClaudeTypes
  <2>3. CASE pipe' = <<>>
    <3>1. \A S : <<>> \in Seq(S)
      BY EmptySeq
    <3> QED
      BY <2>1, <2>3, <3>1
  <2> QED
    BY <1>1, <2>2, <2>3
<1>3. ClaudeTypes'
  BY <1>1, <1>2 DEF ClaudeTypes
<1>4. ClaudeCounts'
  <2>1. Cardinality(ResultLines(out)) \in Nat /\ Len(cli.queue) \in Nat
    BY FS_CardinalityType, LenProperties DEF ClaudeCounts, ClaudeTypes
  <2> QED
    BY <1>1, <1>2, <2>1 DEF ClaudeCounts, ClaudeTypes
<1>5. \A x : (InClaude(x)' => InClaude(x)) /\ (pipe' = pipe => (InClaude(x) => InClaude(x)'))
  BY <1>1 DEF InClaude
<1>6. CASE Dies
  <2>1. (proc'.doomed \/ proc'.crashed) /\ proc'.doomed = proc.doomed /\ proc'.timedOut = proc.timedOut
    BY <1>6 DEF Dies, ProcInv
  <2> QED
    BY <1>1, <1>3, <1>4, <1>5, <2>1 DEF ClaudeWords
<1>7. CASE TimesOut
  <2>1. proc'.doomed /\ proc'.timedOut /\ result = "none"
    BY <1>7 DEF TimesOut, ProcInv
  <2> QED
    BY <1>1, <1>3, <1>4, <1>5, <2>1 DEF ClaudeWords
<1>8. CASE Drained
  <2>1. /\ proc.state = "down" /\ proc'.doomed = proc.doomed /\ proc'.timedOut = proc.timedOut
        /\ proc'.crashed = proc.crashed
    BY <1>8 DEF Drained, ProcInv
  <2> QED
    BY <1>1, <1>3, <1>4, <1>5, <2>1 DEF ClaudeWords
<1> QED
  BY <1>6, <1>7, <1>8 DEF Process

-----------------------------------------------------------------------------
(* pi                                                                       *)

LEMMA PiStarts ==
  ASSUME ProcInit, PiInit
  PROVE  ProcInv /\ PiInv
<1>1. ProcInv
  BY DEF ProcInit, ProcInv, Statuses
<1>2. \A S : <<>> \in Seq(S)
  BY EmptySeq
<1>3. pipe = <<Line("prompt")>> /\ Line("prompt") \in PiIn /\ Line("prompt").k = "prompt"
  BY DEF PiInit, PiIn, Line
<1>4. pipe \in Seq(PiIn) /\ \A n \in DOMAIN pipe : pipe[n].k = "prompt"
  BY <1>3
<1>5. cli = [at |-> "idle", steers |-> <<>>] /\ cli.steers = <<>> /\ ToSet(cli.steers) = {}
  BY DEF PiInit, ToSet
<1> QED
  BY <1>1, <1>2, <1>4, <1>5 DEF PiInit, PiInv

\* A line is sent, or taken off what was sent.
LEMMA PiPipe ==
  ASSUME PiInv,
         \/ pipe' = pipe
         \/ \E k \in {"prompt", "abort", "get_state"} : pipe' = Append(pipe, Line(k))
         \/ pipe # <<>> /\ pipe' = Tail(pipe)
         \/ pipe' = <<>>
  PROVE  pipe' \in Seq(PiIn) /\ \A n \in DOMAIN pipe' : pipe'[n].k = "steer" => \E m \in DOMAIN pipe : pipe'[n] = pipe[m]
<1>1. CASE pipe' = pipe
  BY <1>1 DEF PiInv
<1>2. CASE \E k \in {"prompt", "abort", "get_state"} : pipe' = Append(pipe, Line(k))
  <2>1. PICK k \in {"prompt", "abort", "get_state"} : pipe' = Append(pipe, Line(k))
    BY <1>2
  <2>2. Line(k) \in PiIn /\ Line(k).k # "steer"
    BY DEF PiIn, Line
  <2>3. /\ pipe' \in Seq(PiIn) /\ DOMAIN pipe = 1..Len(pipe) /\ DOMAIN pipe' = 1..(Len(pipe) + 1) /\ Len(pipe) \in Nat
        /\ \A n \in DOMAIN pipe : pipe'[n] = pipe[n]
        /\ \A n \in DOMAIN pipe' : n \in DOMAIN pipe \/ n = Len(pipe) + 1
        /\ pipe'[Len(pipe) + 1] = Line(k)
    BY <2>1, <2>2, Appended DEF PiInv
  <2> QED
    BY <2>2, <2>3
<1>3. CASE pipe # <<>> /\ pipe' = Tail(pipe)
  <2>1. pipe' \in Seq(PiIn) /\ \A n \in DOMAIN pipe' : n + 1 \in DOMAIN pipe /\ pipe'[n] = pipe[n + 1]
    BY <1>3, Behead DEF PiInv
  <2> QED
    BY <2>1
<1>4. CASE pipe' = <<>>
  <2>1. \A S : <<>> \in Seq(S)
    BY EmptySeq
  <2> QED
    BY <1>4, <2>1
<1> QED
  BY <1>1, <1>2, <1>3, <1>4

\* A step which says nothing new to the agent.
LEMMA PiQuiet ==
  ASSUME PiInv, word' = word,
         \/ pipe' = pipe
         \/ \E k \in {"prompt", "abort", "get_state"} : pipe' = Append(pipe, Line(k))
         \/ pipe # <<>> /\ pipe' = Tail(pipe)
         \/ pipe' = <<>>,
         DOMAIN cli' = DOMAIN cli, cli'.steers = cli.steers \/ cli'.steers = <<>>,
         DOMAIN r' = DOMAIN r, r'.cancelled \in {r.cancelled, TRUE}
  PROVE  PiInv'
<1>1. pipe' \in Seq(PiIn) /\ \A n \in DOMAIN pipe' : pipe'[n].k = "steer" => \E m \in DOMAIN pipe : pipe'[n] = pipe[m]
  BY PiPipe
<1>2. cli'.steers \in Seq(Word) /\ ToSet(cli'.steers) \subseteq ToSet(cli.steers)
  <2>1. \A S : <<>> \in Seq(S)
    BY EmptySeq
  <2>2. ToSet(<<>>) = {}
    BY DEF ToSet
  <2>3. cli.steers \in Seq(Word)
    BY DEF PiInv
  <2>4. CASE cli'.steers = <<>>
    BY <2>1, <2>2, <2>4
  <2>5. CASE cli'.steers = cli.steers
    BY <2>3, <2>5
  <2> QED
    BY <2>4, <2>5
<1>3. \A n \in DOMAIN pipe' : pipe'[n].k = "steer" => word'[pipe'[n].word] = "accepted"
  <2>1. \A m \in DOMAIN pipe : pipe[m].k = "steer" => word[pipe[m].word] = "accepted"
    BY DEF PiInv
  <2> QED
    BY <1>1, <2>1
<1>4. /\ DOMAIN cli' = {"at", "steers"}
      /\ DOMAIN r' = {"cancelled", "settled", "rejected", "failed", "state"} /\ r'.cancelled \in BOOLEAN
  BY DEF PiInv
<1>5. \A w \in ToSet(cli'.steers) : word'[w] = "accepted"
  BY <1>2 DEF PiInv
<1> QED
  BY <1>1, <1>2, <1>3, <1>4, <1>5 DEF PiInv

LEMMA PiProgram ==
  ASSUME ProcInv, PiInv, PiCli
  PROVE  ProcInv' /\ PiInv' /\ agent' = agent
<1>1. CASE \/ PiReadsPrompt \/ PiReadsAbort \/ PiReadsGetState \/ PiAnswers \/ PiSettles
  <2>1. /\ proc.state = "up" /\ UNCHANGED <<agent, proc, r, word, read, result>>
        /\ pipe' = pipe \/ (pipe # <<>> /\ pipe' = Tail(pipe))
        /\ DOMAIN cli' = DOMAIN cli /\ cli'.steers = cli.steers
    <3>1. CASE PiReadsPrompt
      BY <3>1 DEF PiReadsPrompt, Reads, PiInv
    <3>2. CASE PiReadsAbort
      BY <3>2 DEF PiReadsAbort, Reads, PiInv
    <3>3. CASE PiReadsGetState
      BY <3>3 DEF PiReadsGetState, Reads, PiInv
    <3>4. CASE PiAnswers
      BY <3>4 DEF PiAnswers, PiInv
    <3>5. CASE PiSettles
      BY <3>5 DEF PiSettles, PiInv
    <3> QED
      BY <1>1, <3>1, <3>2, <3>3, <3>4, <3>5
  <2>2. ProcInv'
    BY <2>1, ProcKept DEF ProcInv
  <2>3. PiInv'
    BY <2>1, PiQuiet DEF PiInv
  <2> QED
    BY <2>1, <2>2, <2>3
<1>2. CASE PiTakes
  <2>1. /\ proc.state = "up" /\ UNCHANGED <<agent, proc, pipe, out, r, word, result>>
        /\ read' = read \cup ToSet(cli.steers)
        /\ DOMAIN cli' = DOMAIN cli /\ cli'.steers = <<>>
    BY <1>2 DEF PiTakes, PiInv
  <2>2. read' \subseteq Word
    BY <2>1, ElementOfSeq DEF ToSet, PiInv, ProcInv
  <2>3. ProcInv'
    BY <2>1, <2>2, ProcKept DEF ProcInv
  <2>4. PiInv'
    BY <2>1, PiQuiet DEF PiInv
  <2> QED
    BY <2>1, <2>3, <2>4
<1>3. CASE PiReadsSteer
  <2>1. /\ proc.state = "up" /\ pipe # <<>> /\ Head(pipe).k = "steer" /\ pipe' = Tail(pipe)
        /\ cli' = [cli EXCEPT !.steers = Append(@, Head(pipe).word)]
        /\ UNCHANGED <<agent, proc, out, r, word, read, result>>
    BY <1>3 DEF PiReadsSteer, Reads
  <2>2. /\ pipe' \in Seq(PiIn) /\ \A n \in DOMAIN pipe' : n + 1 \in DOMAIN pipe /\ pipe'[n] = pipe[n + 1]
        /\ 1 \in DOMAIN pipe /\ Head(pipe) = pipe[1] /\ Head(pipe) \in PiIn
    BY <2>1, Behead DEF PiInv
  <2>3. Head(pipe).word \in Word /\ word[Head(pipe).word] = "accepted"
    BY <2>1, <2>2 DEF PiInv, PiIn
  <2>4. cli'.steers = Append(cli.steers, Head(pipe).word) /\ DOMAIN cli' = DOMAIN cli
    BY <2>1 DEF PiInv
  <2>5. cli'.steers \in Seq(Word) /\ ToSet(cli'.steers) = ToSet(cli.steers) \cup {Head(pipe).word}
    BY <2>3, <2>4, Appended DEF PiInv
  <2>6. ProcInv'
    BY <2>1, ProcKept DEF ProcInv
  <2>7. \A n \in DOMAIN pipe' : pipe'[n].k = "steer" => word'[pipe'[n].word] = "accepted"
    BY <2>1, <2>2 DEF PiInv
  <2>8. PiInv'
    BY <2>1, <2>2, <2>3, <2>4, <2>5, <2>7 DEF PiInv
  <2> QED
    BY <2>1, <2>6, <2>8
<1>4. CASE Exits(cli.at = "idle")
  <2>1. ProcInv' /\ agent' = agent /\ UNCHANGED <<pipe, out, cli, r, word, read, result>>
    BY <1>4, ProgramExits
  <2>2. PiInv'
    BY <2>1, PiQuiet DEF PiInv
  <2> QED
    BY <2>1, <2>2
<1> QED
  BY <1>1, <1>2, <1>3, <1>4 DEF PiCli

LEMMA PiReads ==
  ASSUME ProcInv, PiInv, PiReader \/ PiCancel
  PROVE  ProcInv' /\ PiInv' /\ agent' = agent
<1>1. CASE OnPrompted
  <2>1. /\ out # <<>> /\ proc' \in {proc, Closed} /\ UNCHANGED <<agent, pipe, cli, word, read, result>>
        /\ DOMAIN r' = DOMAIN r /\ r'.cancelled = r.cancelled
    BY <1>1 DEF OnPrompted, Next1, PiInv
  <2> QED
    BY <2>1, ProcKept, PiQuiet DEF ProcInv, PiInv
<1>2. CASE OnMessageEnd
  <2>1. /\ out # <<>> /\ proc' = proc /\ UNCHANGED <<agent, pipe, cli, word, read, result>>
        /\ DOMAIN r' = DOMAIN r /\ r'.cancelled = r.cancelled
    BY <1>2 DEF OnMessageEnd, Next1, PiInv
  <2> QED
    BY <2>1, ProcKept, PiQuiet DEF ProcInv, PiInv
<1>3. CASE OnSettled
  <2>1. /\ out # <<>> /\ proc' \in {proc, Closed} /\ UNCHANGED <<agent, cli, word, read, result>>
        /\ pipe' = pipe \/ pipe' = Append(pipe, Line("get_state"))
        /\ DOMAIN r' = DOMAIN r /\ r'.cancelled = r.cancelled
    BY <1>3 DEF OnSettled, Next1, PiInv
  <2> QED
    BY <2>1, ProcKept, PiQuiet DEF ProcInv, PiInv
<1>4. CASE OnState
  <2>1. /\ out # <<>> /\ proc' = Closed /\ UNCHANGED <<agent, pipe, cli, word, read, result>>
        /\ DOMAIN r' = DOMAIN r /\ r'.cancelled = r.cancelled
    BY <1>4 DEF OnState, Next1, PiInv
  <2> QED
    BY <2>1, ProcKept, PiQuiet DEF ProcInv, PiInv
<1>5. CASE PiKills
  <2>1. /\ proc' = [Closed EXCEPT !.doomed = TRUE] /\ UNCHANGED <<agent, pipe, out, cli, r, word, read, result>>
    BY <1>5 DEF PiKills
  <2>2. ProcInv'
    BY <2>1 DEF ProcInv, Closed
  <2> QED
    BY <2>1, <2>2, PiQuiet DEF PiInv
<1>6. CASE PiWaits
  <2>1. /\ proc.state = "done" /\ result' \in {"ok", "failed", "cancelled"}
        /\ UNCHANGED <<agent, proc, pipe, out, cli, r, word, read>>
    BY <1>6 DEF PiWaits
  <2> QED
    BY <2>1, ProcKept, PiQuiet DEF ProcInv, PiInv
<1>7. CASE PiCancel
  <2>1. /\ DOMAIN r' = DOMAIN r /\ r'.cancelled = TRUE
        /\ pipe' = pipe \/ pipe' = Append(pipe, Line("abort"))
        /\ proc' = [proc EXCEPT !.stops = @ + 1]
        /\ UNCHANGED <<agent, out, cli, word, read, result>>
    BY <1>7 DEF PiCancel, PiInv
  <2>2. ProcInv'
    BY <2>1 DEF ProcInv
  <2> QED
    BY <2>1, <2>2, PiQuiet DEF PiInv
<1> QED
  BY <1>1, <1>2, <1>3, <1>4, <1>5, <1>6, <1>7 DEF PiReader

LEMMA PiSaid ==
  ASSUME ProcInv, PiInv, NEW w \in Word, PiSteer(w)
  PROVE  ProcInv' /\ PiInv' /\ agent' = agent
<1>1. word[w] = "new" /\ UNCHANGED <<agent, proc, out, cli, r, read, result>>
  BY DEF PiSteer
<1>2. CASE Answered(w, "refused") /\ pipe' = pipe
  <2>1. word' \in [Word -> Statuses] /\ word'[w] = "refused" /\ \A v \in Word \ {w} : word'[v] = word[v]
    BY <1>2, AnswerTypes DEF Statuses
  <2>2. ProcInv'
    BY <1>1, <2>1, ProcKept DEF ProcInv
  <2>3. \A v \in Word : word[v] = "accepted" => word'[v] = "accepted"
    BY <1>1, <2>1
  <2>4. \A n \in DOMAIN pipe : pipe[n].k = "steer" => pipe[n].word \in Word
    BY ElementOfSeq DEF PiInv, PiIn
  <2>5. \A v \in ToSet(cli.steers) : v \in Word
    BY ElementOfSeq DEF PiInv, ToSet
  <2>6. PiInv'
    BY <1>1, <1>2, <2>3, <2>4, <2>5 DEF PiInv
  <2> QED
    BY <1>1, <2>2, <2>6
<1>3. CASE Answered(w, "accepted") /\ pipe' = Append(pipe, [k |-> "steer", word |-> w])
  <2>1. word' \in [Word -> Statuses] /\ word'[w] = "accepted" /\ \A v \in Word \ {w} : word'[v] = word[v]
    BY <1>3, AnswerTypes DEF Statuses
  <2>2. ProcInv'
    BY <1>1, <2>1, ProcKept DEF ProcInv
  <2>3. \A v \in Word : word[v] = "accepted" => word'[v] = "accepted"
    BY <1>1, <2>1
  <2>4. \A n \in DOMAIN pipe : pipe[n].k = "steer" => pipe[n].word \in Word
    BY ElementOfSeq DEF PiInv, PiIn
  <2>5. \A v \in ToSet(cli.steers) : v \in Word
    BY ElementOfSeq DEF PiInv, ToSet
  <2>6. [k |-> "steer", word |-> w] \in PiIn
    BY DEF PiIn
  <2>7. /\ pipe' \in Seq(PiIn) /\ \A n \in DOMAIN pipe : pipe'[n] = pipe[n]
        /\ \A n \in DOMAIN pipe' : n \in DOMAIN pipe \/ n = Len(pipe) + 1
        /\ pipe'[Len(pipe) + 1] = [k |-> "steer", word |-> w]
    BY <1>3, <2>6, Appended DEF PiInv
  <2>8. \A n \in DOMAIN pipe' : pipe'[n].k = "steer" => word'[pipe'[n].word] = "accepted"
    <3> SUFFICES ASSUME NEW n \in DOMAIN pipe', pipe'[n].k = "steer"
                 PROVE  word'[pipe'[n].word] = "accepted"
      OBVIOUS
    <3>1. CASE n \in DOMAIN pipe
      <4>1. pipe'[n] = pipe[n]
        BY <2>7, <3>1
      <4>2. word[pipe[n].word] = "accepted"
        BY <3>1, <4>1 DEF PiInv
      <4> QED
        BY <2>3, <2>4, <3>1, <4>1, <4>2
    <3>2. CASE n = Len(pipe) + 1
      BY <2>1, <2>7, <3>2
    <3> QED
      BY <2>7, <3>1, <3>2
  <2>9. PiInv'
    BY <1>1, <2>3, <2>5, <2>7, <2>8 DEF PiInv
  <2> QED
    BY <1>1, <2>2, <2>9
<1> QED
  BY <1>2, <1>3 DEF PiSteer

LEMMA PiProcess ==
  ASSUME PiInv, Process
  PROVE  PiInv'
<1>1. UNCHANGED <<cli, r, word>> /\ (pipe' = pipe \/ pipe' = <<>>)
  BY DEF Process, Dies, TimesOut, Drained
<1> QED
  BY <1>1, PiQuiet DEF PiInv

-----------------------------------------------------------------------------
(* CODEX: lines                                                             *)

\* Nothing is in the one that is not in the other.
From(t, s) == \A n \in DOMAIN t : \E m \in DOMAIN s : t[n] = s[m]

LEMMA FromTail ==
  ASSUME NEW S, NEW s \in Seq(S), s # <<>>
  PROVE  From(Tail(s), s)
BY Behead DEF From

LEMMA FromNone ==
  ASSUME NEW s
  PROVE  From(<<>>, s) /\ From(s, s)
BY DEF From

LEMMA MarkedSent ==
  ASSUME NEW S, NEW s \in Seq(S), NEW e \in S, NEW k
  PROVE  Marked(Append(s, e), k) = IF e.k = k THEN Marked(s, k) \cup {Len(s) + 1} ELSE Marked(s, k)
<1> DEFINE t == Append(s, e)
<1>1. /\ \A n \in DOMAIN s : n \in DOMAIN t /\ t[n] = s[n]
      /\ \A n \in DOMAIN t : n \in DOMAIN s \/ n = Len(s) + 1
      /\ Len(s) + 1 \in DOMAIN t /\ Len(s) + 1 \notin DOMAIN s /\ t[Len(s) + 1] = e
  BY Appended
<1> HIDE DEF t
<1>2. Marked(t, k) = IF e.k = k THEN Marked(s, k) \cup {Len(s) + 1} ELSE Marked(s, k)
  BY <1>1 DEF Marked
<1> QED
  BY <1>2 DEF t

LEMMA MarkedTaken ==
  ASSUME NEW S, NEW s \in Seq(S), s # <<>>, NEW k, \A m, n \in Marked(s, k) : m = n
  PROVE  /\ \A m, n \in Marked(Tail(s), k) : m = n
         /\ Marked(s, k) = {} \/ Head(s).k = k => Marked(Tail(s), k) = {}
<1>1. /\ DOMAIN s = 1..Len(s) /\ DOMAIN Tail(s) = 1..(Len(s) - 1) /\ Len(s) \in Nat
      /\ \A n \in DOMAIN Tail(s) : n + 1 \in DOMAIN s /\ Tail(s)[n] = s[n + 1]
      /\ 1 \in DOMAIN s /\ Head(s) = s[1]
  BY Behead
<1>2. \A n \in Marked(Tail(s), k) : n + 1 \in Marked(s, k) /\ n \in Nat /\ n >= 1
  BY <1>1 DEF Marked
<1>3. \A m, n \in Marked(Tail(s), k) : m = n
  <2> TAKE m, n \in Marked(Tail(s), k)
  <2>1. m + 1 = n + 1 /\ m \in Nat /\ n \in Nat
    BY <1>2
  <2> QED
    BY <2>1
<1>4. Head(s).k = k => 1 \in Marked(s, k)
  BY <1>1 DEF Marked
<1>5. \A n \in Marked(Tail(s), k) : n + 1 # 1
  BY <1>2
<1> QED
  BY <1>2, <1>3, <1>4, <1>5

\* The call is no longer among what is being steered, and the others are.
LEMMA WithoutLeaves ==
  ASSUME r.steering \in Seq(Steering1),
         \A m, n \in DOMAIN r.steering : r.steering[m].id = r.steering[n].id => m = n,
         NEW id
  PROVE  /\ Without(id) \in Seq(Steering1) /\ From(Without(id), r.steering)
         /\ \A m, n \in DOMAIN Without(id) : Without(id)[m].id = Without(id)[n].id => m = n
         /\ \A n \in DOMAIN Without(id) : Without(id)[n].id # id
         /\ \A n \in DOMAIN r.steering : r.steering[n].id = id \/ \E m \in DOMAIN Without(id) : Without(id)[m] = r.steering[n]
         /\ r.steering = <<>> => Without(id) = <<>>
<1> DEFINE at == {n \in DOMAIN r.steering : r.steering[n].id = id}
           s == r.steering
           i == CHOOSE n \in at : TRUE
           t == RemoveAt(s, i)
<1>1. CASE at = {}
  <2>1. Without(id) = r.steering
    BY <1>1 DEF Without
  <2>2. \A n \in DOMAIN r.steering : r.steering[n].id # id
    BY <1>1
  <2> HIDE DEF at
  <2> QED
    BY <2>1, <2>2, FromNone
<1>2. CASE at # {}
  <2>1. Without(id) = t
    BY <1>2 DEF Without
  <2>2. i \in DOMAIN s /\ s[i].id = id
    BY <1>2
  <2> HIDE DEF at, i
  <2>3. /\ t \in Seq(Steering1) /\ DOMAIN s = 1..Len(s) /\ DOMAIN t = 1..(Len(s) - 1) /\ Len(s) \in Nat
        /\ \A n \in DOMAIN t : t[n] = IF n < i THEN s[n] ELSE s[n + 1]
    BY <2>2, Dropped
  <2> HIDE DEF s, t
  <2> DEFINE from(n) == IF n < i THEN n ELSE n + 1
  <2>4. /\ i \in 1..Len(s)
        /\ \A n \in DOMAIN t : from(n) \in DOMAIN s /\ t[n] = s[from(n)] /\ from(n) # i
    BY <2>2, <2>3
  <2>5. \A m, n \in DOMAIN t : from(m) = from(n) => m = n
    BY <2>3, <2>4
  <2>6. \A n \in DOMAIN s : n = i \/ \E m \in DOMAIN t : from(m) = n
    <3> TAKE n \in DOMAIN s
    <3>1. CASE n < i
      <4>1. n \in DOMAIN t /\ from(n) = n
        BY <2>3, <2>4, <3>1
      <4> QED
        BY <4>1
    <3>2. CASE n > i
      <4>1. n - 1 \in DOMAIN t /\ from(n - 1) = n
        BY <2>3, <2>4, <3>2
      <4> QED
        BY <4>1
    <3> QED
      BY <2>3, <2>4, <3>1, <3>2
  <2> HIDE DEF from
  <2>7. \A m, n \in DOMAIN s : s[m].id = s[n].id => m = n
    BY DEF s
  <2>8. /\ From(t, s)
        /\ \A m, n \in DOMAIN t : t[m].id = t[n].id => m = n
        /\ \A n \in DOMAIN t : t[n].id # id
        /\ \A n \in DOMAIN s : s[n].id = id \/ \E m \in DOMAIN t : t[m] = s[n]
    <3>1. From(t, s)
      BY <2>4 DEF From
    <3>2. \A m, n \in DOMAIN t : t[m].id = t[n].id => m = n
      BY <2>4, <2>5, <2>7
    <3>3. \A n \in DOMAIN t : t[n].id # id
      BY <2>2, <2>4, <2>7
    <3>4. \A n \in DOMAIN s : s[n].id = id \/ \E m \in DOMAIN t : t[m] = s[n]
      BY <2>2, <2>4, <2>6
    <3> QED
      BY <3>1, <3>2, <3>3, <3>4
  <2>9. s # <<>>
    BY <2>2
  <2> QED
    BY <2>1, <2>3, <2>8, <2>9 DEF s
<1> QED
  BY <1>1, <1>2

-----------------------------------------------------------------------------
(* CODEX: what a step leaves alone                                          *)

LEMMA CodexBegins ==
  ASSUME ProcInit, CodexInit
  PROVE  ProcInv /\ CodexInv
<1>1. ProcInv
  BY DEF ProcInit, ProcInv, Statuses
<1>2. \A S : <<>> \in Seq(S)
  BY EmptySeq
<1>3. <<Prompt>> \in Seq(Text)
  BY DEF Text
<1>4. /\ DOMAIN r = {"pc", "input", "turn", "state", "ended", "started", "token", "queue", "waiting", "steering",
                     "calls", "cancelled", "finishing", "failure"}
      /\ r.pc = "open" /\ r.input = <<Prompt>> /\ r.turn = 0 /\ r.state = "" /\ r.ended = <<>> /\ r.started = 0
      /\ r.queue = <<>> /\ r.waiting = <<>> /\ r.steering = <<>> /\ r.calls = <<>>
      /\ r.cancelled = FALSE /\ r.finishing = FALSE /\ r.failure = FALSE
  BY DEF CodexInit
<1>5. /\ DOMAIN cli = {"turn", "turns", "steers", "owes", "unhooked", "interrupted"}
      /\ cli.turn = 0 /\ cli.turns = 0 /\ cli.steers = <<>> /\ cli.owes = {} /\ cli.unhooked = FALSE
  BY DEF CodexInit
<1>6. pipe = <<>> /\ out = <<>> /\ result = "none" /\ word = [w \in Word |-> "new"]
      /\ proc.doomed = FALSE /\ proc.stdin = "open"
  BY DEF CodexInit, ProcInit
<1>7. DOMAIN pipe = {} /\ DOMAIN out = {} /\ DOMAIN r.calls = {} /\ DOMAIN r.steering = {} /\ DOMAIN cli.steers = {}
      /\ DOMAIN r.ended = {}
  <2>1. DOMAIN <<>> = {}
    OBVIOUS
  <2> QED
    BY <1>4, <1>5, <1>6, <2>1
<1>8. CodexTypes
  <2>1. <<>> \in Seq(Word) /\ <<>> \in Seq(Steering1) /\ <<>> \in Seq(Calls) /\ <<>> \in Seq(CodexIn) /\ <<>> \in Seq(CodexOut)
    BY <1>2
  <2>2. /\ pipe \in Seq(CodexIn) /\ out \in Seq(CodexOut) /\ r.input \in Seq(Text)
        /\ r.queue \in Seq(Word) /\ r.waiting \in Seq(Word) /\ r.steering \in Seq(Steering1) /\ r.calls \in Seq(Calls)
        /\ cli.steers \in Seq(Steering1)
    BY <1>3, <1>4, <1>5, <1>6, <2>1, Zenon
  <2>3. r.pc \in Pcs /\ r.turn \in Nat /\ r.started \in Nat /\ cli.turns \in Nat /\ cli.owes \in SUBSET Nat
    <3>1. 0 \in Nat /\ {} \in SUBSET Nat /\ "open" \in Pcs
      BY DEF Pcs
    <3> QED
      BY <1>4, <1>5, <3>1, Zenon
  <2>4. r.cancelled \in BOOLEAN /\ r.finishing \in BOOLEAN /\ r.failure \in BOOLEAN
    BY <1>4, Zenon
  <2> QED
    BY <1>4, <1>5, <2>2, <2>3, <2>4 DEF CodexTypes
<1>9. CodexTurns
  <2>1. r.turn \in 0..cli.turns /\ r.started \in 0..cli.turns /\ cli.turn \in 0..cli.turns
    <3>1. 0 \in 0..0
      OBVIOUS
    <3> QED
      BY <1>4, <1>5, <3>1, Zenon
  <2>2. cli.owes \subseteq 1..cli.turns /\ DOMAIN r.ended \subseteq 1..cli.turns
    BY <1>5, <1>7
  <2>3. \A n \in DOMAIN out : out[n].k \in {"started", "completed"} => out[n].turn \in 1..cli.turns
    BY <1>7
  <2>4. r.pc = "open" /\ r.turn = 0 /\ r.state = "" /\ r.input = <<Prompt>> /\ r.steering = <<>> /\ r.waiting = <<>>
        /\ ~r.finishing
    BY <1>4
  <2> QED
    BY <2>1, <2>2, <2>3, <2>4 DEF CodexTurns
<1>10. CodexStarts
  BY <1>4, <1>5, <1>7 DEF CodexStarts, StartLines, StartedLines, Marked
<1>11. CodexStops
  BY <1>4, <1>5, <1>6 DEF CodexStops
<1>12. CodexCalls
  BY <1>7 DEF CodexCalls
<1>13. \A w \in Word : ~Driven(w)
  BY <1>4, <1>6, <1>7 DEF Driven, Kept, Started1, ToSet
<1>14. CodexCharge
  BY <1>7, <1>13 DEF CodexCharge
<1>15. CodexWords
  BY <1>4, <1>6, <1>7 DEF CodexWords, Owed, Ending
<1> QED
  BY <1>1, <1>8, <1>9, <1>10, <1>11, <1>12, <1>14, <1>15 DEF CodexInv

\* The calls are the same, or over.
SameCalls ==
  /\ DOMAIN r'.calls = DOMAIN r.calls
  /\ \A n \in DOMAIN r.calls :
       /\ r'.calls[n].word = r.calls[n].word /\ r'.calls[n].from = r.calls[n].from
       /\ r'.calls[n].at # "over" => r.calls[n].at # "over"
SteersFrom(t, s) == \A n \in DOMAIN t : t[n].k = "turn/steer" => \E m \in DOMAIN s : t[n] = s[m]

LEMMA StartsKept ==
  ASSUME CodexStarts,
         StartLines = {} => StartLines' = {}, \A m, n \in StartLines' : m = n,
         StartedLines = {} => StartedLines' = {}, \A m, n \in StartedLines' : m = n,
         cli'.owes = cli.owes, r'.started = r.started,
         r'.pc # "starting" /\ ~Ending' => r.pc # "starting" /\ ~Ending
  PROVE  CodexStarts'
BY DEF CodexStarts

LEMMA CallsKept ==
  ASSUME CodexCalls, SameCalls, From(r'.steering, r.steering),
         \A m, n \in DOMAIN r'.steering : r'.steering[m].id = r'.steering[n].id => m = n,
         SteersFrom(pipe', pipe),
         \A n \in DOMAIN cli'.steers : CallIs(cli'.steers[n]),
         \A n \in DOMAIN out' : out'[n].k = "userMessage" =>
           out'[n].id \in DOMAIN r.calls /\ r.calls[out'[n].id].word \in read',
         word' = word, r.pc = "word" => r'.pc = "word"
  PROVE  CodexCalls'
<1>1. \A s : CallIs(s) => CallIs(s)'
  BY DEF CallIs, SameCalls
<1>2. (\A n \in DOMAIN r.steering : CallIs(r.steering[n]))'
  <2>1. \A n \in DOMAIN r.steering : CallIs(r.steering[n])
    BY DEF CodexCalls
  <2>2. \A n \in DOMAIN r'.steering : CallIs(r'.steering[n])
    BY <2>1 DEF From
  <2> QED
    BY <2>2 DEF CallIs, SameCalls
<1>3. (\A n \in DOMAIN pipe : pipe[n].k = "turn/steer" => CallIs(pipe[n]))'
  <2>1. \A n \in DOMAIN pipe : pipe[n].k = "turn/steer" => CallIs(pipe[n])
    BY DEF CodexCalls
  <2>2. \A n \in DOMAIN pipe' : pipe'[n].k = "turn/steer" => CallIs(pipe'[n])
    BY <2>1 DEF SteersFrom
  <2> QED
    BY <2>2 DEF CallIs, SameCalls
<1>4. (\A n \in DOMAIN cli.steers : CallIs(cli.steers[n]))'
  BY DEF CallIs, SameCalls
<1>5. \A n \in DOMAIN out' : out'[n].k = "userMessage" =>
           out'[n].id \in DOMAIN r'.calls /\ r'.calls[out'[n].id].word \in read'
  BY DEF SameCalls
<1>6. \A n \in DOMAIN r'.calls : (Personal(n)' <=> Personal(n)) /\ (Alive(n)' => Alive(n))
  BY DEF SameCalls, Personal, Alive
<1>7. /\ \A n \in DOMAIN r'.calls : ~Personal(n)' /\ Alive(n)' => r'.pc = "word"
      /\ \A m, n \in DOMAIN r'.calls : ~Personal(m)' /\ Alive(m)' /\ ~Personal(n)' /\ Alive(n)' => m = n
      /\ \A n \in DOMAIN r'.calls : Personal(n)' /\ Alive(n)' => word'[r'.calls[n].word] = "asking"
      /\ \A m, n \in DOMAIN r'.calls : Personal(m)' /\ Personal(n)' /\ r'.calls[m].word = r'.calls[n].word => m = n
  BY <1>6 DEF CodexCalls, SameCalls
<1> QED
  BY <1>2, <1>3, <1>4, <1>5, <1>7 DEF CodexCalls

LEMMA ChargeKept ==
  ASSUME CodexCharge, SameCalls, From(r'.steering, r.steering), SteersFrom(pipe', pipe), word' = word,
         \A w \in Word : Kept(w)' => Driven(w),
         \A n \in DOMAIN r.steering : CallIs(r.steering[n]) /\ r.steering[n].word \in Word,
         proc'.state = "up" /\ ~r'.cancelled => proc.state = "up" /\ ~r.cancelled,
         proc.state = "up" /\ ~r.cancelled => \A n \in DOMAIN cli'.steers : word[cli'.steers[n].word] # "refused"
  PROVE  CodexCharge'
<1>1. \A n \in DOMAIN r'.calls : (Personal(n)' <=> Personal(n)) /\ (Alive(n)' => Alive(n))
  BY DEF SameCalls, Personal, Alive
<1>2. \A w \in Word : Driven(w)' => Driven(w)
  BY <1>1 DEF Driven, SameCalls
<1>3. \A w \in Word : Driven(w)' => word'[w] \in {"asking", "accepted"}
  BY <1>2 DEF CodexCharge
<1>4. \A n \in DOMAIN r'.steering : word'[r'.steering[n].word] \in {"asking", "accepted"}
  BY DEF CodexCharge, From
<1>5. (\A n \in DOMAIN r.steering :
         Personal(r.steering[n].id) /\ Alive(r.steering[n].id) => ~Driven(r.steering[n].word))'
  <2> SUFFICES ASSUME NEW n \in DOMAIN r'.steering
               PROVE  (Personal(r.steering[n].id) /\ Alive(r.steering[n].id) => ~Driven(r.steering[n].word))'
    OBVIOUS
  <2>1. PICK m \in DOMAIN r.steering : r'.steering[n] = r.steering[m]
    BY DEF From
  <2>2. PICK id, w : id = r.steering[m].id /\ w = r.steering[m].word
    OBVIOUS
  <2>3. id \in DOMAIN r'.calls /\ w \in Word
    BY <2>2 DEF CallIs, SameCalls
  <2>4. Personal(id)' /\ Alive(id)' => ~Driven(w)'
    <3>1. Personal(id) /\ Alive(id) => ~Driven(w)
      BY <2>2 DEF CodexCharge
    <3> QED
      BY <1>1, <1>2, <2>3, <3>1
  <2>5. r'.steering[n].id = id /\ r'.steering[n].word = w
    BY <2>1, <2>2
  <2> QED
    BY <2>4, <2>5 DEF Personal, Alive, Driven, Kept, Started1
<1>6. \A n \in DOMAIN r'.calls : word'[r'.calls[n].word] # "new"
  BY DEF CodexCharge, SameCalls
<1>7. proc'.state = "up" /\ ~r'.cancelled =>
       /\ \A n \in DOMAIN pipe' : pipe'[n].k = "turn/steer" => word'[pipe'[n].word] # "refused"
       /\ \A n \in DOMAIN cli'.steers : word'[cli'.steers[n].word] # "refused"
  BY DEF CodexCharge, SteersFrom
<1> QED
  BY <1>3, <1>4, <1>5, <1>6, <1>7 DEF CodexCharge

LEMMA WordsKept ==
  ASSUME CodexWords, SameCalls, word' = word,
         Fine' => Fine,
         Fine' => \A w \in Word : Held(w) => Held(w)',
         Fine' /\ Ending' => Emptied'
  PROVE  CodexWords'
<1>1. \A w \in Word : Owed(w)' => Owed(w)
  BY DEF Owed, SameCalls, Alive
<1> QED
  BY <1>1 DEF CodexWords

\* The steering entries' words.
LEMMA SteeringIs ==
  ASSUME CodexTypes, CodexCalls
  PROVE  \A n \in DOMAIN r.steering : CallIs(r.steering[n]) /\ r.steering[n] \in Steering1 /\ r.steering[n].word \in Word
<1>1. \A n \in DOMAIN r.steering : r.steering[n] \in Steering1
  BY ElementOfSeq DEF CodexTypes
<1> QED
  BY <1>1 DEF CodexCalls, Steering1

-----------------------------------------------------------------------------
(* CODEX: the program                                                       *)

\* The process is the same, or no longer runs.
SameProc ==
  /\ proc'.doomed = proc.doomed /\ proc'.stdin = proc.stdin /\ proc'.timedOut = proc.timedOut
  /\ proc'.crashed = proc.crashed
  /\ proc'.state = proc.state \/ (proc.state # "done" /\ proc'.state # "up")

LEMMA PipeTaken ==
  ASSUME CodexTypes, CodexStarts, pipe # <<>>, pipe' = Tail(pipe)
  PROVE  /\ pipe' \in Seq(CodexIn) /\ SteersFrom(pipe', pipe)
         /\ Head(pipe) \in CodexIn /\ 1 \in DOMAIN pipe /\ Head(pipe) = pipe[1]
         /\ \A m, n \in StartLines' : m = n
         /\ StartLines = {} \/ Head(pipe).k = "turn/start" => StartLines' = {}
         /\ \A w : Started1(w)' => Started1(w)
         /\ \A w : Started1(w) => Started1(w)' \/ (Head(pipe).k = "turn/start" /\ w \in ToSet(Head(pipe).words))
<1>1. /\ pipe' \in Seq(CodexIn) /\ \A n \in DOMAIN pipe' : n + 1 \in DOMAIN pipe /\ pipe'[n] = pipe[n + 1]
      /\ \A n \in DOMAIN pipe : n = 1 \/ (n - 1 \in DOMAIN pipe' /\ pipe[n] = pipe'[n - 1])
      /\ 1 \in DOMAIN pipe /\ Head(pipe) = pipe[1] /\ Head(pipe) \in CodexIn
  BY Behead DEF CodexTypes
<1>2. SteersFrom(pipe', pipe)
  BY <1>1 DEF SteersFrom
<1>3. /\ \A m, n \in StartLines' : m = n
      /\ StartLines = {} \/ Head(pipe).k = "turn/start" => StartLines' = {}
  BY MarkedTaken DEF CodexTypes, CodexStarts, StartLines
<1>4. \A w : Started1(w)' => Started1(w)
  BY <1>1 DEF Started1
<1>5. \A w : Started1(w) => Started1(w)' \/ (Head(pipe).k = "turn/start" /\ w \in ToSet(Head(pipe).words))
  BY <1>1 DEF Started1
<1> QED
  BY <1>1, <1>2, <1>3, <1>4, <1>5

LEMMA PipeSent ==
  ASSUME CodexTypes, NEW line \in CodexIn, pipe' = Append(pipe, line)
  PROVE  /\ pipe' \in Seq(CodexIn)
         /\ \A n \in DOMAIN pipe : n \in DOMAIN pipe' /\ pipe'[n] = pipe[n]
         /\ \A n \in DOMAIN pipe' : (n \in DOMAIN pipe /\ pipe'[n] = pipe[n]) \/ pipe'[n] = line
         /\ \E n \in DOMAIN pipe' : pipe'[n] = line
         /\ StartLines' = IF line.k = "turn/start" THEN StartLines \cup {Len(pipe) + 1} ELSE StartLines
         /\ \A w : Started1(w)' <=> Started1(w) \/ (line.k = "turn/start" /\ w \in ToSet(line.words))
<1>1. /\ pipe' \in Seq(CodexIn)
      /\ \A n \in DOMAIN pipe : n \in DOMAIN pipe' /\ pipe'[n] = pipe[n]
      /\ \A n \in DOMAIN pipe' : n \in DOMAIN pipe \/ n = Len(pipe) + 1
      /\ Len(pipe) + 1 \in DOMAIN pipe' /\ pipe'[Len(pipe) + 1] = line
  BY Appended DEF CodexTypes
<1>2. StartLines' = IF line.k = "turn/start" THEN StartLines \cup {Len(pipe) + 1} ELSE StartLines
  BY MarkedSent DEF CodexTypes, StartLines
<1>3. \A w : Started1(w)' <=> Started1(w) \/ (line.k = "turn/start" /\ w \in ToSet(line.words))
  BY <1>1 DEF Started1
<1> QED
  BY <1>1, <1>2, <1>3

LEMMA OutTold ==
  ASSUME CodexTypes, NEW line \in CodexOut, Emits(line)
  PROVE  /\ out' \in Seq(CodexOut)
         /\ \A n \in DOMAIN out : n \in DOMAIN out' /\ out'[n] = out[n]
         /\ \A n \in DOMAIN out' : (n \in DOMAIN out /\ out'[n] = out[n]) \/ out'[n] = line
         /\ \E n \in DOMAIN out' : out'[n] = line
         /\ StartedLines' = IF line.k = "started" THEN StartedLines \cup {Len(out) + 1} ELSE StartedLines
<1>1. /\ out' \in Seq(CodexOut)
      /\ \A n \in DOMAIN out : n \in DOMAIN out' /\ out'[n] = out[n]
      /\ \A n \in DOMAIN out' : n \in DOMAIN out \/ n = Len(out) + 1
      /\ Len(out) + 1 \in DOMAIN out' /\ out'[Len(out) + 1] = line
  BY Appended DEF CodexTypes, Emits
<1>2. StartedLines' = IF line.k = "started" THEN StartedLines \cup {Len(out) + 1} ELSE StartedLines
  BY MarkedSent DEF CodexTypes, Emits, StartedLines
<1> QED
  BY <1>1, <1>2

LEMMA OutHeard ==
  ASSUME CodexTypes, CodexStarts, out # <<>>, Handles
  PROVE  /\ out' \in Seq(CodexOut)
         /\ Head(out) \in CodexOut /\ 1 \in DOMAIN out /\ Head(out) = out[1]
         /\ \A n \in DOMAIN out' : \E m \in DOMAIN out : out'[n] = out[m]
         /\ \A n \in DOMAIN out : out[n] = Head(out) \/ \E m \in DOMAIN out' : out'[m] = out[n]
         /\ \A m, n \in StartedLines' : m = n
         /\ StartedLines = {} \/ Head(out).k = "started" => StartedLines' = {}
<1>1. /\ out' \in Seq(CodexOut) /\ \A n \in DOMAIN out' : n + 1 \in DOMAIN out /\ out'[n] = out[n + 1]
      /\ \A n \in DOMAIN out : n = 1 \/ (n - 1 \in DOMAIN out' /\ out[n] = out'[n - 1])
      /\ 1 \in DOMAIN out /\ Head(out) = out[1] /\ Head(out) \in CodexOut
  BY Behead DEF CodexTypes, Handles
<1>2. /\ \A m, n \in StartedLines' : m = n
      /\ StartedLines = {} \/ Head(out).k = "started" => StartedLines' = {}
  BY MarkedTaken DEF CodexTypes, CodexStarts, Handles, StartedLines
<1> QED
  BY <1>1, <1>2

\* What a step of the program has to keep.
LEMMA ProgramKept ==
  ASSUME CodexInv, UNCHANGED <<r, word, result>>, SameProc,
         pipe' \in Seq(CodexIn), SteersFrom(pipe', pipe), out' \in Seq(CodexOut),
         DOMAIN cli' = DOMAIN cli, cli'.turns \in Nat, cli'.turns >= cli.turns, cli'.steers \in Seq(Steering1),
         cli'.owes \subseteq 1..cli'.turns, cli'.turn \in 0..cli'.turns,
         \A n \in DOMAIN out' : out'[n].k \in {"started", "completed"} => out'[n].turn \in 1..cli'.turns,
         cli'.unhooked => r.failure \/ \E n \in DOMAIN out' : out'[n].k = "tool",
         \A n \in DOMAIN cli'.steers : CallIs(cli'.steers[n]),
         proc.state = "up" /\ ~r.cancelled => \A n \in DOMAIN cli'.steers : word[cli'.steers[n].word] # "refused",
         \A n \in DOMAIN out' : out'[n].k = "userMessage" =>
           out'[n].id \in DOMAIN r.calls /\ r.calls[out'[n].id].word \in read',
         read \subseteq read',
         \A w \in Word : (Started1(w)' => Started1(w)) /\ (Started1(w) => Started1(w)' \/ w \in read'),
         StartLines = {} => StartLines' = {},
         CodexStarts'
  PROVE  CodexInv'
<1> USE DEF CodexInv
<1>1. SameCalls /\ From(r'.steering, r.steering)
  BY DEF SameCalls, From
<1>2. CodexTypes'
  <2>1. cli'.owes \in SUBSET Nat
    <3>1. \A n : 1..n \subseteq Nat
      OBVIOUS
    <3> QED
      BY <3>1
  <2> QED
    BY <2>1 DEF CodexTypes
<1>3. CodexTurns'
  <2>1. r'.turn \in 0..cli'.turns /\ r'.started \in 0..cli'.turns /\ DOMAIN r'.ended \subseteq 1..cli'.turns
    <3>1. \A i, j \in Nat : i <= j => 0..i \subseteq 0..j /\ 1..i \subseteq 1..j
      OBVIOUS
    <3>2. 0..cli.turns \subseteq 0..cli'.turns /\ 1..cli.turns \subseteq 1..cli'.turns
      BY <3>1 DEF CodexTypes
    <3> QED
      BY <3>2 DEF CodexTurns
  <2>2. Ending' = Ending
    BY DEF Ending
  <2> QED
    BY <2>1, <2>2 DEF CodexTurns
<1>4. CodexStops'
  BY DEF CodexStops, SameProc
<1>5. CodexCalls'
  <2>1. \A m, n \in DOMAIN r'.steering : r'.steering[m].id = r'.steering[n].id => m = n
    BY DEF CodexCalls
  <2> QED
    BY <1>1, <2>1, CallsKept
<1>6. CodexCharge'
  <2>1. \A w \in Word : Kept(w)' => Driven(w)
    BY DEF Kept, Driven
  <2>2. \A n \in DOMAIN r.steering : CallIs(r.steering[n]) /\ r.steering[n].word \in Word
    BY SteeringIs
  <2>3. proc'.state = "up" /\ ~r'.cancelled => proc.state = "up" /\ ~r.cancelled
    BY DEF SameProc
  <2> QED
    BY <1>1, <2>1, <2>2, <2>3, ChargeKept
<1>7. CodexWords'
  <2>1. (Fine' <=> Fine) /\ (Ending' <=> Ending)
    BY DEF Fine, Bad, Ending, SameProc
  <2>2. \A w \in Word : Held(w) => Held(w)'
    BY DEF Held, Kept
  <2>3. Fine' /\ Ending' => Emptied'
    BY <2>1 DEF CodexWords, Emptied
  <2> QED
    BY <1>1, <2>1, <2>2, <2>3, WordsKept
<1> QED
  BY <1>2, <1>3, <1>4, <1>5, <1>6, <1>7

LEMMA CodexPrograms ==
  ASSUME ProcInv, CodexInv, CodexCli
  PROVE  ProcInv' /\ CodexInv' /\ agent' = agent
<1> USE DEF CodexInv
<1>a. /\ DOMAIN cli = {"turn", "turns", "steers", "owes", "unhooked", "interrupted"} /\ cli.turns \in Nat
      /\ cli.steers \in Seq(Steering1) /\ cli.owes \subseteq 1..cli.turns /\ cli.turn \in 0..cli.turns
      /\ \A n \in DOMAIN out : out[n].k \in {"started", "completed"} => out[n].turn \in 1..cli.turns
  BY DEF CodexTypes, CodexTurns
<1>b. cli.unhooked => r.failure \/ \E n \in DOMAIN out : out[n].k = "tool"
  BY DEF CodexStops
<1>c. /\ \A n \in DOMAIN cli.steers : CallIs(cli.steers[n])
      /\ proc.state = "up" /\ ~r.cancelled => \A n \in DOMAIN cli.steers : word[cli.steers[n].word] # "refused"
      /\ \A n \in DOMAIN out : out[n].k = "userMessage" => out[n].id \in DOMAIN r.calls /\ r.calls[out[n].id].word \in read
  BY DEF CodexCalls, CodexCharge
<1>d. pipe \in Seq(CodexIn) /\ SteersFrom(pipe, pipe) /\ out \in Seq(CodexOut)
  BY DEF CodexTypes, SteersFrom
<1>1. CASE StartsTurn
  <2>1. /\ proc.state = "up" /\ pipe # <<>> /\ Head(pipe).k = "turn/start" /\ pipe' = Tail(pipe)
        /\ cli' = [cli EXCEPT !.turn = cli.turns + 1, !.turns = @ + 1, !.owes = {cli.turns + 1}, !.interrupted = FALSE]
        /\ read' = read \cup (ToSet(Head(pipe).words) \ {Prompt})
        /\ UNCHANGED <<agent, proc, out, r, word, result>>
    BY <1>1 DEF StartsTurn, Reads
  <2>2. /\ cli'.turn = cli.turns + 1 /\ cli'.turns = cli.turns + 1 /\ cli'.owes = {cli.turns + 1}
        /\ cli'.steers = cli.steers /\ cli'.unhooked = cli.unhooked /\ DOMAIN cli' = DOMAIN cli
    BY <1>a, <2>1
  <2>3. /\ pipe' \in Seq(CodexIn) /\ SteersFrom(pipe', pipe)
        /\ Head(pipe) \in CodexIn /\ 1 \in DOMAIN pipe /\ Head(pipe) = pipe[1]
        /\ StartLines' = {}
        /\ \A w : Started1(w)' => Started1(w)
        /\ \A w : Started1(w) => Started1(w)' \/ w \in ToSet(Head(pipe).words)
    BY <2>1, PipeTaken
  <2>4. Head(pipe).words \in Seq(Text) /\ ToSet(Head(pipe).words) \subseteq Text
    <3>1. Head(pipe).words \in Seq(Text)
      BY <2>1, <2>3 DEF CodexIn
    <3> QED
      BY <3>1, ElementOfSeq DEF ToSet
  <2>5. read' \subseteq Word /\ read \subseteq read'
    BY <2>1, <2>4 DEF ProcInv, Text
  <2>6. ProcInv'
    BY <2>1, <2>5, ProcKept DEF ProcInv
  <2>7. /\ cli'.turns \in Nat /\ cli'.turns >= cli.turns /\ cli'.turn \in 0..cli'.turns
        /\ cli'.owes \subseteq 1..cli'.turns
        /\ \A n \in DOMAIN out' : out'[n].k \in {"started", "completed"} => out'[n].turn \in 1..cli'.turns
    BY <1>a, <2>1, <2>2
  <2>8. CodexStarts'
    <3>1. 1 \in StartLines
      BY <2>1, <2>3 DEF StartLines, Marked
    <3>2. StartedLines = {} /\ r.started = 0 /\ (r.pc = "starting" \/ Ending)
      BY <3>1 DEF CodexStarts
    <3>3. StartedLines' = StartedLines /\ Ending' = Ending
      BY <2>1 DEF StartedLines, Ending
    <3> QED
      BY <2>1, <2>3, <3>2, <3>3 DEF CodexStarts
  <2>9. \A w \in Word : (Started1(w)' => Started1(w)) /\ (Started1(w) => Started1(w)' \/ w \in read')
    BY <2>1, <2>3, AgentRunAssumption
  <2>10. SameProc
    BY <2>1 DEF SameProc
  <2>11. CodexInv'
    <3> HIDE DEF CodexInv
    <3> QED
      BY <1>a, <1>b, <1>c, <1>d, <2>1, <2>2, <2>3, <2>5, <2>7, <2>8, <2>9, <2>10, ProgramKept
  <2> QED
    BY <2>1, <2>6, <2>11
<1>2. CASE AnswersStart
  <2>1. PICK t \in cli.owes : Emits([k |-> "started", turn |-> t])
    BY <1>2 DEF AnswersStart
  <2>2. /\ proc.state = "up" /\ cli' = [cli EXCEPT !.owes = {}]
        /\ UNCHANGED <<agent, proc, pipe, r, word, read, result>>
    BY <1>2 DEF AnswersStart
  <2>3. /\ cli'.turn = cli.turn /\ cli'.turns = cli.turns /\ cli'.owes = {}
        /\ cli'.steers = cli.steers /\ cli'.unhooked = cli.unhooked /\ DOMAIN cli' = DOMAIN cli
    BY <1>a, <2>2
  <2> DEFINE line == [k |-> "started", turn |-> t]
  <2>4. line \in CodexOut /\ line.k = "started" /\ line.turn \in 1..cli.turns
    BY <1>a DEF CodexOut
  <2> HIDE DEF line
  <2>5. /\ out' \in Seq(CodexOut)
        /\ \A n \in DOMAIN out : n \in DOMAIN out' /\ out'[n] = out[n]
        /\ \A n \in DOMAIN out' : (n \in DOMAIN out /\ out'[n] = out[n]) \/ out'[n] = line
        /\ StartedLines' = StartedLines \cup {Len(out) + 1}
    BY <2>1, <2>4, OutTold DEF line
  <2>6. ProcInv'
    BY <2>2, ProcKept DEF ProcInv
  <2>7. /\ \A n \in DOMAIN out' : out'[n].k \in {"started", "completed"} => out'[n].turn \in 1..cli'.turns
        /\ \A n \in DOMAIN out' : out'[n].k = "userMessage" =>
             out'[n].id \in DOMAIN r.calls /\ r.calls[out'[n].id].word \in read'
        /\ cli'.unhooked => r.failure \/ \E n \in DOMAIN out' : out'[n].k = "tool"
    BY <1>a, <1>b, <1>c, <2>2, <2>3, <2>4, <2>5
  <2>8. CodexStarts'
    <3>1. cli.owes # {}
      OBVIOUS
    <3>2. StartedLines = {} /\ r.started = 0 /\ StartLines = {} /\ (r.pc = "starting" \/ Ending)
      BY <3>1 DEF CodexStarts
    <3>3. StartLines' = StartLines /\ Ending' = Ending
      BY <2>2 DEF StartLines, Ending
    <3> QED
      BY <2>2, <2>3, <2>5, <3>2, <3>3 DEF CodexStarts
  <2>9. (\A w \in Word : Started1(w)' <=> Started1(w)) /\ StartLines' = StartLines
    BY <2>2 DEF Started1, StartLines
  <2>10. SameProc
    BY <2>2 DEF SameProc
  <2>11. cli'.turns >= cli.turns /\ cli'.owes \subseteq 1..cli'.turns
    BY <1>a, <2>3
  <2>12. CodexInv'
    <3> HIDE DEF CodexInv
    <3> QED
      BY <1>a, <1>c, <1>d, <2>2, <2>3, <2>5, <2>7, <2>8, <2>9, <2>10, <2>11, ProgramKept
  <2> QED
    BY <2>2, <2>6, <2>12
<1>3. CASE TakesSteer
  <2> DEFINE c == Head(pipe)
  <2>1. PICK ok \in {c.turn = cli.turn /\ ~cli.interrupted, FALSE} :
          /\ Emits([k |-> "steered", id |-> c.id, ok |-> ok])
          /\ cli' = IF ok THEN [cli EXCEPT !.steers = Append(@, [id |-> c.id, word |-> c.word])] ELSE cli
    BY <1>3 DEF TakesSteer
  <2>2. /\ proc.state = "up" /\ pipe # <<>> /\ Head(pipe).k = "turn/steer" /\ pipe' = Tail(pipe)
        /\ UNCHANGED <<agent, proc, r, word, read, result>>
    BY <1>3 DEF TakesSteer, Reads
  <2>3. /\ pipe' \in Seq(CodexIn) /\ SteersFrom(pipe', pipe)
        /\ Head(pipe) \in CodexIn /\ 1 \in DOMAIN pipe /\ Head(pipe) = pipe[1]
        /\ \A m, n \in StartLines' : m = n
        /\ StartLines = {} => StartLines' = {}
        /\ \A w : Started1(w)' => Started1(w)
        /\ \A w : Started1(w) => Started1(w)'
    BY <2>2, PipeTaken
  <2>4. c.id \in Nat /\ c.word \in Word /\ CallIs(c) /\ (proc.state = "up" /\ ~r.cancelled => word[c.word] # "refused")
    <3>1. c.id \in Nat /\ c.word \in Word
      BY <2>2, <2>3 DEF CodexIn
    <3> QED
      BY <2>2, <2>3, <3>1 DEF CodexCalls, CodexCharge
  <2>5. ok \in BOOLEAN
    BY <2>1
  <2> DEFINE line == [k |-> "steered", id |-> c.id, ok |-> ok]
             e == [id |-> c.id, word |-> c.word]
  <2> HIDE DEF c
  <2>6. line \in CodexOut /\ line.k = "steered" /\ e \in Steering1 /\ e.id = c.id /\ e.word = c.word
    BY <2>4, <2>5 DEF CodexOut, Steering1
  <2> HIDE DEF line, e
  <2>7. /\ out' \in Seq(CodexOut)
        /\ \A n \in DOMAIN out : n \in DOMAIN out' /\ out'[n] = out[n]
        /\ \A n \in DOMAIN out' : (n \in DOMAIN out /\ out'[n] = out[n]) \/ out'[n] = line
        /\ StartedLines' = StartedLines
    BY <2>1, <2>6, OutTold DEF line
  <2>8. /\ cli'.turn = cli.turn /\ cli'.turns = cli.turns /\ cli'.owes = cli.owes
        /\ cli'.unhooked = cli.unhooked /\ DOMAIN cli' = DOMAIN cli
        /\ cli'.steers = cli.steers \/ cli'.steers = Append(cli.steers, e)
    BY <1>a, <2>1 DEF e
  <2>9. /\ cli'.steers \in Seq(Steering1)
        /\ \A n \in DOMAIN cli'.steers : cli'.steers[n] = e \/ \E m \in DOMAIN cli.steers : cli'.steers[n] = cli.steers[m]
    <3>1. CASE cli'.steers = cli.steers
      BY <1>a, <3>1
    <3>2. CASE cli'.steers = Append(cli.steers, e)
      <4>1. /\ cli'.steers \in Seq(Steering1)
            /\ \A n \in DOMAIN cli.steers : cli'.steers[n] = cli.steers[n]
            /\ \A n \in DOMAIN cli'.steers : n \in DOMAIN cli.steers \/ n = Len(cli.steers) + 1
            /\ cli'.steers[Len(cli.steers) + 1] = e
        BY <1>a, <2>6, <3>2, Appended
      <4> QED
        BY <4>1
    <3> QED
      BY <2>8, <3>1, <3>2
  <2>10. /\ \A n \in DOMAIN cli'.steers : CallIs(cli'.steers[n])
         /\ proc.state = "up" /\ ~r.cancelled => \A n \in DOMAIN cli'.steers : word[cli'.steers[n].word] # "refused"
    BY <1>c, <2>4, <2>6, <2>9 DEF CallIs
  <2>11. ProcInv'
    BY <2>2, ProcKept DEF ProcInv
  <2>12. /\ \A n \in DOMAIN out' : out'[n].k \in {"started", "completed"} => out'[n].turn \in 1..cli'.turns
         /\ \A n \in DOMAIN out' : out'[n].k = "userMessage" =>
             out'[n].id \in DOMAIN r.calls /\ r.calls[out'[n].id].word \in read'
         /\ cli'.unhooked => r.failure \/ \E n \in DOMAIN out' : out'[n].k = "tool"
    BY <1>a, <1>b, <1>c, <2>2, <2>6, <2>7, <2>8
  <2>13. CodexStarts'
    <3>1. Ending' = Ending
      BY <2>2 DEF Ending
    <3>2. \A m, n \in StartedLines : m = n
      BY DEF CodexStarts
    <3> QED
      BY <2>2, <2>3, <2>7, <2>8, <3>1, <3>2, StartsKept
  <2>14. SameProc
    BY <2>2 DEF SameProc
  <2>15. cli'.turns \in Nat /\ cli'.turns >= cli.turns /\ cli'.owes \subseteq 1..cli'.turns /\ cli'.turn \in 0..cli'.turns
    BY <1>a, <2>8
  <2>16. CodexInv'
    <3>1. \A w \in Word : (Started1(w)' => Started1(w)) /\ (Started1(w) => Started1(w)' \/ w \in read')
      BY <2>3
    <3>2. UNCHANGED <<r, word, result>> /\ read \subseteq read' /\ DOMAIN cli' = DOMAIN cli
      BY <2>2, <2>8
    <3>3. pipe' \in Seq(CodexIn) /\ SteersFrom(pipe', pipe) /\ (StartLines = {} => StartLines' = {})
      BY <2>3
    <3>4. cli'.steers \in Seq(Steering1) /\ out' \in Seq(CodexOut)
      BY <2>7, <2>9
    <3> HIDE DEF CodexInv
    <3> QED
      BY <2>10, <2>12, <2>13, <2>14, <2>15, <3>1, <3>2, <3>3, <3>4, ProgramKept
  <2> QED
    BY <2>2, <2>11, <2>16
<1>4. CASE Interrupts
  <2>1. /\ proc.state = "up" /\ pipe # <<>> /\ Head(pipe).k = "turn/interrupt" /\ pipe' = Tail(pipe)
        /\ cli' = [cli EXCEPT !.interrupted = TRUE]
        /\ UNCHANGED <<agent, proc, out, r, word, read, result>>
    BY <1>4 DEF Interrupts, Reads
  <2>2. /\ cli'.turn = cli.turn /\ cli'.turns = cli.turns /\ cli'.owes = cli.owes
        /\ cli'.steers = cli.steers /\ cli'.unhooked = cli.unhooked /\ DOMAIN cli' = DOMAIN cli
    BY <1>a, <2>1
  <2>3. /\ pipe' \in Seq(CodexIn) /\ SteersFrom(pipe', pipe)
        /\ \A m, n \in StartLines' : m = n
        /\ StartLines = {} => StartLines' = {}
        /\ \A w : Started1(w)' => Started1(w)
        /\ \A w : Started1(w) => Started1(w)'
    BY <2>1, PipeTaken
  <2>4. ProcInv'
    BY <2>1, ProcKept DEF ProcInv
  <2>5. CodexStarts'
    <3>1. Ending' = Ending /\ StartedLines' = StartedLines
      BY <2>1 DEF Ending, StartedLines
    <3>2. \A m, n \in StartedLines : m = n
      BY DEF CodexStarts
    <3> QED
      BY <2>1, <2>2, <2>3, <3>1, <3>2, StartsKept
  <2>6. SameProc
    BY <2>1 DEF SameProc
  <2>7. cli'.turns >= cli.turns
    BY <1>a, <2>2
  <2>8. CodexInv'
    <3> HIDE DEF CodexInv
    <3> QED
      BY <1>a, <1>b, <1>c, <1>d, <2>1, <2>2, <2>3, <2>5, <2>6, <2>7, ProgramKept
  <2> QED
    BY <2>1, <2>4, <2>8
<1>5. CASE TakesIn
  <2> DEFINE h == Head(cli.steers)
             line == [k |-> "userMessage", id |-> h.id]
  <2>1. /\ proc.state = "up" /\ cli.steers # <<>> /\ Emits(line) /\ read' = read \cup {h.word}
        /\ cli' = [cli EXCEPT !.steers = Tail(@)]
        /\ UNCHANGED <<agent, proc, pipe, r, word, result>>
    BY <1>5 DEF TakesIn
  <2>2. /\ cli'.turn = cli.turn /\ cli'.turns = cli.turns /\ cli'.owes = cli.owes
        /\ cli'.steers = Tail(cli.steers) /\ cli'.unhooked = cli.unhooked /\ DOMAIN cli' = DOMAIN cli
    BY <1>a, <2>1
  <2>3. /\ cli'.steers \in Seq(Steering1)
        /\ \A n \in DOMAIN cli'.steers : n + 1 \in DOMAIN cli.steers /\ cli'.steers[n] = cli.steers[n + 1]
        /\ 1 \in DOMAIN cli.steers /\ h = cli.steers[1] /\ h \in Steering1
    BY <1>a, <2>1, <2>2, Behead
  <2>4. h.id \in Nat /\ h.word \in Word /\ CallIs(h)
    BY <1>c, <2>3 DEF Steering1
  <2> HIDE DEF h
  <2>5. line \in CodexOut /\ line.k = "userMessage" /\ line.id = h.id
    BY <2>4 DEF CodexOut
  <2> HIDE DEF line
  <2>6. /\ out' \in Seq(CodexOut)
        /\ \A n \in DOMAIN out : n \in DOMAIN out' /\ out'[n] = out[n]
        /\ \A n \in DOMAIN out' : (n \in DOMAIN out /\ out'[n] = out[n]) \/ out'[n] = line
        /\ StartedLines' = StartedLines
    BY <2>1, <2>5, OutTold
  <2>7. read' \subseteq Word /\ read \subseteq read'
    BY <2>1, <2>4 DEF ProcInv
  <2>8. ProcInv'
    BY <2>1, <2>7, ProcKept DEF ProcInv
  <2>9. /\ \A n \in DOMAIN cli'.steers : CallIs(cli'.steers[n])
        /\ proc.state = "up" /\ ~r.cancelled => \A n \in DOMAIN cli'.steers : word[cli'.steers[n].word] # "refused"
    BY <1>c, <2>3
  <2>10. /\ \A n \in DOMAIN out' : out'[n].k \in {"started", "completed"} => out'[n].turn \in 1..cli'.turns
         /\ cli'.unhooked => r.failure \/ \E n \in DOMAIN out' : out'[n].k = "tool"
    BY <1>a, <1>b, <2>2, <2>5, <2>6
  <2>11. \A n \in DOMAIN out' : out'[n].k = "userMessage" =>
             out'[n].id \in DOMAIN r.calls /\ r.calls[out'[n].id].word \in read'
    BY <1>c, <2>1, <2>4, <2>5, <2>6 DEF CallIs
  <2>12. (\A w \in Word : Started1(w)' <=> Started1(w)) /\ StartLines' = StartLines /\ Ending' = Ending
    BY <2>1 DEF Started1, StartLines, Ending
  <2>13. CodexStarts'
    <3>1. (\A m, n \in StartedLines : m = n) /\ \A m, n \in StartLines : m = n
      BY DEF CodexStarts
    <3> QED
      BY <2>1, <2>2, <2>6, <2>12, <3>1, StartsKept
  <2>14. SameProc
    BY <2>1 DEF SameProc
  <2>15. cli'.turns >= cli.turns
    BY <1>a, <2>2
  <2>16. CodexInv'
    <3> HIDE DEF CodexInv
    <3> QED
      BY <1>a, <1>d, <2>1, <2>2, <2>3, <2>6, <2>7, <2>9, <2>10, <2>11, <2>12, <2>13, <2>14, <2>15, ProgramKept
  <2> QED
    BY <2>1, <2>8, <2>16
<1>6. CASE RunsTool \/ CompletesTurn
  <2>1. PICK line \in CodexOut :
          /\ proc.state = "up" /\ Emits(line) /\ line.k \notin {"started", "userMessage"}
          /\ line.k = "completed" => line.turn \in 1..cli.turns
          /\ UNCHANGED <<agent, proc, pipe, r, word, read, result>>
          /\ cli'.turn \in {cli.turn, 0} /\ cli'.turns = cli.turns /\ cli'.owes = cli.owes
          /\ cli'.steers \in {cli.steers, <<>>} /\ DOMAIN cli' = DOMAIN cli
          /\ cli'.unhooked => cli.unhooked \/ line.k = "tool"
    <3>1. CASE RunsTool
      <4>1. Line("tool") \in CodexOut /\ Line("tool").k = "tool"
        BY DEF CodexOut, Line
      <4> QED
        BY <1>a, <3>1, <4>1 DEF RunsTool
    <3>2. CASE CompletesTurn
      <4>1. PICK st \in {"completed", "failed", "interrupted"} :
              Emits([k |-> "completed", turn |-> cli.turn, status |-> st])
        BY <3>2 DEF CompletesTurn
      <4>2. cli.turn \in 1..cli.turns /\ cli.turn \in Nat
        BY <1>a, <3>2 DEF CompletesTurn
      <4>3. [k |-> "completed", turn |-> cli.turn, status |-> st] \in CodexOut
        BY <4>2 DEF CodexOut
      <4> QED
        BY <1>a, <3>2, <4>1, <4>2, <4>3 DEF CompletesTurn
    <3> QED
      BY <1>6, <3>1, <3>2
  <2>2. /\ out' \in Seq(CodexOut)
        /\ \A n \in DOMAIN out : n \in DOMAIN out' /\ out'[n] = out[n]
        /\ \A n \in DOMAIN out' : (n \in DOMAIN out /\ out'[n] = out[n]) \/ out'[n] = line
        /\ \E n \in DOMAIN out' : out'[n] = line
        /\ StartedLines' = StartedLines
    BY <2>1, OutTold
  <2>3. ProcInv'
    BY <2>1, ProcKept DEF ProcInv
  <2>4. cli'.steers \in Seq(Steering1) /\ \A n \in DOMAIN cli'.steers : n \in DOMAIN cli.steers /\ cli'.steers[n] = cli.steers[n]
    <3>1. <<>> \in Seq(Steering1) /\ DOMAIN <<>> = {}
      BY EmptySeq
    <3> QED
      BY <1>a, <2>1, <3>1
  <2>5. /\ \A n \in DOMAIN cli'.steers : CallIs(cli'.steers[n])
        /\ proc.state = "up" /\ ~r.cancelled => \A n \in DOMAIN cli'.steers : word[cli'.steers[n].word] # "refused"
    BY <1>c, <2>4
  <2>6. /\ \A n \in DOMAIN out' : out'[n].k \in {"started", "completed"} => out'[n].turn \in 1..cli'.turns
        /\ \A n \in DOMAIN out' : out'[n].k = "userMessage" =>
             out'[n].id \in DOMAIN r.calls /\ r.calls[out'[n].id].word \in read'
        /\ cli'.unhooked => r.failure \/ \E n \in DOMAIN out' : out'[n].k = "tool"
    BY <1>a, <1>b, <1>c, <2>1, <2>2
  <2>7. (\A w \in Word : Started1(w)' <=> Started1(w)) /\ StartLines' = StartLines /\ Ending' = Ending
    BY <2>1 DEF Started1, StartLines, Ending
  <2>8. CodexStarts'
    <3>1. (\A m, n \in StartedLines : m = n) /\ \A m, n \in StartLines : m = n
      BY DEF CodexStarts
    <3> QED
      BY <2>1, <2>2, <2>7, <3>1, StartsKept
  <2>9. SameProc
    BY <2>1 DEF SameProc
  <2>10. cli'.turns >= cli.turns /\ cli'.turn \in 0..cli'.turns
    BY <1>a, <2>1
  <2>11. CodexInv'
    <3> HIDE DEF CodexInv
    <3> QED
      BY <1>a, <1>d, <2>1, <2>2, <2>4, <2>5, <2>6, <2>7, <2>8, <2>9, <2>10, ProgramKept
  <2> QED
    BY <2>1, <2>3, <2>11
<1>7. CASE Exits(cli.turn = 0 /\ cli.owes = {})
  <2>1. /\ ProcInv' /\ proc'.state # "up" /\ proc.state = "up"
        /\ agent' = agent /\ UNCHANGED <<pipe, out, cli, r, word, read, result>>
        /\ proc'.doomed = proc.doomed /\ proc'.crashed = proc.crashed /\ proc'.timedOut = proc.timedOut
        /\ proc'.stdin = proc.stdin
    BY <1>7, ProgramExits
  <2>2. SameProc
    BY <2>1 DEF SameProc
  <2>3. (\A w \in Word : Started1(w)' <=> Started1(w)) /\ StartLines' = StartLines /\ Ending' = Ending /\ StartedLines' = StartedLines
    BY <2>1 DEF Started1, StartLines, Ending, StartedLines
  <2>4. CodexStarts'
    BY <2>1, <2>3 DEF CodexStarts
  <2>5. cli'.turns >= cli.turns
    BY <1>a, <2>1
  <2>6. CodexInv'
    <3> HIDE DEF CodexInv
    <3> QED
      BY <1>a, <1>b, <1>c, <1>d, <2>1, <2>2, <2>3, <2>4, <2>5, ProgramKept
  <2> QED
    BY <2>1, <2>6
<1> QED
  BY <1>1, <1>2, <1>3, <1>4, <1>5, <1>6, <1>7 DEF CodexCli

-----------------------------------------------------------------------------
(* CODEX: what its output says                                              *)

\* What a step that asks nothing of the program has to keep.
LEMMA RunKept ==
  ASSUME CodexInv, UNCHANGED <<word, read, cli>>, SameCalls, From(r'.steering, r.steering),
         \A m, n \in DOMAIN r'.steering : r'.steering[m].id = r'.steering[n].id => m = n,
         SteersFrom(pipe', pipe), From(out', out),
         CodexTypes', CodexTurns', CodexStarts', CodexStops',
         r.pc = "word" => r'.pc = "word",
         \A w \in Word : Kept(w)' => Driven(w),
         proc'.state = "up" /\ ~r'.cancelled => proc.state = "up" /\ ~r.cancelled,
         Fine' => Fine /\ \A w \in Word : Held(w) => Held(w)',
         Fine' /\ Ending' => Emptied'
  PROVE  CodexInv'
<1> USE DEF CodexInv
<1>1. CodexCalls'
  <2>1. \A n \in DOMAIN cli'.steers : CallIs(cli'.steers[n])
    BY DEF CodexCalls
  <2>2. \A n \in DOMAIN out' : out'[n].k = "userMessage" =>
           out'[n].id \in DOMAIN r.calls /\ r.calls[out'[n].id].word \in read'
    BY DEF CodexCalls, From
  <2> QED
    BY <2>1, <2>2, CallsKept
<1>2. CodexCharge'
  <2>1. proc.state = "up" /\ ~r.cancelled => \A n \in DOMAIN cli'.steers : word[cli'.steers[n].word] # "refused"
    BY DEF CodexCharge
  <2>2. \A n \in DOMAIN r.steering : CallIs(r.steering[n]) /\ r.steering[n].word \in Word
    BY SteeringIs
  <2> QED
    BY <2>1, <2>2, ChargeKept
<1>3. CodexWords'
  BY WordsKept
<1> QED
  BY <1>1, <1>2, <1>3


\* The statuses the reader keeps, with another one.
LEMMA FieldsOf ==
  ASSUME NEW f, NEW x, NEW v
  PROVE  DOMAIN Fields(f, [n \in {x} |-> v]) = DOMAIN f \cup {x}
BY DEF Fields

\* What a line that is handled has to keep.
LEMMA ReaderKept ==
  ASSUME ProcInv, CodexInv,
         out # <<>>, Handles, UNCHANGED <<agent, pipe, cli, word, read, result>>,
         proc' = proc \/ (proc' = Doomed /\ r'.failure = TRUE),
         r'.pc = r.pc /\ r'.input = r.input /\ r'.turn = r.turn /\ r'.state = r.state,
         r'.queue = r.queue /\ r'.waiting = r.waiting /\ r'.cancelled = r.cancelled /\ r'.finishing = r.finishing,
         DOMAIN r' = DOMAIN r /\ r'.failure \in BOOLEAN /\ (r.failure => r'.failure),
         Head(out).k = "tool" => r'.failure,
         DOMAIN r'.ended \subseteq 1..cli.turns,
         (r'.started = r.started /\ Head(out).k # "started") \/ (Head(out).k = "started" /\ r'.started \in 1..cli.turns),
         r'.steering \in Seq(Steering1) /\ From(r'.steering, r.steering),
         \A m, n \in DOMAIN r'.steering : r'.steering[m].id = r'.steering[n].id => m = n,
         r.steering = <<>> => r'.steering = <<>>,
         \A n \in DOMAIN r.steering : r.steering[n].word \in read \/ \E m \in DOMAIN r'.steering : r'.steering[m] = r.steering[n],
         r'.calls \in Seq(Calls) /\ SameCalls
  PROVE  CodexInv'
<1> USE DEF CodexInv
<1>a. out # <<>> /\ Handles /\ UNCHANGED <<agent, pipe, cli, word, read, result>>
  OBVIOUS
<1>d. /\ DOMAIN r = {"pc", "input", "turn", "state", "ended", "started", "token", "queue", "waiting", "steering",
                     "calls", "cancelled", "finishing", "failure"}
      /\ r.pc \in Pcs /\ r.input \in Seq(Text) /\ r.turn \in Nat /\ r.started \in Nat
      /\ r.queue \in Seq(Word) /\ r.waiting \in Seq(Word)
      /\ r.steering \in Seq(Steering1) /\ r.calls \in Seq(Calls)
      /\ r.cancelled \in BOOLEAN /\ r.finishing \in BOOLEAN /\ r.failure \in BOOLEAN
  BY DEF CodexTypes
<1>b. /\ out' \in Seq(CodexOut)
      /\ Head(out) \in CodexOut /\ 1 \in DOMAIN out /\ Head(out) = out[1]
      /\ \A n \in DOMAIN out' : \E m \in DOMAIN out : out'[n] = out[m]
      /\ \A n \in DOMAIN out : out[n] = Head(out) \/ \E m \in DOMAIN out' : out'[m] = out[n]
      /\ \A m, n \in StartedLines' : m = n
      /\ StartedLines = {} \/ Head(out).k = "started" => StartedLines' = {}
  BY OutHeard
<1>c. /\ proc'.state = proc.state /\ proc'.stdin = proc.stdin /\ proc'.timedOut = proc.timedOut
      /\ proc'.crashed = proc.crashed /\ (proc'.doomed => proc.doomed \/ r'.failure)
  BY DEF Doomed, ProcInv
<1>1. Ending' = Ending
  BY DEF Ending
<1>2. CodexTypes'
  <2>1. r'.started \in Nat
    <3>1. \A n : 1..n \subseteq Nat
      OBVIOUS
    <3> QED
      BY <1>d, <3>1
  <2> QED
    BY <1>a, <1>b, <1>d, <2>1 DEF CodexTypes
<1>3. CodexTurns'
  <2>1. r'.started \in 0..cli.turns
    <3>1. \A n : 1..n \subseteq 0..n
      OBVIOUS
    <3> QED
      BY <3>1 DEF CodexTurns
  <2>2. \A n \in DOMAIN out' : out'[n].k \in {"started", "completed"} => out'[n].turn \in 1..cli'.turns
    BY <1>a, <1>b DEF CodexTurns
  <2> QED
    BY <1>a, <1>1, <2>1, <2>2 DEF CodexTurns
<1>4. CodexStarts'
  <2>1. StartLines' = StartLines /\ cli'.owes = cli.owes
    BY <1>a DEF StartLines
  <2>2. CASE Head(out).k # "started"
    BY <1>a, <1>b, <1>1, <2>1, <2>2 DEF CodexStarts
  <2>3. CASE Head(out).k = "started"
    <3>1. 1 \in StartedLines
      BY <1>b, <2>3 DEF StartedLines, Marked
    <3>2. StartLines = {} /\ cli.owes = {} /\ (r.pc = "starting" \/ Ending)
      BY <3>1 DEF CodexStarts
    <3> QED
      BY <1>a, <1>b, <1>1, <2>1, <2>3, <3>2 DEF CodexStarts
  <2> QED
    BY <2>2, <2>3
<1>5. CodexStops'
  <2>1. result = "ok" => FALSE
    BY <1>a DEF CodexStops, ProcInv
  <2>2. cli'.unhooked => r'.failure \/ \E n \in DOMAIN out' : out'[n].k = "tool"
    <3>1. ASSUME cli.unhooked, ~r.failure
          PROVE  r'.failure \/ \E n \in DOMAIN out' : out'[n].k = "tool"
      <4>1. PICK n \in DOMAIN out : out[n].k = "tool"
        BY <3>1 DEF CodexStops
      <4> QED
        BY <1>b, <4>1
    <3> QED
      BY <1>a, <3>1
  <2> QED
    BY <1>a, <1>c, <2>1, <2>2 DEF CodexStops
<1>6. Fine' => Fine
  BY <1>c, <1>1 DEF Fine, Bad
<1>7. \A w \in Word : (Kept(w)' <=> Kept(w)) /\ (Held(w) => Held(w)')
  <2>1. \A w \in Word : Kept(w)' <=> Kept(w)
    BY <1>a DEF Kept, Started1
  <2> QED
    BY <1>a, <2>1 DEF Held
<1>8. Fine' /\ Ending' => Emptied'
  <2>1. StartLines' = StartLines
    BY <1>a DEF StartLines
  <2> QED
    BY <1>1, <1>6, <2>1 DEF CodexWords, Emptied
<1>9. SteersFrom(pipe', pipe) /\ From(out', out)
  BY <1>a, <1>b DEF SteersFrom, From
<1>10. proc'.state = "up" /\ ~r'.cancelled => proc.state = "up" /\ ~r.cancelled
  BY <1>c
<1>11. \A w \in Word : Kept(w)' => Driven(w)
  BY <1>7 DEF Driven
<1> HIDE DEF CodexInv
<1> QED
  BY <1>a, <1>2, <1>3, <1>4, <1>5, <1>6, <1>7, <1>8, <1>9, <1>10, <1>11, RunKept

LEMMA CodexReads ==
  ASSUME ProcInv, CodexInv, CodexReader
  PROVE  ProcInv' /\ CodexInv' /\ agent' = agent
<1> USE DEF CodexInv
<1>a. /\ DOMAIN r = {"pc", "input", "turn", "state", "ended", "started", "token", "queue", "waiting", "steering",
                     "calls", "cancelled", "finishing", "failure"}
      /\ r.pc \in Pcs /\ r.input \in Seq(Text) /\ r.turn \in Nat /\ r.started \in Nat
      /\ r.queue \in Seq(Word) /\ r.waiting \in Seq(Word)
      /\ r.steering \in Seq(Steering1) /\ r.calls \in Seq(Calls)
      /\ r.cancelled \in BOOLEAN /\ r.finishing \in BOOLEAN /\ r.failure \in BOOLEAN
  BY DEF CodexTypes
<1>b. \A m, n \in DOMAIN r.steering : r.steering[m].id = r.steering[n].id => m = n
  BY DEF CodexCalls
<1>1. /\ out # <<>> /\ Handles /\ UNCHANGED <<agent, pipe, cli, word, read, result>>
      /\ proc' = proc \/ (proc' = Doomed /\ r'.failure = TRUE)
  BY <1>a DEF CodexReader, OnStarted, OnSteered, OnUserMessage, OnTool, OnCompleted, Next1
<1>2. /\ out' \in Seq(CodexOut)
      /\ Head(out) \in CodexOut /\ 1 \in DOMAIN out /\ Head(out) = out[1]
      /\ \A n \in DOMAIN out' : \E m \in DOMAIN out : out'[n] = out[m]
      /\ \A n \in DOMAIN out : out[n] = Head(out) \/ \E m \in DOMAIN out' : out'[m] = out[n]
      /\ \A m, n \in StartedLines' : m = n
      /\ StartedLines = {} \/ Head(out).k = "started" => StartedLines' = {}
  BY <1>1, OutHeard
<1>3. ProcInv'
  BY <1>1, ProcKept DEF ProcInv
<1>4. /\ proc'.state = proc.state /\ proc'.stdin = proc.stdin /\ proc'.timedOut = proc.timedOut
      /\ proc'.crashed = proc.crashed /\ (proc'.doomed => proc.doomed \/ r'.failure)
  BY <1>1 DEF Doomed, ProcInv
<1>6. CASE OnStarted
  <2>1. Head(out).k = "started" /\ r' = [r EXCEPT !.started = Head(out).turn]
    BY <1>6 DEF OnStarted, Next1
  <2>2. Head(out).turn \in 1..cli.turns
    BY <1>2, <2>1 DEF CodexTurns
  <2>3. DOMAIN r.ended \subseteq 1..cli.turns
    BY DEF CodexTurns
  <2> HIDE DEF CodexInv
  <2> QED
    BY <1>1, <1>3, <1>a, <1>b, <2>1, <2>2, <2>3, ReaderKept DEF SameCalls, From
<1>7. CASE OnSteered
  <2> DEFINE calls == [n \in DOMAIN r.calls |->
               IF n = Head(out).id /\ r.calls[n].at = "sent"
               THEN [r.calls[n] EXCEPT !.at = IF Head(out).ok THEN "ok" ELSE "error"] ELSE r.calls[n]]
  <2>1. Head(out).k = "steered" /\ r' = [r EXCEPT !.calls = calls]
    BY <1>7 DEF OnSteered, Next1
  <2>2. DOMAIN r.calls = 1..Len(r.calls) /\ Len(r.calls) \in Nat
    BY <1>a, LenProperties
  <2>3. \A n \in DOMAIN r.calls : r.calls[n] \in Calls
    BY <1>a, ElementOfSeq
  <2>4. \A n \in DOMAIN r.calls :
          /\ calls[n] \in Calls /\ calls[n].word = r.calls[n].word /\ calls[n].from = r.calls[n].from
          /\ calls[n].at # "over" => r.calls[n].at # "over"
    BY <2>3 DEF Calls
  <2>5. DOMAIN calls = DOMAIN r.calls /\ calls = [n \in 1..Len(r.calls) |-> calls[n]]
    BY <2>2
  <2> HIDE DEF calls
  <2>6. calls \in Seq(Calls)
    BY <2>2, <2>4, <2>5, IsASeq
  <2>7. DOMAIN r.ended \subseteq 1..cli.turns
    BY DEF CodexTurns
  <2>8. r'.calls = calls
    BY <1>a, <2>1
  <2>9. SameCalls
    BY <2>4, <2>5, <2>8 DEF SameCalls
  <2> HIDE DEF CodexInv
  <2> QED
    BY <1>1, <1>3, <1>a, <1>b, <2>1, <2>6, <2>7, <2>8, <2>9, ReaderKept DEF From
<1>8. CASE OnUserMessage
  <2>1. Head(out).k = "userMessage" /\ r' = [r EXCEPT !.steering = Without(Head(out).id)]
    BY <1>8 DEF OnUserMessage, Next1
  <2>a. PICK id : id = Head(out).id
    OBVIOUS
  <2>2. /\ Without(id) \in Seq(Steering1) /\ From(Without(id), r.steering)
        /\ \A m, n \in DOMAIN Without(id) : Without(id)[m].id = Without(id)[n].id => m = n
        /\ \A n \in DOMAIN r.steering : r.steering[n].id = id \/ \E m \in DOMAIN Without(id) : Without(id)[m] = r.steering[n]
        /\ r.steering = <<>> => Without(id) = <<>>
    <3>1. r.steering \in Seq(Steering1)
      BY <1>a
    <3> HIDE DEF CodexInv
    <3> QED
      BY <3>1, <1>b, WithoutLeaves, Zenon
  <2>3. \A n \in DOMAIN r.steering : r.steering[n].id = id => r.steering[n].word \in read
    <3>1. id \in DOMAIN r.calls /\ r.calls[id].word \in read
      BY <1>2, <2>1, <2>a DEF CodexCalls
    <3> QED
      BY <3>1 DEF CodexCalls, CallIs
  <2>4. DOMAIN r.ended \subseteq 1..cli.turns
    BY DEF CodexTurns
  <2>b. PICK steering : steering = Without(id)
    OBVIOUS
  <2>5. r' = [r EXCEPT !.steering = steering] /\ r'.steering = steering
    BY <1>a, <2>1, <2>a, <2>b
  <2>c. /\ r'.pc = r.pc /\ r'.input = r.input /\ r'.turn = r.turn /\ r'.state = r.state
        /\ r'.queue = r.queue /\ r'.waiting = r.waiting /\ r'.cancelled = r.cancelled /\ r'.finishing = r.finishing
        /\ r'.failure = r.failure /\ r'.ended = r.ended /\ r'.started = r.started /\ r'.calls = r.calls
        /\ DOMAIN r' = DOMAIN r
    BY <1>a, <2>5
  <2>6. SameCalls
    BY <2>c DEF SameCalls
  <2>7. \A n \in DOMAIN r.steering : r.steering[n].word \in read \/ \E m \in DOMAIN r'.steering : r'.steering[m] = r.steering[n]
    BY <2>2, <2>3, <2>5, <2>b
  <2>8. /\ r'.steering \in Seq(Steering1) /\ From(r'.steering, r.steering)
        /\ \A m, n \in DOMAIN r'.steering : r'.steering[m].id = r'.steering[n].id => m = n
        /\ r.steering = <<>> => r'.steering = <<>>
    BY <2>2, <2>5, <2>b
  <2> HIDE DEF CodexInv
  <2> QED
    BY <1>1, <1>3, <1>a, <2>1, <2>4, <2>6, <2>7, <2>8, <2>c, ReaderKept
<1>9. CASE OnTool
  <2>1. Head(out).k = "tool" /\ r' = [r EXCEPT !.failure = TRUE]
    BY <1>9 DEF OnTool, Next1
  <2>2. DOMAIN r.ended \subseteq 1..cli.turns
    BY DEF CodexTurns
  <2> HIDE DEF CodexInv
  <2> QED
    BY <1>1, <1>3, <1>a, <1>b, <2>1, <2>2, ReaderKept DEF SameCalls, From
<1>10. CASE OnCompleted
  <2> DEFINE ended == Fields(r.ended, [n \in {Head(out).turn} |-> Head(out).status])
  <2>1. /\ Head(out).k = "completed"
        /\ \E token : r' = [r EXCEPT !.ended = ended, !.failure = @ \/ Head(out).status = "failed", !.token = token]
    BY <1>10 DEF OnCompleted, Next1
  <2>2. Head(out).turn \in 1..cli.turns
    BY <1>2, <2>1 DEF CodexTurns
  <2>3. DOMAIN ended \subseteq 1..cli.turns
    <3>1. DOMAIN ended = DOMAIN r.ended \cup {Head(out).turn}
      BY DEF Fields
    <3>2. DOMAIN r.ended \subseteq 1..cli.turns
      BY DEF CodexTurns
    <3> HIDE DEF ended
    <3> QED
      BY <2>2, <3>1, <3>2
  <2> HIDE DEF ended
  <2>4. r'.ended = ended /\ r'.failure = (r.failure \/ Head(out).status = "failed")
    BY <1>a, <2>1
  <2>5. PICK token : r' = [r EXCEPT !.ended = ended, !.failure = r'.failure, !.token = token]
    BY <1>a, <2>1, <2>4
  <2>6. /\ r'.pc = r.pc /\ r'.input = r.input /\ r'.turn = r.turn /\ r'.state = r.state
        /\ r'.queue = r.queue /\ r'.waiting = r.waiting /\ r'.cancelled = r.cancelled /\ r'.finishing = r.finishing
        /\ r'.steering = r.steering /\ r'.started = r.started /\ r'.calls = r.calls
        /\ DOMAIN r' = DOMAIN r
    BY <1>a, <2>5
  <2>7. SameCalls
    BY <2>6 DEF SameCalls
  <2>8. /\ r'.failure \in BOOLEAN /\ (r.failure => r'.failure)
        /\ Head(out).k # "tool" /\ Head(out).k # "started"
    BY <1>b, <2>1, <2>4
  <2>9. From(r'.steering, r.steering)
    BY <2>6 DEF From
  <2> HIDE DEF CodexInv
  <2> QED
    BY <1>1, <1>3, <1>a, <1>b, <2>3, <2>4, <2>6, <2>7, <2>8, <2>9, ReaderKept
<1> QED
  BY <1>6, <1>7, <1>8, <1>9, <1>10 DEF CodexReader

-----------------------------------------------------------------------------
(* CODEX: its driver                                                        *)

\* What a step that calls nothing and steers nothing has to keep.
LEMMA DriverKept ==
  ASSUME CodexInv, UNCHANGED <<word, read, cli, out>>,
         pipe' \in Seq(CodexIn), SteersFrom(pipe', pipe),
         DOMAIN r' = DOMAIN r, r'.calls = r.calls, r'.steering = r.steering,
         r'.pc \in Pcs, r'.input \in Seq(Text), r'.turn \in Nat, r'.started \in Nat,
         r'.queue \in Seq(Word), r'.waiting \in Seq(Word),
         r'.cancelled \in BOOLEAN, r'.finishing \in BOOLEAN, r'.failure \in BOOLEAN,
         CodexTurns', CodexStarts', CodexStops',
         r.pc = "word" => r'.pc = "word",
         \A w \in Word : Kept(w)' => Driven(w),
         proc'.state = "up" /\ ~r'.cancelled => proc.state = "up" /\ ~r.cancelled,
         Fine' => Fine /\ \A w \in Word : Held(w) => Held(w)',
         Fine' /\ Ending' => Emptied'
  PROVE  CodexInv'
<1>1. SameCalls /\ From(r'.steering, r.steering) /\ From(out', out)
  BY DEF SameCalls, From
<1>2. \A m, n \in DOMAIN r'.steering : r'.steering[m].id = r'.steering[n].id => m = n
  BY DEF CodexInv, CodexCalls
<1>3. CodexTypes'
  BY DEF CodexInv, CodexTypes
<1> QED
  BY <1>1, <1>2, <1>3, RunKept

LEMMA SameLines ==
  ASSUME CodexTypes
  PROVE  /\ pipe' = pipe => pipe' \in Seq(CodexIn) /\ SteersFrom(pipe', pipe) /\ StartLines' = StartLines
                            /\ \A w : Started1(w)' <=> Started1(w)
         /\ out' = out => StartedLines' = StartedLines
BY DEF CodexTypes, SteersFrom, StartLines, StartedLines, Started1

LEMMA WordsAreText ==
  ASSUME NEW s \in Seq(Word)
  PROVE  s \in Seq(Text) /\ ToSet(s) \subseteq Word
<1>1. Len(s) \in Nat /\ DOMAIN s = 1..Len(s) /\ \A n \in 1..Len(s) : s[n] \in Word
  BY LenProperties, ElementOfSeq
<1>2. s = [n \in 1..Len(s) |-> s[n]] /\ \A n \in 1..Len(s) : s[n] \in Text
  BY <1>1 DEF Text
<1> QED
  BY <1>1, <1>2, IsASeq DEF ToSet

LEMMA CodexOpens ==
  ASSUME ProcInv, CodexInv, Opens
  PROVE  ProcInv' /\ CodexInv' /\ agent' = agent
<1>a. /\ DOMAIN r = {"pc", "input", "turn", "state", "ended", "started", "token", "queue", "waiting", "steering",
                     "calls", "cancelled", "finishing", "failure"}
      /\ r.pc \in Pcs /\ r.input \in Seq(Text) /\ r.turn \in Nat /\ r.started \in Nat
      /\ r.queue \in Seq(Word) /\ r.waiting \in Seq(Word)
      /\ r.steering \in Seq(Steering1) /\ r.calls \in Seq(Calls)
      /\ r.cancelled \in BOOLEAN /\ r.finishing \in BOOLEAN /\ r.failure \in BOOLEAN
  BY DEF CodexInv, CodexTypes
<1>1. /\ UNCHANGED <<agent, proc, pipe, out, cli, word, read, result>> /\ r.pc = "open"
      /\ \E pc \in {"start", "finish"}, failure \in BOOLEAN :
           r' = [r EXCEPT !.pc = pc, !.failure = failure] /\ (r.failure => failure)
  <2>1. CASE CanWrite /\ To("start")
    <3>1. r' = [r EXCEPT !.pc = "start", !.failure = r.failure]
      BY <1>a, <2>1 DEF To
    <3> QED
      BY <1>a, <3>1 DEF Opens
  <2>2. CASE \E said \in BOOLEAN : Fails(said)
    <3>1. PICK said \in BOOLEAN : r' = [r EXCEPT !.pc = "finish", !.failure = r.failure \/ said]
      BY <1>a, <2>2 DEF Fails
    <3> QED
      BY <1>a, <3>1 DEF Opens
  <2> QED
    BY <2>1, <2>2 DEF Opens
<1>2. PICK pc \in {"start", "finish"}, failure \in BOOLEAN :
        r' = [r EXCEPT !.pc = pc, !.failure = failure] /\ (r.failure => failure)
  BY <1>1
<1>3. /\ DOMAIN r' = DOMAIN r /\ r'.pc = pc /\ r'.failure = failure
      /\ r'.input = r.input /\ r'.turn = r.turn /\ r'.state = r.state /\ r'.ended = r.ended /\ r'.started = r.started
      /\ r'.queue = r.queue /\ r'.waiting = r.waiting /\ r'.steering = r.steering /\ r'.calls = r.calls
      /\ r'.cancelled = r.cancelled /\ r'.finishing = r.finishing
  BY <1>a, <1>2
<1>4. r'.pc \in Pcs
  BY <1>3 DEF Pcs
<1>5. /\ pipe' \in Seq(CodexIn) /\ SteersFrom(pipe', pipe) /\ StartLines' = StartLines
      /\ (\A w : Started1(w)' <=> Started1(w)) /\ StartedLines' = StartedLines
  BY <1>1, SameLines DEF CodexInv
<1>6. r.turn = 0 /\ r.state = "" /\ r.input = <<Prompt>> /\ r.waiting = <<>> /\ ~r.finishing /\ r.steering = <<>>
  BY <1>1 DEF CodexInv, CodexTurns, Ending
<1>7. CodexTurns'
  BY <1>1, <1>3, <1>6 DEF CodexInv, CodexTurns, Ending
<1>8. CodexStarts'
  BY <1>1, <1>3, <1>5 DEF CodexInv, CodexStarts, Ending
<1>9. CodexStops'
  BY <1>1, <1>3 DEF CodexInv, CodexStops
<1>10. \A w \in Word : (Kept(w)' => Driven(w)) /\ (Held(w) => Held(w)')
  <2>1. \A w \in Word : w \notin ToSet(r'.input)
    <3>1. \A w : w \in ToSet(<<Prompt>>) => w = Prompt
      BY DEF ToSet
    <3> QED
      BY <1>3, <1>6, <3>1, AgentRunAssumption
  <2>2. \A w \in Word : Kept(w)' <=> Kept(w)
    BY <1>1, <1>3, <1>5, <2>1 DEF Kept
  <2> QED
    BY <1>1, <1>3, <2>2 DEF Driven, Held
<1>11. Fine' => Fine /\ ~Ending'
  <2>1. Bad => Bad'
    BY <1>1, <1>2, <1>3 DEF Bad
  <2>2. ~Ending /\ r'.state # "completed"
    BY <1>1, <1>3, <1>6 DEF Ending
  <2> QED
    BY <2>1, <2>2 DEF Fine
<1>12. ProcInv'
  BY <1>1, ProcKept DEF ProcInv
<1> QED
  BY <1>1, <1>a, <1>3, <1>4, <1>5, <1>7, <1>8, <1>9, <1>10, <1>11, <1>12, DriverKept

LEMMA CodexCallsStart ==
  ASSUME ProcInv, CodexInv, CallsStart
  PROVE  ProcInv' /\ CodexInv' /\ agent' = agent
<1>a. /\ DOMAIN r = {"pc", "input", "turn", "state", "ended", "started", "token", "queue", "waiting", "steering",
                     "calls", "cancelled", "finishing", "failure"}
      /\ r.pc \in Pcs /\ r.input \in Seq(Text) /\ r.turn \in Nat /\ r.started \in Nat
      /\ r.queue \in Seq(Word) /\ r.waiting \in Seq(Word)
      /\ r.steering \in Seq(Steering1) /\ r.calls \in Seq(Calls)
      /\ r.cancelled \in BOOLEAN /\ r.finishing \in BOOLEAN /\ r.failure \in BOOLEAN
  BY DEF CodexInv, CodexTypes
<1> DEFINE line == [k |-> "turn/start", words |-> r.input]
<1>1. /\ UNCHANGED <<agent, proc, out, cli, word, read, result>> /\ r.pc = "start"
      /\ \/ r' = [r EXCEPT !.pc = "starting"] /\ pipe' = Append(pipe, line)
         \/ r' = [r EXCEPT !.pc = "finish", !.failure = r.failure \/ TRUE] /\ pipe' = pipe
  BY DEF CallsStart, To, Fails
<1>2. r.turn = 0 /\ r.waiting = <<>> /\ ~r.finishing /\ r.steering = <<>>
  BY <1>1 DEF CodexInv, CodexTurns, Ending
<1>3. StartLines = {} /\ cli.owes = {} /\ StartedLines = {} /\ r.started = 0
  BY <1>1 DEF CodexInv, CodexStarts, Ending
<1>12. ProcInv'
  BY <1>1, ProcKept DEF ProcInv
<1>4. CASE r' = [r EXCEPT !.pc = "starting"] /\ pipe' = Append(pipe, line)
  <2>3. /\ DOMAIN r' = DOMAIN r /\ r'.pc = "starting" /\ r'.failure = r.failure
        /\ r'.input = r.input /\ r'.turn = r.turn /\ r'.state = r.state /\ r'.ended = r.ended /\ r'.started = r.started
        /\ r'.queue = r.queue /\ r'.waiting = r.waiting /\ r'.steering = r.steering /\ r'.calls = r.calls
        /\ r'.cancelled = r.cancelled /\ r'.finishing = r.finishing
    BY <1>a, <1>4
  <2>4. r'.pc \in Pcs
    BY <2>3 DEF Pcs
  <2>5. line \in CodexIn /\ line.k = "turn/start" /\ line.words = r.input
    BY <1>a DEF CodexIn
  <2> HIDE DEF line
  <2>6. /\ pipe' \in Seq(CodexIn)
        /\ \A n \in DOMAIN pipe' : (n \in DOMAIN pipe /\ pipe'[n] = pipe[n]) \/ pipe'[n] = line
        /\ StartLines' = StartLines \cup {Len(pipe) + 1}
        /\ \A w : Started1(w)' <=> Started1(w) \/ w \in ToSet(r.input)
    BY <1>4, <2>5, PipeSent DEF CodexInv
  <2>7. SteersFrom(pipe', pipe)
    BY <2>5, <2>6 DEF SteersFrom
  <2>8. CodexTurns'
    BY <1>1, <1>2, <2>3 DEF CodexInv, CodexTurns, Ending
  <2>9. CodexStarts'
    <3>1. StartedLines' = StartedLines
      BY <1>1, SameLines DEF CodexInv
    <3> QED
      BY <1>1, <1>3, <2>3, <2>6, <3>1 DEF CodexStarts, Ending
  <2>10. CodexStops'
    BY <1>1, <2>3 DEF CodexInv, CodexStops
  <2>11. \A w \in Word : (Kept(w)' => Driven(w)) /\ (Held(w) => Held(w)')
    <3>1. \A w \in Word : Kept(w)' <=> Kept(w)
      BY <1>1, <2>3, <2>6 DEF Kept
    <3> QED
      BY <1>1, <2>3, <3>1 DEF Driven, Held
  <2>12. Fine' => Fine /\ ~Ending'
    BY <1>1, <2>3 DEF Fine, Bad, Ending
  <2> QED
    BY <1>1, <1>a, <1>12, <2>3, <2>4, <2>6, <2>7, <2>8, <2>9, <2>10, <2>11, <2>12, DriverKept
<1>5. CASE r' = [r EXCEPT !.pc = "finish", !.failure = r.failure \/ TRUE] /\ pipe' = pipe
  <2>3. /\ DOMAIN r' = DOMAIN r /\ r'.pc = "finish" /\ r'.failure = TRUE
        /\ r'.input = r.input /\ r'.turn = r.turn /\ r'.state = r.state /\ r'.ended = r.ended /\ r'.started = r.started
        /\ r'.queue = r.queue /\ r'.waiting = r.waiting /\ r'.steering = r.steering /\ r'.calls = r.calls
        /\ r'.cancelled = r.cancelled /\ r'.finishing = r.finishing
    BY <1>a, <1>5
  <2>4. r'.pc \in Pcs /\ r'.failure \in BOOLEAN
    BY <2>3 DEF Pcs
  <2>6. /\ pipe' \in Seq(CodexIn) /\ SteersFrom(pipe', pipe) /\ StartLines' = StartLines
        /\ (\A w : Started1(w)' <=> Started1(w)) /\ StartedLines' = StartedLines
    BY <1>1, <1>5, SameLines DEF CodexInv
  <2>8. CodexTurns'
    BY <1>1, <1>2, <2>3 DEF CodexInv, CodexTurns, Ending
  <2>9. CodexStarts'
    BY <1>1, <1>3, <2>3, <2>6 DEF CodexStarts
  <2>10. CodexStops'
    BY <1>1, <2>3 DEF CodexInv, CodexStops
  <2>11. \A w \in Word : Kept(w)' => Driven(w)
    BY <2>3, <2>6 DEF Kept, Driven
  <2>12. ~Fine'
    BY <2>3 DEF Fine, Bad
  <2> QED
    BY <1>1, <1>a, <1>12, <2>3, <2>4, <2>6, <2>8, <2>9, <2>10, <2>11, <2>12, DriverKept
<1> QED
  BY <1>1, <1>4, <1>5

\* The turn is known to have started.
LEMMA CodexStarted ==
  ASSUME ProcInv, CodexInv, Started
  PROVE  ProcInv' /\ CodexInv' /\ agent' = agent
<1>a. /\ DOMAIN r = {"pc", "input", "turn", "state", "ended", "started", "token", "queue", "waiting", "steering",
                     "calls", "cancelled", "finishing", "failure"}
      /\ r.pc \in Pcs /\ r.input \in Seq(Text) /\ r.turn \in Nat /\ r.started \in Nat
      /\ r.queue \in Seq(Word) /\ r.waiting \in Seq(Word)
      /\ r.steering \in Seq(Steering1) /\ r.calls \in Seq(Calls)
      /\ r.cancelled \in BOOLEAN /\ r.finishing \in BOOLEAN /\ r.failure \in BOOLEAN
  BY DEF CodexInv, CodexTypes
<1>1. /\ UNCHANGED <<agent, proc, pipe, out, cli, word, read, result>> /\ r.pc = "starting" /\ r.started # 0
      /\ \E pc \in {"over", "words"} :
           r' = [r EXCEPT !.pc = pc, !.turn = r.started, !.state = "", !.started = 0, !.waiting = r.queue, !.queue = <<>>]
  BY DEF Started
<1>2. PICK pc \in {"over", "words"} :
        r' = [r EXCEPT !.pc = pc, !.turn = r.started, !.state = "", !.started = 0, !.waiting = r.queue, !.queue = <<>>]
  BY <1>1
<1>3. /\ DOMAIN r' = DOMAIN r /\ r'.pc = pc /\ r'.failure = r.failure
      /\ r'.input = r.input /\ r'.turn = r.started /\ r'.ended = r.ended /\ r'.started = 0
      /\ r'.queue = <<>> /\ r'.waiting = r.queue /\ r'.steering = r.steering /\ r'.calls = r.calls
      /\ r'.cancelled = r.cancelled /\ r'.finishing = r.finishing
  BY <1>a, <1>2
<1>4. r'.pc \in Pcs /\ r'.pc # "starting" /\ ~Ending /\ ~Ending' /\ r'.queue \in Seq(Word) /\ 0 \in Nat
  <2>1. r'.queue \in Seq(Word)
    BY <1>3, EmptySeq
  <2> QED
    BY <1>1, <1>3, <2>1 DEF Pcs, Ending
<1>5. /\ pipe' \in Seq(CodexIn) /\ SteersFrom(pipe', pipe) /\ StartLines' = StartLines
      /\ (\A w : Started1(w)' <=> Started1(w)) /\ StartedLines' = StartedLines
  BY <1>1, SameLines DEF CodexInv
<1>6. r.turn = 0 /\ r.waiting = <<>> /\ ~r.finishing /\ r.steering = <<>>
  BY <1>1 DEF CodexInv, CodexTurns, Ending
<1>7. CodexTurns'
  <2>1. r'.turn \in 0..cli.turns /\ r'.started \in 0..cli.turns
    <3>1. r.turn \in 0..cli.turns /\ r.started \in 0..cli.turns
      BY DEF CodexInv, CodexTurns
    <3> QED
      BY <1>3, <1>6, <3>1
  <2>2. r'.pc \in {"words", "over"} /\ r'.turn # 0
    BY <1>1, <1>3
  <2> QED
    BY <1>1, <1>3, <1>4, <1>6, <2>1, <2>2 DEF CodexInv, CodexTurns
<1>8. CodexStarts'
  <2>1. StartLines = {} /\ cli.owes = {} /\ StartedLines = {}
    BY <1>1 DEF CodexInv, CodexStarts
  <2> QED
    BY <1>1, <1>3, <1>5, <2>1 DEF CodexStarts
<1>9. CodexStops'
  BY <1>1, <1>3, <1>4 DEF CodexInv, CodexStops, Ending
<1>10. \A w \in Word : (Kept(w)' => Driven(w)) /\ (Held(w) => Held(w)')
  <2>1. ToSet(r'.queue) = {}
    BY <1>3 DEF ToSet
  <2>2. ToSet(r.waiting) = {}
    BY <1>6 DEF ToSet
  <2>3. \A w \in Word : Kept(w)' <=> Kept(w)
    BY <1>1, <1>3, <1>5, <2>1, <2>2 DEF Kept
  <2> QED
    BY <1>1, <1>3, <2>3 DEF Driven, Held
<1>11. Fine' => Fine /\ ~Ending'
  <2>1. Bad => Bad'
    BY <1>1, <1>3 DEF Bad
  <2> QED
    BY <1>4, <2>1 DEF Fine
<1>12. ProcInv'
  BY <1>1, ProcKept DEF ProcInv
<1> QED
  BY <1>1, <1>a, <1>3, <1>4, <1>5, <1>7, <1>8, <1>9, <1>10, <1>11, <1>12, DriverKept

\* The program is gone while a turn starts or runs: that has a reason.
LEMMA CodexGone ==
  ASSUME ProcInv, CodexInv, Gone
  PROVE  ProcInv' /\ CodexInv' /\ agent' = agent
<1>a. /\ DOMAIN r = {"pc", "input", "turn", "state", "ended", "started", "token", "queue", "waiting", "steering",
                     "calls", "cancelled", "finishing", "failure"}
      /\ r.pc \in Pcs /\ r.input \in Seq(Text) /\ r.turn \in Nat /\ r.started \in Nat
      /\ r.queue \in Seq(Word) /\ r.waiting \in Seq(Word)
      /\ r.steering \in Seq(Steering1) /\ r.calls \in Seq(Calls)
      /\ r.cancelled \in BOOLEAN /\ r.finishing \in BOOLEAN /\ r.failure \in BOOLEAN
  BY DEF CodexInv, CodexTypes
<1>1. /\ UNCHANGED <<agent, proc, pipe, out, cli, word, read, result>> /\ r.pc \in {"starting", "turn"}
      /\ proc.state = "done" /\ r' = [r EXCEPT !.pc = "finish", !.failure = r.failure]
  <2>1. r' = [r EXCEPT !.pc = "finish", !.failure = @ \/ FALSE]
    BY DEF Gone, Fails
  <2> QED
    BY <1>a, <2>1 DEF Gone
<1>3. /\ DOMAIN r' = DOMAIN r /\ r'.pc = "finish" /\ r'.failure = r.failure
      /\ r'.input = r.input /\ r'.turn = r.turn /\ r'.state = r.state /\ r'.ended = r.ended /\ r'.started = r.started
      /\ r'.queue = r.queue /\ r'.waiting = r.waiting /\ r'.steering = r.steering /\ r'.calls = r.calls
      /\ r'.cancelled = r.cancelled /\ r'.finishing = r.finishing
  BY <1>a, <1>1
<1>4. r'.pc \in Pcs /\ ~Ending
  BY <1>1, <1>3 DEF Pcs, Ending
<1>5. /\ pipe' \in Seq(CodexIn) /\ SteersFrom(pipe', pipe) /\ StartLines' = StartLines
      /\ (\A w : Started1(w)' <=> Started1(w)) /\ StartedLines' = StartedLines
  BY <1>1, SameLines DEF CodexInv
<1>6. r.waiting = <<>> /\ ~r.finishing
  BY <1>1, <1>4 DEF CodexInv, CodexTurns
<1>7. CodexTurns'
  BY <1>1, <1>3, <1>6 DEF CodexInv, CodexTurns, Ending
<1>8. CodexStarts'
  BY <1>1, <1>3, <1>5 DEF CodexInv, CodexStarts, Ending
<1>9. CodexStops'
  BY <1>1, <1>3 DEF CodexInv, CodexStops
<1>10. \A w \in Word : Kept(w)' => Driven(w)
  BY <1>3, <1>5 DEF Kept, Driven
<1>11. ~Fine'
  <2>1. proc.crashed \/ proc.doomed \/ proc.stdin = "closed"
    BY <1>1 DEF ProcInv
  <2>2. proc.stdin # "closed"
    BY <1>1 DEF CodexInv, CodexStops
  <2>3. proc.doomed => r.cancelled \/ proc.timedOut \/ r.failure
    BY <1>1 DEF CodexInv, CodexStops
  <2> QED
    BY <1>1, <1>3, <2>1, <2>2, <2>3 DEF Fine, Bad
<1>12. ProcInv'
  BY <1>1, ProcKept DEF ProcInv
<1> QED
  BY <1>1, <1>a, <1>3, <1>4, <1>5, <1>7, <1>8, <1>9, <1>10, <1>11, <1>12, DriverKept

LEMMA CodexTurnEnds ==
  ASSUME ProcInv, CodexInv, TurnEnds
  PROVE  ProcInv' /\ CodexInv' /\ agent' = agent
<1>a. /\ DOMAIN r = {"pc", "input", "turn", "state", "ended", "started", "token", "queue", "waiting", "steering",
                     "calls", "cancelled", "finishing", "failure"}
      /\ r.pc \in Pcs /\ r.input \in Seq(Text) /\ r.turn \in Nat /\ r.started \in Nat
      /\ r.queue \in Seq(Word) /\ r.waiting \in Seq(Word)
      /\ r.steering \in Seq(Steering1) /\ r.calls \in Seq(Calls)
      /\ r.cancelled \in BOOLEAN /\ r.finishing \in BOOLEAN /\ r.failure \in BOOLEAN
  BY DEF CodexInv, CodexTypes
<1>1. /\ UNCHANGED <<agent, proc, pipe, out, cli, word, read, result>> /\ r.pc = "turn"
      /\ r' = [r EXCEPT !.pc = "over", !.token = FALSE]
  BY DEF TurnEnds
<1>3. /\ DOMAIN r' = DOMAIN r /\ r'.pc = "over" /\ r'.failure = r.failure
      /\ r'.input = r.input /\ r'.turn = r.turn /\ r'.state = r.state /\ r'.ended = r.ended /\ r'.started = r.started
      /\ r'.queue = r.queue /\ r'.waiting = r.waiting /\ r'.steering = r.steering /\ r'.calls = r.calls
      /\ r'.cancelled = r.cancelled /\ r'.finishing = r.finishing
  BY <1>a, <1>1
<1>4. r'.pc \in Pcs /\ ~Ending /\ ~Ending'
  BY <1>1, <1>3 DEF Pcs, Ending
<1>5. /\ pipe' \in Seq(CodexIn) /\ SteersFrom(pipe', pipe) /\ StartLines' = StartLines
      /\ (\A w : Started1(w)' <=> Started1(w)) /\ StartedLines' = StartedLines
  BY <1>1, SameLines DEF CodexInv
<1>7. CodexTurns'
  BY <1>1, <1>3, <1>4 DEF CodexInv, CodexTurns
<1>8. CodexStarts'
  BY <1>1, <1>3, <1>4, <1>5 DEF CodexInv, CodexStarts
<1>9. CodexStops'
  BY <1>1, <1>3 DEF CodexInv, CodexStops
<1>10. \A w \in Word : (Kept(w)' => Driven(w)) /\ (Held(w) => Held(w)')
  <2>1. \A w \in Word : Kept(w)' <=> Kept(w)
    BY <1>1, <1>3, <1>5 DEF Kept
  <2> QED
    BY <1>1, <1>3, <2>1 DEF Driven, Held
<1>11. Fine' => Fine /\ ~Ending'
  BY <1>1, <1>3, <1>4 DEF Fine, Bad
<1>12. ProcInv'
  BY <1>1, ProcKept DEF ProcInv
<1> QED
  BY <1>1, <1>a, <1>3, <1>4, <1>5, <1>7, <1>8, <1>9, <1>10, <1>11, <1>12, DriverKept

LEMMA Joined ==
  ASSUME NEW S, NEW s \in Seq(S), NEW t \in Seq(S)
  PROVE  s \o t \in Seq(S) /\ ToSet(s \o t) = ToSet(s) \cup ToSet(t)
<1>1. /\ DOMAIN s = 1..Len(s) /\ DOMAIN t = 1..Len(t) /\ Len(s) \in Nat /\ Len(t) \in Nat
  BY LenProperties
<1>2. /\ s \o t \in Seq(S) /\ Len(s \o t) = Len(s) + Len(t)
      /\ \A n \in 1..(Len(s) + Len(t)) : (s \o t)[n] = IF n <= Len(s) THEN s[n] ELSE t[n - Len(s)]
  BY ConcatProperties
<1>3. DOMAIN (s \o t) = 1..(Len(s) + Len(t))
  BY <1>2, LenProperties
<1> DEFINE st == s \o t
<1> HIDE DEF st
<1>4. /\ DOMAIN st = 1..(Len(s) + Len(t))
      /\ \A n \in 1..(Len(s) + Len(t)) : st[n] = IF n <= Len(s) THEN s[n] ELSE t[n - Len(s)]
  BY <1>2, <1>3 DEF st
<1>5. ASSUME NEW x \in ToSet(st)
      PROVE  x \in ToSet(s) \/ x \in ToSet(t)
  <2>1. PICK n \in 1..(Len(s) + Len(t)) : st[n] = x
    BY <1>4 DEF ToSet
  <2>2. CASE n <= Len(s)
    <3>1. n \in 1..Len(s) /\ s[n] = x
      BY <1>1, <1>4, <2>1, <2>2
    <3> QED
      BY <1>1, <3>1 DEF ToSet
  <2>3. CASE ~(n <= Len(s))
    <3>1. n - Len(s) \in 1..Len(t) /\ t[n - Len(s)] = x
      BY <1>1, <1>4, <2>1, <2>3
    <3> QED
      BY <1>1, <3>1 DEF ToSet
  <2> QED
    BY <2>2, <2>3
<1>6. ASSUME NEW x \in ToSet(s)
      PROVE  x \in ToSet(st)
  <2>1. PICK n \in 1..Len(s) : s[n] = x
    BY <1>1, <1>6 DEF ToSet
  <2>2. n \in 1..(Len(s) + Len(t)) /\ n <= Len(s)
    BY <1>1
  <2>3. n \in DOMAIN st /\ st[n] = x
    BY <1>4, <2>1, <2>2
  <2> QED
    BY <2>3 DEF ToSet
<1>7. ASSUME NEW x \in ToSet(t)
      PROVE  x \in ToSet(st)
  <2>1. PICK n \in 1..Len(t) : t[n] = x
    BY <1>1, <1>7 DEF ToSet
  <2>2. n + Len(s) \in 1..(Len(s) + Len(t)) /\ ~(n + Len(s) <= Len(s)) /\ (n + Len(s)) - Len(s) = n
    BY <1>1
  <2>3. n + Len(s) \in DOMAIN st /\ st[n + Len(s)] = x
    BY <1>4, <2>1, <2>2
  <2> QED
    BY <2>3 DEF ToSet
<1> QED
  BY <1>2, <1>5, <1>6, <1>7 DEF st

\* What the turn did not take in goes to the queue.
LEMMA CodexOver ==
  ASSUME ProcInv, CodexInv, Over
  PROVE  ProcInv' /\ CodexInv' /\ agent' = agent
<1>a. /\ DOMAIN r = {"pc", "input", "turn", "state", "ended", "started", "token", "queue", "waiting", "steering",
                     "calls", "cancelled", "finishing", "failure"}
      /\ r.pc \in Pcs /\ r.input \in Seq(Text) /\ r.turn \in Nat /\ r.started \in Nat
      /\ r.queue \in Seq(Word) /\ r.waiting \in Seq(Word)
      /\ r.steering \in Seq(Steering1) /\ r.calls \in Seq(Calls)
      /\ r.cancelled \in BOOLEAN /\ r.finishing \in BOOLEAN /\ r.failure \in BOOLEAN
  BY DEF CodexInv, CodexTypes
<1> DEFINE steered == [n \in DOMAIN r.steering |-> r.steering[n].word]
           queue == r.waiting \o r.queue \o steered
<1>1. /\ UNCHANGED <<agent, proc, pipe, out, cli, word, read, result>> /\ r.pc = "over"
      /\ r' = [r EXCEPT !.pc = "decide", !.turn = 0, !.state = r.ended[r.turn],
                        !.queue = queue, !.waiting = <<>>, !.steering = <<>>]
  BY DEF Over
<1>2. queue \in Seq(Word) /\ ToSet(queue) = ToSet(r.waiting) \cup ToSet(r.queue) \cup ToSet(steered)
  <2>1. \A n \in DOMAIN r.steering : r.steering[n].word \in Word
    BY SteeringIs DEF CodexInv
  <2>2. DOMAIN r.steering = 1..Len(r.steering) /\ Len(r.steering) \in Nat
    BY <1>a, LenProperties
  <2>3. steered = [n \in 1..Len(r.steering) |-> r.steering[n].word]
    BY <2>2
  <2>4. steered \in Seq(Word)
    BY <2>1, <2>2, <2>3, IsASeq
  <2> HIDE DEF steered
  <2>5. r.waiting \o r.queue \in Seq(Word) /\ ToSet(r.waiting \o r.queue) = ToSet(r.waiting) \cup ToSet(r.queue)
    BY <1>a, Joined
  <2>6. PICK first : first = r.waiting \o r.queue
    OBVIOUS
  <2>7. first \in Seq(Word) /\ ToSet(first) = ToSet(r.waiting) \cup ToSet(r.queue)
    BY <2>5, <2>6
  <2>8. first \o steered \in Seq(Word) /\ ToSet(first \o steered) = ToSet(first) \cup ToSet(steered)
    BY <2>4, <2>7, Joined
  <2>9. queue = first \o steered
    BY <2>6
  <2> HIDE DEF queue
  <2> QED
    BY <2>7, <2>8, <2>9, Zenon
<1>3. ToSet(steered) = {r.steering[n].word : n \in DOMAIN r.steering}
  BY DEF ToSet
<1> HIDE DEF queue, steered
<1>4. /\ DOMAIN r' = DOMAIN r /\ r'.pc = "decide" /\ r'.failure = r.failure
      /\ r'.input = r.input /\ r'.turn = 0 /\ r'.ended = r.ended /\ r'.started = r.started
      /\ r'.queue = queue /\ r'.waiting = <<>> /\ r'.steering = <<>> /\ r'.calls = r.calls
      /\ r'.cancelled = r.cancelled /\ r'.finishing = r.finishing
  BY <1>a, <1>1
<1>5. r'.pc \in Pcs /\ ~Ending /\ ~Ending'
  BY <1>1, <1>4 DEF Pcs, Ending
<1>6. /\ pipe' \in Seq(CodexIn) /\ SteersFrom(pipe', pipe) /\ StartLines' = StartLines
      /\ (\A w : Started1(w)' <=> Started1(w)) /\ StartedLines' = StartedLines
  BY <1>1, SameLines DEF CodexInv
<1>7. SameCalls /\ From(r'.steering, r.steering) /\ From(out', out) /\ DOMAIN r'.steering = {}
  <2>1. DOMAIN <<>> = {}
    OBVIOUS
  <2> QED
    BY <1>1, <1>4, <2>1 DEF SameCalls, From
<1>8. CodexTypes'
  <2>1. r'.waiting \in Seq(Word) /\ r'.steering \in Seq(Steering1) /\ r'.turn \in Nat
    BY <1>4, EmptySeq
  <2> QED
    BY <1>a, <1>1, <1>2, <1>4, <1>5, <2>1 DEF CodexInv, CodexTypes
<1>9. CodexTurns'
  <2>1. r'.turn \in 0..cli.turns
    BY <1>4 DEF CodexInv, CodexTypes
  <2> QED
    BY <1>1, <1>4, <1>5, <2>1 DEF CodexInv, CodexTurns
<1>10. CodexStarts'
  BY <1>1, <1>4, <1>5, <1>6 DEF CodexInv, CodexStarts
<1>11. CodexStops'
  <2>1. result # "ok" /\ result = "none"
    BY <1>1 DEF CodexInv, CodexStops
  <2> QED
    BY <1>1, <1>4, <2>1 DEF CodexInv, CodexStops
<1>12. CodexCalls'
  <2>1. \A n \in DOMAIN cli'.steers : CallIs(cli'.steers[n])
    BY <1>1 DEF CodexInv, CodexCalls
  <2>2. \A n \in DOMAIN out' : out'[n].k = "userMessage" =>
           out'[n].id \in DOMAIN r.calls /\ r.calls[out'[n].id].word \in read'
    BY <1>1 DEF CodexInv, CodexCalls
  <2>3. r.pc # "word" /\ word' = word
    BY <1>1
  <2>4. \A m, n \in DOMAIN r'.steering : r'.steering[m].id = r'.steering[n].id => m = n
    BY <1>7
  <2> QED
    BY <1>6, <1>7, <2>1, <2>2, <2>3, <2>4, CallsKept DEF CodexInv
<1>13. \A w \in Word : Kept(w)' => Driven(w) \/ \E n \in DOMAIN r.steering : r.steering[n].word = w
  <2>1. r'.pc # "start" /\ ToSet(r'.waiting) = {}
    BY <1>4 DEF ToSet
  <2> QED
    BY <1>2, <1>3, <1>4, <1>6, <2>1 DEF Kept, Driven
<1>14. CodexCharge'
  <2>1. \A w \in Word : Driven(w)' => Driven(w) \/ \E n \in DOMAIN r.steering : r.steering[n].word = w
    BY <1>13, <1>4 DEF Driven, Personal
  <2>2. \A w \in Word : Driven(w)' => word'[w] \in {"asking", "accepted"}
    BY <1>1, <2>1 DEF CodexInv, CodexCharge
  <2> QED
    BY <1>1, <1>4, <1>7, <2>2 DEF CodexInv, CodexCharge
<1>15. CodexWords'
  <2>1. Fine' => Fine
    BY <1>1, <1>4, <1>5 DEF Fine, Bad
  <2>2. \A w \in Word : Held(w) => Held(w)'
    BY <1>1, <1>2, <1>3, <1>4, <1>6 DEF Held, Kept
  <2> QED
    BY <1>1, <1>5, <1>7, <2>1, <2>2, WordsKept DEF CodexInv
<1>16. ProcInv'
  BY <1>1, ProcKept DEF ProcInv
<1> QED
  BY <1>1, <1>8, <1>9, <1>10, <1>11, <1>12, <1>14, <1>15, <1>16 DEF CodexInv

LEMMA CodexDecides ==
  ASSUME ProcInv, CodexInv, Decides
  PROVE  ProcInv' /\ CodexInv' /\ agent' = agent
<1>a. /\ DOMAIN r = {"pc", "input", "turn", "state", "ended", "started", "token", "queue", "waiting", "steering",
                     "calls", "cancelled", "finishing", "failure"}
      /\ r.pc \in Pcs /\ r.input \in Seq(Text) /\ r.turn \in Nat /\ r.started \in Nat
      /\ r.queue \in Seq(Word) /\ r.waiting \in Seq(Word)
      /\ r.steering \in Seq(Steering1) /\ r.calls \in Seq(Calls)
      /\ r.cancelled \in BOOLEAN /\ r.finishing \in BOOLEAN /\ r.failure \in BOOLEAN
  BY DEF CodexInv, CodexTypes
<1> DEFINE more == r.queue # <<>> /\ r.state = "completed" /\ ~(r.cancelled \/ proc.timedOut \/ r.failure)
<1>1. /\ UNCHANGED <<agent, proc, pipe, out, cli, word, read, result>> /\ r.pc = "decide"
      /\ r' = IF more THEN [r EXCEPT !.pc = "start", !.input = r.queue, !.queue = <<>>]
                      ELSE [r EXCEPT !.pc = "finish", !.finishing = TRUE]
  BY DEF Decides
<1>2. r.turn = 0 /\ r.waiting = <<>> /\ r.steering = <<>> /\ ~r.finishing
  BY <1>1 DEF CodexInv, CodexTurns, Ending
<1>3. StartLines = {} /\ cli.owes = {} /\ StartedLines = {} /\ r.started = 0
  BY <1>1 DEF CodexInv, CodexStarts, Ending
<1>4. /\ pipe' \in Seq(CodexIn) /\ SteersFrom(pipe', pipe) /\ StartLines' = StartLines
      /\ (\A w : Started1(w)' <=> Started1(w)) /\ StartedLines' = StartedLines
  BY <1>1, SameLines DEF CodexInv
<1>12. ProcInv'
  BY <1>1, ProcKept DEF ProcInv
<1>5. CASE more
  <2>3. /\ DOMAIN r' = DOMAIN r /\ r'.pc = "start" /\ r'.failure = r.failure
        /\ r'.input = r.queue /\ r'.turn = r.turn /\ r'.state = r.state /\ r'.ended = r.ended /\ r'.started = r.started
        /\ r'.queue = <<>> /\ r'.waiting = r.waiting /\ r'.steering = r.steering /\ r'.calls = r.calls
        /\ r'.cancelled = r.cancelled /\ r'.finishing = r.finishing
    BY <1>a, <1>1, <1>5
  <2>4. r'.pc \in Pcs /\ ~Ending /\ ~Ending' /\ r'.queue \in Seq(Word) /\ r'.input \in Seq(Text)
    <3>1. r'.queue \in Seq(Word)
      BY <2>3, EmptySeq
    <3>2. r'.input \in Seq(Text)
      BY <1>a, <2>3, WordsAreText
    <3> QED
      BY <1>1, <2>3, <3>1, <3>2 DEF Pcs, Ending
  <2>7. CodexTurns'
    BY <1>1, <1>2, <2>3, <2>4 DEF CodexInv, CodexTurns
  <2>8. CodexStarts'
    BY <1>1, <1>3, <1>4, <2>3 DEF CodexStarts
  <2>9. CodexStops'
    BY <1>1, <2>3 DEF CodexInv, CodexStops
  <2>10. \A w \in Word : (Kept(w)' => Driven(w)) /\ (Held(w) => Held(w)')
    <3>1. \A w \in Word : Kept(w)' <=> Kept(w)
      <4>1. ToSet(r'.queue) = {}
        BY <2>3 DEF ToSet
      <4> QED
        BY <1>1, <2>3, <1>4, <4>1 DEF Kept
    <3> QED
      BY <1>1, <2>3, <3>1 DEF Driven, Held
  <2>11. Fine' => Fine /\ ~Ending'
    BY <1>1, <2>3, <2>4 DEF Fine, Bad
  <2> HIDE DEF more
  <2> QED
    BY <1>1, <1>a, <1>4, <1>12, <2>3, <2>4, <2>7, <2>8, <2>9, <2>10, <2>11, DriverKept
<1>6. CASE ~more
  <2>3. /\ DOMAIN r' = DOMAIN r /\ r'.pc = "finish" /\ r'.failure = r.failure
        /\ r'.input = r.input /\ r'.turn = r.turn /\ r'.state = r.state /\ r'.ended = r.ended /\ r'.started = r.started
        /\ r'.queue = r.queue /\ r'.waiting = r.waiting /\ r'.steering = r.steering /\ r'.calls = r.calls
        /\ r'.cancelled = r.cancelled /\ r'.finishing = TRUE
    BY <1>a, <1>1, <1>6
  <2>4. r'.pc \in Pcs /\ ~Ending /\ Ending' /\ r'.finishing \in BOOLEAN
    BY <1>1, <2>3 DEF Pcs, Ending
  <2>7. CodexTurns'
    BY <1>1, <1>2, <2>3, <2>4 DEF CodexInv, CodexTurns
  <2>8. CodexStarts'
    BY <1>1, <1>3, <1>4, <2>3 DEF CodexStarts
  <2>9. CodexStops'
    BY <1>1, <2>3 DEF CodexInv, CodexStops
  <2>10. \A w \in Word : (Kept(w)' => Driven(w)) /\ (Held(w) => Held(w)')
    <3>1. \A w \in Word : Kept(w)' <=> Kept(w)
      BY <1>1, <2>3, <1>4 DEF Kept
    <3> QED
      BY <1>1, <2>3, <3>1 DEF Driven, Held
  <2>11. Fine' => Fine /\ Emptied'
    <3>1. Fine' => Fine
      BY <1>1, <2>3, <2>4 DEF Fine, Bad
    <3>2. Fine' => r.queue = <<>>
      BY <1>1, <1>6, <2>3, <2>4 DEF Fine, Bad
    <3> QED
      BY <1>2, <1>3, <1>4, <2>3, <3>1, <3>2 DEF Emptied
  <2> HIDE DEF more
  <2> QED
    BY <1>1, <1>a, <1>4, <1>12, <2>3, <2>4, <2>7, <2>8, <2>9, <2>10, <2>11, DriverKept
<1> QED
  BY <1>5, <1>6

\* A step that leaves the run as it is.
LEMMA RunUnchanged ==
  ASSUME CodexInv, UNCHANGED <<word, read, cli, out, r, result>>,
         pipe' = pipe \/ (pipe' = <<>> /\ proc'.state # "up" /\ (Fine' => StartLines = {})),
         CodexStops',
         proc'.state = "up" => proc.state = "up",
         proc.timedOut => proc'.timedOut, proc.crashed => proc'.crashed
  PROVE  CodexInv'
<1>a. /\ DOMAIN r = {"pc", "input", "turn", "state", "ended", "started", "token", "queue", "waiting", "steering",
                     "calls", "cancelled", "finishing", "failure"}
      /\ r.pc \in Pcs /\ r.input \in Seq(Text) /\ r.turn \in Nat /\ r.started \in Nat
      /\ r.queue \in Seq(Word) /\ r.waiting \in Seq(Word)
      /\ r.steering \in Seq(Steering1) /\ r.calls \in Seq(Calls)
      /\ r.cancelled \in BOOLEAN /\ r.finishing \in BOOLEAN /\ r.failure \in BOOLEAN
  BY DEF CodexInv, CodexTypes
<1>1. r' = r
  OBVIOUS
<1>2. StartedLines' = StartedLines /\ Ending' = Ending
  BY SameLines DEF CodexInv, Ending
<1>3. /\ pipe' \in Seq(CodexIn) /\ SteersFrom(pipe', pipe) /\ (StartLines' = StartLines \/ StartLines' = {})
      /\ (\A w : Started1(w)' => Started1(w)) /\ (Fine' => \A w : Started1(w)' <=> Started1(w))
  <2>1. CASE pipe' = pipe
    BY <2>1, SameLines DEF CodexInv
  <2>2. CASE pipe' = <<>> /\ (Fine' => StartLines = {})
    <3>1. pipe' \in Seq(CodexIn) /\ DOMAIN pipe' = {}
      <4>1. <<>> \in Seq(CodexIn) /\ DOMAIN <<>> = {}
        BY EmptySeq
      <4> QED
        BY <2>2, <4>1
    <3>2. StartLines' = {} /\ \A w : ~Started1(w)'
      BY <3>1 DEF StartLines, Marked, Started1
    <3>3. StartLines = {} => \A w : ~Started1(w)
      BY DEF StartLines, Marked, Started1
    <3> QED
      BY <2>2, <3>1, <3>2, <3>3 DEF SteersFrom
  <2> QED
    BY <2>1, <2>2
<1>4. CodexTurns'
  BY <1>1, <1>2 DEF CodexInv, CodexTurns
<1>5. CodexStarts'
  <2>1. \A m, n \in StartLines' : m = n
    BY <1>3 DEF CodexInv, CodexStarts
  <2> QED
    BY <1>1, <1>2, <1>3, <2>1, StartsKept DEF CodexInv, CodexStarts
<1>6. Fine' => Fine
  BY <1>1, <1>2 DEF Fine, Bad
<1>7. \A w \in Word : Kept(w)' => Kept(w)
  BY <1>1, <1>3 DEF Kept
<1>8. Fine' => \A w \in Word : Held(w) => Held(w)'
  <2>1. Fine' => \A w \in Word : Kept(w) => Kept(w)'
    BY <1>1, <1>3 DEF Kept
  <2> QED
    BY <1>1, <2>1 DEF Held
<1>9. Fine' /\ Ending' => Emptied'
  BY <1>1, <1>2, <1>3, <1>6 DEF CodexInv, CodexWords, Emptied
<1>10. r.pc = "word" => r'.pc = "word"
  BY <1>1
<1>11. \A w \in Word : Kept(w)' => Driven(w)
  BY <1>7 DEF Driven
<1> QED
  BY <1>a, <1>1, <1>3, <1>4, <1>5, <1>6, <1>8, <1>9, <1>10, <1>11, DriverKept

LEMMA CodexKilled ==
  ASSUME ProcInv, CodexInv, Lingers \/ CodexKills
  PROVE  ProcInv' /\ CodexInv' /\ agent' = agent
<1>1. /\ UNCHANGED <<agent, pipe, out, cli, r, word, read, result>> /\ proc' = Doomed
      /\ r.cancelled \/ r.pc = "closing"
  BY DEF Lingers, CodexKills
<1>2. /\ proc'.stdin = proc.stdin /\ proc'.state = proc.state /\ proc'.timedOut = proc.timedOut
      /\ proc'.crashed = proc.crashed
  BY <1>1 DEF ProcInv, Doomed
<1>3. ProcInv'
  BY <1>1, ProcKept DEF ProcInv
<1>4. CodexStops'
  BY <1>1, <1>2 DEF CodexInv, CodexStops
<1> QED
  BY <1>1, <1>2, <1>3, <1>4, RunUnchanged

LEMMA CodexProcess ==
  ASSUME ProcInv, CodexInv, Process
  PROVE  CodexInv'
<1>1. ProcInv' /\ agent' = agent /\ UNCHANGED <<out, cli, r, word, read, result>>
  BY ProcessSteps
<1>2. CASE Dies
  <2>1. /\ proc.state = "up" /\ pipe' = <<>> /\ proc'.state = "down" /\ proc'.crashed = ~proc.doomed
        /\ proc'.stdin = proc.stdin /\ proc'.timedOut = proc.timedOut /\ proc'.doomed = proc.doomed
    BY <1>2 DEF ProcInv, Dies
  <2>2. ~proc.crashed /\ r.pc # "done"
    BY <2>1 DEF ProcInv, CodexInv, CodexStops
  <2>3. Fine' => StartLines = {}
    <3>1. Fine' => Fine /\ proc.doomed
      BY <1>1, <2>1, <2>2 DEF Fine, Bad, Ending
    <3>2. Fine /\ proc.doomed => Ending
      BY DEF Fine, Bad, Ending, CodexInv, CodexStops
    <3> QED
      BY <3>1, <3>2 DEF CodexInv, CodexWords, Emptied
  <2>4. CodexStops'
    BY <1>1, <2>1, <2>2 DEF CodexInv, CodexStops
  <2>5. (proc.timedOut => proc'.timedOut) /\ (proc.crashed => proc'.crashed) /\ proc'.state # "up"
    BY <2>1, <2>2
  <2> QED
    BY <1>1, <2>1, <2>3, <2>4, <2>5, RunUnchanged
<1>3. CASE TimesOut
  <2>1. /\ pipe' = pipe /\ proc'.timedOut = TRUE /\ proc'.doomed = TRUE /\ result = "none"
        /\ proc'.stdin = proc.stdin /\ proc'.state = proc.state /\ proc'.crashed = proc.crashed
    BY <1>3 DEF ProcInv, TimesOut
  <2>2. CodexStops'
    BY <1>1, <2>1 DEF CodexInv, CodexStops
  <2> QED
    BY <1>1, <2>1, <2>2, RunUnchanged
<1>4. CASE Drained
  <2>1. /\ pipe' = pipe /\ proc'.timedOut = proc.timedOut /\ proc'.doomed = proc.doomed /\ proc'.state = "done"
        /\ proc'.stdin = proc.stdin /\ proc'.crashed = proc.crashed
    BY <1>4 DEF ProcInv, Drained
  <2>2. CodexStops'
    BY <1>1, <2>1 DEF CodexInv, CodexStops
  <2> QED
    BY <1>1, <2>1, <2>2, RunUnchanged
<1> QED
  BY <1>2, <1>3, <1>4 DEF Process

LEMMA CodexFinishes ==
  ASSUME ProcInv, CodexInv, Finishes
  PROVE  ProcInv' /\ CodexInv' /\ agent' = agent
<1>a. /\ DOMAIN r = {"pc", "input", "turn", "state", "ended", "started", "token", "queue", "waiting", "steering",
                     "calls", "cancelled", "finishing", "failure"}
      /\ r.pc \in Pcs /\ r.input \in Seq(Text) /\ r.turn \in Nat /\ r.started \in Nat
      /\ r.queue \in Seq(Word) /\ r.waiting \in Seq(Word)
      /\ r.steering \in Seq(Steering1) /\ r.calls \in Seq(Calls)
      /\ r.cancelled \in BOOLEAN /\ r.finishing \in BOOLEAN /\ r.failure \in BOOLEAN
  BY DEF CodexInv, CodexTypes
<1>1. /\ UNCHANGED <<agent, pipe, out, cli, word, read, result>> /\ r.pc = "finish"
      /\ r' = [r EXCEPT !.pc = "closing"] /\ proc' = Closed
  BY DEF Finishes, To
<1>2. /\ proc'.stdin = "closed" /\ proc'.state = proc.state /\ proc'.timedOut = proc.timedOut
      /\ proc'.crashed = proc.crashed /\ proc'.doomed = proc.doomed
  BY <1>1 DEF ProcInv, Closed
<1>3. /\ DOMAIN r' = DOMAIN r /\ r'.pc = "closing" /\ r'.failure = r.failure
      /\ r'.input = r.input /\ r'.turn = r.turn /\ r'.state = r.state /\ r'.ended = r.ended /\ r'.started = r.started
      /\ r'.queue = r.queue /\ r'.waiting = r.waiting /\ r'.steering = r.steering /\ r'.calls = r.calls
      /\ r'.cancelled = r.cancelled /\ r'.finishing = r.finishing
  BY <1>a, <1>1
<1>4. r'.pc \in Pcs /\ Ending /\ Ending'
  BY <1>1, <1>3 DEF Pcs, Ending
<1>5. /\ pipe' \in Seq(CodexIn) /\ SteersFrom(pipe', pipe) /\ StartLines' = StartLines
      /\ (\A w : Started1(w)' <=> Started1(w)) /\ StartedLines' = StartedLines
  BY <1>1, SameLines DEF CodexInv
<1>7. CodexTurns'
  BY <1>1, <1>3, <1>4 DEF CodexInv, CodexTurns
<1>8. CodexStarts'
  BY <1>1, <1>3, <1>4, <1>5 DEF CodexInv, CodexStarts
<1>9. CodexStops'
  BY <1>1, <1>2, <1>3 DEF CodexInv, CodexStops
<1>10. \A w \in Word : (Kept(w)' => Driven(w)) /\ (Held(w) => Held(w)')
  <2>1. \A w \in Word : Kept(w)' <=> Kept(w)
    BY <1>1, <1>3, <1>5 DEF Kept
  <2> QED
    BY <1>1, <1>3, <2>1 DEF Driven, Held
<1>11. Fine' => Fine /\ Emptied'
  <2>1. Fine' => Fine
    BY <1>2, <1>3, <1>4 DEF Fine, Bad
  <2> QED
    BY <1>3, <1>4, <1>5, <2>1 DEF CodexInv, CodexWords, Emptied
<1>12. ProcInv'
  BY <1>1, ProcKept DEF ProcInv
<1> QED
  BY <1>1, <1>2, <1>a, <1>3, <1>4, <1>5, <1>7, <1>8, <1>9, <1>10, <1>11, <1>12, DriverKept

LEMMA CodexReturnsResult ==
  ASSUME ProcInv, CodexInv, CodexResult
  PROVE  ProcInv' /\ CodexInv' /\ agent' = agent
<1>a. /\ DOMAIN r = {"pc", "input", "turn", "state", "ended", "started", "token", "queue", "waiting", "steering",
                     "calls", "cancelled", "finishing", "failure"}
      /\ r.pc \in Pcs /\ r.input \in Seq(Text) /\ r.turn \in Nat /\ r.started \in Nat
      /\ r.queue \in Seq(Word) /\ r.waiting \in Seq(Word)
      /\ r.steering \in Seq(Steering1) /\ r.calls \in Seq(Calls)
      /\ r.cancelled \in BOOLEAN /\ r.finishing \in BOOLEAN /\ r.failure \in BOOLEAN
  BY DEF CodexInv, CodexTypes
<1>1. /\ UNCHANGED <<agent, proc, pipe, out, cli, word, read>> /\ r.pc = "closing" /\ proc.state = "done"
      /\ r' = [r EXCEPT !.pc = "done", !.finishing = TRUE]
      /\ result' \in {"ok", "failed", "cancelled"}
      /\ result' = "ok" => ~r.cancelled /\ ~proc.timedOut /\ ~r.failure /\ r.state = "completed"
  BY DEF CodexResult
<1>3. /\ DOMAIN r' = DOMAIN r /\ r'.pc = "done" /\ r'.failure = r.failure
      /\ r'.input = r.input /\ r'.turn = r.turn /\ r'.state = r.state /\ r'.ended = r.ended /\ r'.started = r.started
      /\ r'.queue = r.queue /\ r'.waiting = r.waiting /\ r'.steering = r.steering /\ r'.calls = r.calls
      /\ r'.cancelled = r.cancelled /\ r'.finishing = TRUE
  BY <1>a, <1>1
<1>4. r'.pc \in Pcs /\ Ending /\ Ending' /\ r'.finishing \in BOOLEAN
  BY <1>1, <1>3 DEF Pcs, Ending
<1>5. /\ pipe' \in Seq(CodexIn) /\ SteersFrom(pipe', pipe) /\ StartLines' = StartLines
      /\ (\A w : Started1(w)' <=> Started1(w)) /\ StartedLines' = StartedLines
  BY <1>1, SameLines DEF CodexInv
<1>7. CodexTurns'
  BY <1>1, <1>3, <1>4 DEF CodexInv, CodexTurns
<1>8. CodexStarts'
  BY <1>1, <1>3, <1>4, <1>5 DEF CodexInv, CodexStarts
<1>9. CodexStops'
  BY <1>1, <1>3 DEF CodexInv, CodexStops
<1>10. \A w \in Word : (Kept(w)' => Driven(w)) /\ (Held(w) => Held(w)')
  <2>1. \A w \in Word : Kept(w)' <=> Kept(w)
    BY <1>1, <1>3, <1>5 DEF Kept
  <2> QED
    BY <1>1, <1>3, <2>1 DEF Driven, Held
<1>11. Fine' => Fine /\ Emptied'
  <2>1. Fine' => Fine
    BY <1>1, <1>3, <1>4 DEF Fine, Bad
  <2> QED
    BY <1>3, <1>4, <1>5, <2>1 DEF CodexInv, CodexWords, Emptied
<1>12. ProcInv'
  BY <1>1, ProcKept DEF ProcInv
<1> QED
  BY <1>1, <1>a, <1>3, <1>4, <1>5, <1>7, <1>8, <1>9, <1>10, <1>11, <1>12, DriverKept

LEMMA CodexCancelled ==
  ASSUME ProcInv, CodexInv, CodexCancel
  PROVE  ProcInv' /\ CodexInv' /\ agent' = agent
<1>a. /\ DOMAIN r = {"pc", "input", "turn", "state", "ended", "started", "token", "queue", "waiting", "steering",
                     "calls", "cancelled", "finishing", "failure"}
      /\ r.pc \in Pcs /\ r.input \in Seq(Text) /\ r.turn \in Nat /\ r.started \in Nat
      /\ r.queue \in Seq(Word) /\ r.waiting \in Seq(Word)
      /\ r.steering \in Seq(Steering1) /\ r.calls \in Seq(Calls)
      /\ r.cancelled \in BOOLEAN /\ r.finishing \in BOOLEAN /\ r.failure \in BOOLEAN
  BY DEF CodexInv, CodexTypes
<1>1. /\ UNCHANGED <<agent, out, cli, word, read, result>> /\ result = "none"
      /\ r' = [r EXCEPT !.cancelled = TRUE] /\ proc' = [proc EXCEPT !.stops = @ + 1]
      /\ pipe' = pipe \/ pipe' = Append(pipe, [k |-> "turn/interrupt"])
  BY DEF CodexCancel, Line
<1>2. /\ proc'.stdin = proc.stdin /\ proc'.state = proc.state /\ proc'.timedOut = proc.timedOut
      /\ proc'.crashed = proc.crashed /\ proc'.doomed = proc.doomed /\ DOMAIN proc' = DOMAIN proc
  BY <1>1 DEF ProcInv
<1>3. /\ DOMAIN r' = DOMAIN r /\ r'.pc = r.pc /\ r'.failure = r.failure
      /\ r'.input = r.input /\ r'.turn = r.turn /\ r'.state = r.state /\ r'.ended = r.ended /\ r'.started = r.started
      /\ r'.queue = r.queue /\ r'.waiting = r.waiting /\ r'.steering = r.steering /\ r'.calls = r.calls
      /\ r'.cancelled = TRUE /\ r'.finishing = r.finishing
  BY <1>a, <1>1
<1>4. r'.cancelled \in BOOLEAN /\ Ending' = Ending
  BY <1>3 DEF Ending
<1>5. /\ pipe' \in Seq(CodexIn) /\ SteersFrom(pipe', pipe) /\ StartLines' = StartLines
      /\ (\A w : Started1(w)' <=> Started1(w)) /\ StartedLines' = StartedLines
  <2>1. StartedLines' = StartedLines
    BY <1>1, SameLines DEF CodexInv
  <2>2. CASE pipe' = pipe
    BY <2>1, <2>2, SameLines DEF CodexInv
  <2>3. CASE pipe' = Append(pipe, [k |-> "turn/interrupt"])
    <3>1. PICK line : line = [k |-> "turn/interrupt"]
      OBVIOUS
    <3>2. line \in CodexIn /\ line.k = "turn/interrupt"
      BY <3>1 DEF CodexIn
    <3>3. /\ pipe' \in Seq(CodexIn)
          /\ \A n \in DOMAIN pipe' : (n \in DOMAIN pipe /\ pipe'[n] = pipe[n]) \/ pipe'[n] = line
          /\ StartLines' = StartLines
          /\ \A w : Started1(w)' <=> Started1(w)
      BY <2>3, <3>1, <3>2, PipeSent DEF CodexInv
    <3> QED
      BY <2>1, <3>2, <3>3 DEF SteersFrom
  <2> QED
    BY <1>1, <2>2, <2>3
<1>7. CodexTurns'
  BY <1>1, <1>3, <1>4 DEF CodexInv, CodexTurns
<1>8. CodexStarts'
  BY <1>1, <1>3, <1>4, <1>5 DEF CodexInv, CodexStarts
<1>9. CodexStops'
  BY <1>1, <1>2, <1>3 DEF CodexInv, CodexStops
<1>10. \A w \in Word : Kept(w)' => Driven(w)
  BY <1>3, <1>5 DEF Kept, Driven
<1>11. ~Fine'
  BY <1>3 DEF Fine, Bad
<1>12. ProcInv'
  BY <1>1, <1>2 DEF ProcInv
<1> QED
  BY <1>1, <1>2, <1>a, <1>3, <1>4, <1>5, <1>7, <1>8, <1>9, <1>10, <1>11, <1>12, DriverKept

-----------------------------------------------------------------------------
(* CODEX: what is said to it while it works                                 *)

\* A call is added, and its words are being steered.
Placed(id, w, from) ==
  /\ id \notin DOMAIN r.calls /\ DOMAIN r'.calls = DOMAIN r.calls \cup {id} /\ r'.calls \in Seq(Calls)
  /\ \A n \in DOMAIN r.calls : r'.calls[n] = r.calls[n]
  /\ r'.calls[id].word = w /\ r'.calls[id].from = from
  /\ r'.steering \in Seq(Steering1)
  /\ \A n \in DOMAIN r'.steering : \/ n \in DOMAIN r.steering /\ r'.steering[n] = r.steering[n]
                                   \/ r'.steering[n].id = id /\ r'.steering[n].word = w
  /\ \A n \in DOMAIN r.steering : n \in DOMAIN r'.steering /\ r'.steering[n] = r.steering[n]
  /\ \E n \in DOMAIN r'.steering : r'.steering[n].word = w
  /\ \A m, n \in DOMAIN r'.steering : r'.steering[m].id = r'.steering[n].id => m = n
  /\ pipe' \in Seq(CodexIn) /\ StartLines' = StartLines /\ \A v : Started1(v)' <=> Started1(v)
  /\ \A n \in DOMAIN pipe' : \/ n \in DOMAIN pipe /\ pipe'[n] = pipe[n]
                             \/ pipe'[n].k = "turn/steer" /\ pipe'[n].id = id /\ pipe'[n].word = w
  /\ DOMAIN r' = DOMAIN r /\ r'.input = r.input /\ r'.turn = r.turn /\ r'.state = r.state /\ r'.ended = r.ended
  /\ r'.started = r.started /\ r'.queue = r.queue /\ r'.cancelled = r.cancelled /\ r'.finishing = r.finishing
  /\ r'.failure = r.failure
  /\ from = "driver" => r'.pc = "word" /\ r'.waiting = Tail(r.waiting)
  /\ from = "person" => r'.pc = r.pc /\ r'.waiting = r.waiting

LEMMA CallPlaced ==
  ASSUME CodexInv, NEW w \in Word, NEW from \in {"driver", "person"}, Calling(w, from),
         from = "driver" => r.waiting # <<>>
  PROVE  \E id \in Nat : Placed(id, w, from)
<1>a. /\ DOMAIN r = {"pc", "input", "turn", "state", "ended", "started", "token", "queue", "waiting", "steering",
                     "calls", "cancelled", "finishing", "failure"}
      /\ r.pc \in Pcs /\ r.input \in Seq(Text) /\ r.turn \in Nat /\ r.started \in Nat
      /\ r.queue \in Seq(Word) /\ r.waiting \in Seq(Word)
      /\ r.steering \in Seq(Steering1) /\ r.calls \in Seq(Calls)
      /\ r.cancelled \in BOOLEAN /\ r.finishing \in BOOLEAN /\ r.failure \in BOOLEAN
  BY DEF CodexInv, CodexTypes
<1>1. PICK id : id = Len(r.calls) + 1
  OBVIOUS
<1>2. PICK entry : entry = [id |-> id, word |-> w]
  OBVIOUS
<1>3. PICK call : \E at \in {"sent", "error"} : call = [word |-> w, from |-> from, at |-> at]
                                       /\ at = IF CanWrite THEN "sent" ELSE "error"
  OBVIOUS
<1>4. PICK line : line = [k |-> "turn/steer", turn |-> r.turn, id |-> id, word |-> w]
  OBVIOUS
<1>5. /\ r' = [r EXCEPT !.steering = Append(@, entry),
                        !.pc = IF from = "driver" THEN "word" ELSE @,
                        !.waiting = IF from = "driver" THEN Tail(@) ELSE @,
                        !.calls = Append(@, call)]
      /\ pipe' = IF CanWrite THEN Append(pipe, line) ELSE pipe
  BY <1>1, <1>2, <1>3, <1>4 DEF Calling
<1>6. call \in Calls /\ call.word = w /\ call.from = from
  BY <1>3 DEF Calls
<1>7. /\ id \in Nat /\ id \notin DOMAIN r.calls /\ r'.calls \in Seq(Calls)
      /\ DOMAIN r'.calls = DOMAIN r.calls \cup {id}
      /\ (\A n \in DOMAIN r.calls : r'.calls[n] = r.calls[n]) /\ r'.calls[id] = call
  <2>1. r'.calls = Append(r.calls, call)
    BY <1>a, <1>5
  <2>2. /\ Append(r.calls, call) \in Seq(Calls) /\ DOMAIN r.calls = 1..Len(r.calls)
        /\ DOMAIN Append(r.calls, call) = 1..(Len(r.calls) + 1) /\ Len(r.calls) \in Nat
        /\ \A n \in DOMAIN r.calls : Append(r.calls, call)[n] = r.calls[n]
        /\ Append(r.calls, call)[Len(r.calls) + 1] = call
    BY <1>a, <1>6, Appended
  <2>3. \A l \in Nat : 1..(l + 1) = (1..l) \cup {l + 1} /\ l + 1 \notin 1..l /\ l + 1 \in Nat
    OBVIOUS
  <2> QED
    BY <1>1, <2>1, <2>2, <2>3
<1>8. entry \in Steering1 /\ entry.id = id /\ entry.word = w
  BY <1>2, <1>7 DEF Steering1
<1>9. line \in CodexIn /\ line.k = "turn/steer" /\ line.id = id /\ line.word = w
  BY <1>a, <1>4, <1>7 DEF CodexIn
<1>10. /\ r'.steering \in Seq(Steering1)
       /\ \A n \in DOMAIN r.steering : n \in DOMAIN r'.steering /\ r'.steering[n] = r.steering[n]
       /\ \A n \in DOMAIN r'.steering : n \in DOMAIN r.steering \/ n = Len(r.steering) + 1
       /\ Len(r.steering) + 1 \in DOMAIN r'.steering /\ r'.steering[Len(r.steering) + 1] = entry
  <2>1. r'.steering = Append(r.steering, entry)
    BY <1>a, <1>5
  <2> QED
    BY <1>a, <1>8, <2>1, Appended
<1>11. \A m, n \in DOMAIN r'.steering : r'.steering[m].id = r'.steering[n].id => m = n
  <2>1. \A n \in DOMAIN r.steering : r'.steering[n].id # id
    BY <1>7, <1>10 DEF CodexInv, CodexCalls, CallIs
  <2>2. \A m, n \in DOMAIN r.steering : r.steering[m].id = r.steering[n].id => m = n
    BY DEF CodexInv, CodexCalls
  <2> QED
    BY <1>8, <1>10, <2>1, <2>2
<1>12. /\ pipe' \in Seq(CodexIn) /\ StartLines' = StartLines /\ \A v : Started1(v)' <=> Started1(v)
       /\ \A n \in DOMAIN pipe' : (n \in DOMAIN pipe /\ pipe'[n] = pipe[n]) \/ pipe'[n] = line
  <2>1. CASE CanWrite
    <3>1. pipe' = Append(pipe, line)
      BY <1>5, <2>1
    <3> QED
      BY <1>9, <3>1, PipeSent DEF CodexInv
  <2>2. CASE ~CanWrite
    <3>1. pipe' = pipe
      BY <1>5, <2>2
    <3> QED
      BY <3>1, SameLines DEF CodexInv
  <2> QED
    BY <2>1, <2>2
<1>13. /\ DOMAIN r' = DOMAIN r /\ r'.input = r.input /\ r'.turn = r.turn /\ r'.state = r.state /\ r'.ended = r.ended
       /\ r'.started = r.started /\ r'.queue = r.queue /\ r'.cancelled = r.cancelled /\ r'.finishing = r.finishing
       /\ r'.failure = r.failure
       /\ from = "driver" => r'.pc = "word" /\ r'.waiting = Tail(r.waiting)
       /\ from = "person" => r'.pc = r.pc /\ r'.waiting = r.waiting
  BY <1>a, <1>5
<1>14. /\ \A n \in DOMAIN r'.steering : \/ n \in DOMAIN r.steering /\ r'.steering[n] = r.steering[n]
                                        \/ r'.steering[n].id = id /\ r'.steering[n].word = w
       /\ \E n \in DOMAIN r'.steering : r'.steering[n].word = w
  BY <1>8, <1>10
<1>15. Placed(id, w, from)
  BY <1>6, <1>7, <1>9, <1>10, <1>11, <1>12, <1>13, <1>14 DEF Placed
<1> QED
  BY <1>7, <1>15

\* The words of a caller are steered: the driver's are its own, a person's are new.
LEMMA CallingKept ==
  ASSUME ProcInv, CodexInv, NEW w \in Word, NEW from \in {"driver", "person"}, Calling(w, from),
         UNCHANGED <<agent, proc, out, cli, read, result>>, r.turn # 0,
         word' \in [Word -> Statuses], \A v \in Word \ {w} : word'[v] = word[v],
         from = "driver" => r.pc = "words" /\ r.waiting # <<>> /\ w = Head(r.waiting) /\ word' = word,
         from = "person" => word[w] = "new" /\ word'[w] = "asking" /\ ~r.finishing
  PROVE  CodexInv'
<1>a. /\ DOMAIN r = {"pc", "input", "turn", "state", "ended", "started", "token", "queue", "waiting", "steering",
                     "calls", "cancelled", "finishing", "failure"}
      /\ r.pc \in Pcs /\ r.input \in Seq(Text) /\ r.turn \in Nat /\ r.started \in Nat
      /\ r.queue \in Seq(Word) /\ r.waiting \in Seq(Word)
      /\ r.steering \in Seq(Steering1) /\ r.calls \in Seq(Calls)
      /\ r.cancelled \in BOOLEAN /\ r.finishing \in BOOLEAN /\ r.failure \in BOOLEAN
  BY DEF CodexInv, CodexTypes
<1>b. \/ from = "driver" /\ r.pc = "words" /\ r.waiting # <<>> /\ w = Head(r.waiting) /\ word' = word
      \/ from = "person" /\ word[w] = "new" /\ word'[w] = "asking"
  OBVIOUS
<1>c. PICK id \in Nat : Placed(id, w, from)
  <2>1. from = "driver" => r.waiting # <<>>
    OBVIOUS
  <2> HIDE DEF CodexInv
  <2> QED
    BY <2>1, CallPlaced, Zenon
<1>1. /\ id \notin DOMAIN r.calls /\ DOMAIN r'.calls = DOMAIN r.calls \cup {id} /\ r'.calls \in Seq(Calls)
      /\ \A n \in DOMAIN r.calls : r'.calls[n] = r.calls[n]
      /\ r'.calls[id].word = w /\ r'.calls[id].from = from
      /\ r'.steering \in Seq(Steering1)
      /\ \A n \in DOMAIN r'.steering : \/ n \in DOMAIN r.steering /\ r'.steering[n] = r.steering[n]
                                       \/ r'.steering[n].id = id /\ r'.steering[n].word = w
      /\ \A n \in DOMAIN r.steering : n \in DOMAIN r'.steering /\ r'.steering[n] = r.steering[n]
      /\ \E n \in DOMAIN r'.steering : r'.steering[n].word = w
      /\ \A m, n \in DOMAIN r'.steering : r'.steering[m].id = r'.steering[n].id => m = n
      /\ pipe' \in Seq(CodexIn) /\ StartLines' = StartLines /\ \A v : Started1(v)' <=> Started1(v)
      /\ \A n \in DOMAIN pipe' : \/ n \in DOMAIN pipe /\ pipe'[n] = pipe[n]
                                 \/ pipe'[n].k = "turn/steer" /\ pipe'[n].id = id /\ pipe'[n].word = w
      /\ DOMAIN r' = DOMAIN r /\ r'.input = r.input /\ r'.turn = r.turn /\ r'.state = r.state /\ r'.ended = r.ended
      /\ r'.started = r.started /\ r'.queue = r.queue /\ r'.cancelled = r.cancelled /\ r'.finishing = r.finishing
      /\ r'.failure = r.failure
      /\ from = "driver" => r'.pc = "word" /\ r'.waiting = Tail(r.waiting)
      /\ from = "person" => r'.pc = r.pc /\ r'.waiting = r.waiting
  BY <1>c DEF Placed
<1>2. ~r.finishing
  BY <1>b DEF CodexInv, CodexTurns, Ending
<1>3. Ending' = Ending /\ (from = "driver" => ~Ending) /\ r'.pc \in Pcs
  <2>1. \/ from = "driver" /\ r.pc = "words" /\ r'.pc = "word"
        \/ from = "person" /\ r'.pc = r.pc
    BY <1>b, <1>1
  <2>2. r.pc \in Pcs
    BY <1>a
  <2> QED
    BY <1>b, <2>1, <2>2 DEF Ending, Pcs
<1>4. /\ from = "driver" => /\ Tail(r.waiting) \in Seq(Word) /\ w \in ToSet(r.waiting)
                            /\ ToSet(r.waiting) = ToSet(Tail(r.waiting)) \cup {w}
  BY <1>a, Behead
<1>5. r'.waiting \in Seq(Word) /\ StartedLines' = StartedLines
  <2>1. StartedLines' = StartedLines
    BY SameLines DEF CodexInv
  <2> QED
    BY <1>a, <1>b, <1>1, <1>4, <2>1
<1>6. CodexTypes'
  BY <1>a, <1>1, <1>3, <1>5 DEF CodexInv, CodexTypes
<1>7. CodexTurns'
  <2>1. r'.waiting # <<>> => r'.pc \in {"words", "word", "over"}
    BY <1>b, <1>1 DEF CodexInv, CodexTurns
  <2>2. r'.pc \in {"open", "start", "starting", "decide"} => r'.turn = 0
    BY <1>b, <1>1 DEF CodexInv, CodexTurns
  <2>3. r'.pc \in {"words", "word", "turn", "over"} => r'.turn # 0
    BY <1>1
  <2>4. r'.pc = "open" => r'.state = "" /\ r'.input = <<Prompt>>
    BY <1>b, <1>1 DEF CodexInv, CodexTurns
  <2> QED
    BY <1>1, <1>2, <2>1, <2>2, <2>3, <2>4 DEF CodexInv, CodexTurns
<1>8. CodexStarts'
  BY <1>b, <1>1, <1>3, <1>5 DEF CodexInv, CodexStarts
<1>9. CodexStops'
  BY <1>b, <1>1 DEF CodexInv, CodexStops
<1>10. /\ from = "driver" => Driven(w) /\ word[w] \in {"asking", "accepted"}
       /\ from = "person" => ~Driven(w) /\ \A n \in DOMAIN r.calls : r.calls[n].word # w
  BY <1>b, <1>4 DEF CodexInv, CodexCharge, Driven, Kept
<1>11. \A n \in DOMAIN r.calls : (Personal(n)' <=> Personal(n)) /\ (Alive(n)' <=> Alive(n)) /\ r'.calls[n].word = r.calls[n].word
  BY <1>1 DEF Personal, Alive
<1>12. Personal(id)' <=> from = "person"
  BY <1>b, <1>1 DEF Personal
<1>13. CodexCalls'
  <2>1. (\A n \in DOMAIN r.steering : CallIs(r.steering[n]))'
    <3>1. \A n \in DOMAIN r.steering : CallIs(r.steering[n])
      BY DEF CodexInv, CodexCalls
    <3> QED
      BY <1>1, <3>1 DEF CallIs
  <2>2. (\A n \in DOMAIN pipe : pipe[n].k = "turn/steer" => CallIs(pipe[n]))'
    <3>1. \A n \in DOMAIN pipe : pipe[n].k = "turn/steer" => CallIs(pipe[n])
      BY DEF CodexInv, CodexCalls
    <3> QED
      BY <1>1, <3>1 DEF CallIs
  <2>3. (\A n \in DOMAIN cli.steers : CallIs(cli.steers[n]))'
    <3>1. \A n \in DOMAIN cli.steers : CallIs(cli.steers[n])
      BY DEF CodexInv, CodexCalls
    <3> QED
      BY <1>1, <3>1 DEF CallIs
  <2>4. \A n \in DOMAIN out' : out'[n].k = "userMessage" =>
           out'[n].id \in DOMAIN r'.calls /\ r'.calls[out'[n].id].word \in read'
    BY <1>1 DEF CodexInv, CodexCalls
  <2>5. \A n \in DOMAIN r.calls : ~Personal(n) /\ Alive(n) => r.pc = "word"
    BY DEF CodexInv, CodexCalls
  <2>6. \A n \in DOMAIN r'.calls : ~Personal(n)' /\ Alive(n)' => r'.pc = "word"
    BY <1>b, <1>1, <1>11, <1>12, <2>5
  <2>7. \A m, n \in DOMAIN r'.calls : ~Personal(m)' /\ Alive(m)' /\ ~Personal(n)' /\ Alive(n)' => m = n
    <3>1. \A m, n \in DOMAIN r.calls : ~Personal(m) /\ Alive(m) /\ ~Personal(n) /\ Alive(n) => m = n
      BY DEF CodexInv, CodexCalls
    <3> QED
      BY <1>b, <1>1, <1>11, <1>12, <2>5, <3>1
  <2>8. \A n \in DOMAIN r'.calls : Personal(n)' /\ Alive(n)' => word'[r'.calls[n].word] = "asking"
    <3>1. \A n \in DOMAIN r.calls : Personal(n) /\ Alive(n) => word[r.calls[n].word] = "asking"
      BY DEF CodexInv, CodexCalls
    <3>2. \A n \in DOMAIN r.calls : r.calls[n].word \in Word
      <4>1. \A n \in DOMAIN r.calls : r.calls[n] \in Calls
        BY <1>a, ElementOfSeq
      <4> QED
        BY <4>1 DEF Calls
    <3> QED
      BY <1>b, <1>1, <1>10, <1>11, <1>12, <3>1, <3>2
  <2>9. \A m, n \in DOMAIN r'.calls : Personal(m)' /\ Personal(n)' /\ r'.calls[m].word = r'.calls[n].word => m = n
    <3>1. \A m, n \in DOMAIN r.calls : Personal(m) /\ Personal(n) /\ r.calls[m].word = r.calls[n].word => m = n
      BY DEF CodexInv, CodexCalls
    <3> QED
      BY <1>b, <1>1, <1>10, <1>11, <1>12, <3>1
  <2> QED
    BY <1>1, <2>1, <2>2, <2>3, <2>4, <2>6, <2>7, <2>8, <2>9 DEF CodexCalls
<1>14. \A v \in Word : Kept(v)' => Driven(v)
  <2>1. \A v \in Word : Kept(v)' => Kept(v)
    BY <1>b, <1>1, <1>4 DEF Kept
  <2> QED
    BY <2>1 DEF Driven
<1>15. \A v \in Word : Driven(v)' => Driven(v)
  BY <1>b, <1>1, <1>10, <1>11, <1>12, <1>14 DEF Driven
<1>16. word'[w] \in {"asking", "accepted"}
  BY <1>b, <1>10
<1>17. CodexCharge'
  <2>1. \A v \in Word : Driven(v)' => word'[v] \in {"asking", "accepted"}
    BY <1>15, <1>16 DEF CodexInv, CodexCharge
  <2>2. \A n \in DOMAIN r.steering : CallIs(r.steering[n]) /\ r.steering[n].word \in Word
    BY SteeringIs DEF CodexInv
  <2>3. \A n \in DOMAIN r'.steering : word'[r'.steering[n].word] \in {"asking", "accepted"}
    <3> TAKE n \in DOMAIN r'.steering
    <3>1. CASE n \in DOMAIN r.steering /\ r'.steering[n] = r.steering[n]
      <4>1. PICK v \in Word : v = r.steering[n].word
        BY <2>2, <3>1
      <4>2. word[v] \in {"asking", "accepted"}
        BY <3>1, <4>1 DEF CodexInv, CodexCharge
      <4>3. word'[v] \in {"asking", "accepted"}
        BY <1>16, <4>2
      <4> QED
        BY <3>1, <4>1, <4>3
    <3>2. CASE r'.steering[n].word = w
      BY <1>16, <3>2
    <3> QED
      BY <1>1, <3>1, <3>2
  <2>4. (\A n \in DOMAIN r.steering : Personal(r.steering[n].id) /\ Alive(r.steering[n].id) => ~Driven(r.steering[n].word))'
    <3> SUFFICES ASSUME NEW n \in DOMAIN r'.steering
                 PROVE  (Personal(r.steering[n].id) /\ Alive(r.steering[n].id) => ~Driven(r.steering[n].word))'
      OBVIOUS
    <3>1. PICK i, v : i = r'.steering[n].id /\ v = r'.steering[n].word
      OBVIOUS
    <3>2. Personal(i)' /\ Alive(i)' => ~Driven(v)'
      <4>1. CASE n \in DOMAIN r.steering /\ r'.steering[n] = r.steering[n]
        <5>1. i \in DOMAIN r.calls /\ v \in Word
          BY <2>2, <3>1, <4>1 DEF CallIs
        <5>2. Personal(i) /\ Alive(i) => ~Driven(v)
          BY <3>1, <4>1 DEF CodexInv, CodexCharge
        <5> QED
          BY <1>11, <1>15, <5>1, <5>2
      <4>2. CASE i = id /\ v = w
        BY <1>b, <1>10, <1>12, <1>15, <4>2
      <4> QED
        BY <1>1, <3>1, <4>1, <4>2
    <3> QED
      BY <3>1, <3>2 DEF Personal, Alive, Driven, Kept, Started1
  <2>5. \A n \in DOMAIN r.calls : r.calls[n].word \in Word
    <3>1. \A n \in DOMAIN r.calls : r.calls[n] \in Calls
      BY <1>a, ElementOfSeq
    <3> QED
      BY <3>1 DEF Calls
  <2>6. \A n \in DOMAIN r'.calls : word'[r'.calls[n].word] # "new"
    BY <1>1, <1>16, <2>5 DEF CodexInv, CodexCharge
  <2>7. ASSUME proc'.state = "up" /\ ~r'.cancelled
        PROVE  /\ \A n \in DOMAIN pipe' : pipe'[n].k = "turn/steer" => word'[pipe'[n].word] # "refused"
               /\ \A n \in DOMAIN cli'.steers : word'[cli'.steers[n].word] # "refused"
    <3>1. /\ \A n \in DOMAIN pipe : pipe[n].k = "turn/steer" => word[pipe[n].word] # "refused" /\ CallIs(pipe[n])
          /\ \A n \in DOMAIN cli.steers : word[cli.steers[n].word] # "refused" /\ CallIs(cli.steers[n])
      BY <1>1, <2>7 DEF CodexInv, CodexCharge, CodexCalls
    <3>2. /\ \A n \in DOMAIN pipe : pipe[n].k = "turn/steer" => pipe[n].word \in Word
          /\ \A n \in DOMAIN cli.steers : cli.steers[n].word \in Word
      BY <2>5, <3>1 DEF CallIs
    <3>3. \A v \in Word : word[v] # "refused" => word'[v] # "refused"
      BY <1>16
    <3>4. \A n \in DOMAIN cli'.steers : word'[cli'.steers[n].word] # "refused"
      BY <3>1, <3>2, <3>3
    <3>5. ASSUME NEW n \in DOMAIN pipe', pipe'[n].k = "turn/steer"
          PROVE  word'[pipe'[n].word] # "refused"
      <4>1. CASE n \in DOMAIN pipe /\ pipe'[n] = pipe[n]
        BY <3>1, <3>2, <3>3, <3>5, <4>1
      <4>2. CASE pipe'[n].word = w
        BY <1>16, <4>2
      <4> QED
        BY <1>1, <4>1, <4>2
    <3> QED
      BY <3>4, <3>5
  <2> QED
    BY <2>1, <2>3, <2>4, <2>6, <2>7 DEF CodexCharge
<1>18. CodexWords'
  <2>1. Fine' => Fine
    BY <1>1, <1>3 DEF Fine, Bad
  <2>2. \A v \in Word : Owed(v)' => Owed(v) \/ v = w
    BY <1>1, <1>11 DEF Owed
  <2>3. \A v \in Word : Held(v) => Held(v)'
    <3>1. /\ r'.queue = r.queue /\ r'.input = r.input /\ \A v : Started1(v)' <=> Started1(v)
          /\ \A v : v \in ToSet(r.waiting) => v \in ToSet(r'.waiting) \/ v = w
          /\ r.pc = "start" => r'.pc = "start"
      <4>1. CASE from = "driver"
        <5>1. r.pc = "words" /\ r'.waiting = Tail(r.waiting) /\ ToSet(r.waiting) = ToSet(Tail(r.waiting)) \cup {w}
          BY <1>1, <1>4, <4>1
        <5>2. \A v : v \in ToSet(r.waiting) => v \in ToSet(r'.waiting) \/ v = w
          BY <5>1
        <5> QED
          BY <1>1, <5>1, <5>2
      <4>2. CASE from = "person"
        BY <1>1, <4>2
      <4> QED
        BY <4>1, <4>2
    <3>2. \A v \in Word : Kept(v) => Kept(v)' \/ v = w
      BY <3>1 DEF Kept
    <3> QED
      BY <1>1, <3>2 DEF Held
  <2>4. Held(w)'
    BY <1>1 DEF Held
  <2>5. Fine => ~Ending
    BY <1>2 DEF CodexInv, CodexWords, Emptied
  <2>6. Fine => \A v \in Word : Owed(v) => Held(v)
    BY DEF CodexInv, CodexWords
  <2> QED
    BY <1>3, <2>1, <2>2, <2>3, <2>4, <2>5, <2>6 DEF CodexWords
<1> QED
  BY <1>6, <1>7, <1>8, <1>9, <1>13, <1>17, <1>18 DEF CodexInv

\* What waited for the turn is handed over, one after the other.
LEMMA CodexSteersWaiting ==
  ASSUME ProcInv, CodexInv, SteersWaiting
  PROVE  ProcInv' /\ CodexInv' /\ agent' = agent
<1>a. /\ DOMAIN r = {"pc", "input", "turn", "state", "ended", "started", "token", "queue", "waiting", "steering",
                     "calls", "cancelled", "finishing", "failure"}
      /\ r.pc \in Pcs /\ r.input \in Seq(Text) /\ r.turn \in Nat /\ r.started \in Nat
      /\ r.queue \in Seq(Word) /\ r.waiting \in Seq(Word)
      /\ r.steering \in Seq(Steering1) /\ r.calls \in Seq(Calls)
      /\ r.cancelled \in BOOLEAN /\ r.finishing \in BOOLEAN /\ r.failure \in BOOLEAN
  BY DEF CodexInv, CodexTypes
<1>1. UNCHANGED <<agent, proc, out, cli, word, read, result>> /\ r.pc = "words"
  BY DEF SteersWaiting
<1>2. /\ \/ r.waiting = <<>> /\ r' = [r EXCEPT !.pc = "turn"] /\ pipe' = pipe
         \/ r.waiting # <<>> /\ r.cancelled /\ r' = [r EXCEPT !.waiting = Tail(@)] /\ pipe' = pipe
         \/ r.waiting # <<>> /\ Calling(Head(r.waiting), "driver")
  BY DEF SteersWaiting, To
<1>3. ProcInv'
  BY <1>1, ProcKept DEF ProcInv
<1>4. r.turn # 0 /\ ~r.finishing
  BY <1>1 DEF CodexInv, CodexTurns, Ending
<1>5. pipe' = pipe => /\ pipe' \in Seq(CodexIn) /\ SteersFrom(pipe', pipe) /\ StartLines' = StartLines
                      /\ (\A w : Started1(w)' <=> Started1(w)) /\ StartedLines' = StartedLines
  BY <1>1, SameLines DEF CodexInv
<1>6. CASE r.waiting = <<>> /\ r' = [r EXCEPT !.pc = "turn"] /\ pipe' = pipe
  <2>3. /\ DOMAIN r' = DOMAIN r /\ r'.pc = "turn" /\ r'.failure = r.failure
        /\ r'.input = r.input /\ r'.turn = r.turn /\ r'.state = r.state /\ r'.ended = r.ended /\ r'.started = r.started
        /\ r'.queue = r.queue /\ r'.waiting = r.waiting /\ r'.steering = r.steering /\ r'.calls = r.calls
        /\ r'.cancelled = r.cancelled /\ r'.finishing = r.finishing
    BY <1>a, <1>6
  <2>4. r'.pc \in Pcs /\ ~Ending /\ ~Ending'
    BY <1>1, <2>3 DEF Pcs, Ending
  <2>7. CodexTurns'
    BY <1>1, <1>6, <2>3, <2>4 DEF CodexInv, CodexTurns
  <2>8. CodexStarts'
    BY <1>1, <1>5, <1>6, <2>3, <2>4 DEF CodexInv, CodexStarts
  <2>9. CodexStops'
    BY <1>1, <2>3 DEF CodexInv, CodexStops
  <2>10. \A w \in Word : (Kept(w)' => Driven(w)) /\ (Held(w) => Held(w)')
    <3>1. \A w \in Word : Kept(w)' <=> Kept(w)
      BY <1>1, <1>5, <1>6, <2>3 DEF Kept
    <3> QED
      BY <1>1, <2>3, <3>1 DEF Driven, Held
  <2>11. Fine' => Fine /\ ~Ending'
    BY <1>1, <2>3, <2>4 DEF Fine, Bad
  <2> QED
    BY <1>1, <1>a, <1>3, <1>5, <1>6, <2>3, <2>4, <2>7, <2>8, <2>9, <2>10, <2>11, DriverKept
<1>7. CASE r.waiting # <<>> /\ r.cancelled /\ r' = [r EXCEPT !.waiting = Tail(@)] /\ pipe' = pipe
  <2>3. /\ DOMAIN r' = DOMAIN r /\ r'.pc = r.pc /\ r'.failure = r.failure
        /\ r'.input = r.input /\ r'.turn = r.turn /\ r'.state = r.state /\ r'.ended = r.ended /\ r'.started = r.started
        /\ r'.queue = r.queue /\ r'.waiting = Tail(r.waiting) /\ r'.steering = r.steering /\ r'.calls = r.calls
        /\ r'.cancelled = r.cancelled /\ r'.finishing = r.finishing
    BY <1>a, <1>7
  <2>4. ~Ending /\ ~Ending'
    BY <1>1, <2>3 DEF Ending
  <2>5. r'.waiting \in Seq(Word) /\ ToSet(r.waiting) = ToSet(r'.waiting) \cup {Head(r.waiting)}
    BY <1>a, <1>7, <2>3, Behead
  <2>7. CodexTurns'
    BY <1>1, <2>3, <2>4 DEF CodexInv, CodexTurns
  <2>8. CodexStarts'
    BY <1>1, <1>5, <1>7, <2>3, <2>4 DEF CodexInv, CodexStarts
  <2>9. CodexStops'
    BY <1>1, <2>3 DEF CodexInv, CodexStops
  <2>10. \A w \in Word : Kept(w)' => Driven(w)
    BY <1>5, <1>7, <2>3, <2>5 DEF Kept, Driven
  <2>11. ~Fine'
    BY <1>7, <2>3 DEF Fine, Bad
  <2> QED
    BY <1>1, <1>a, <1>3, <1>5, <1>7, <2>3, <2>5, <2>7, <2>8, <2>9, <2>10, <2>11, DriverKept
<1>8. CASE r.waiting # <<>> /\ Calling(Head(r.waiting), "driver")
  <2>1. PICK w \in Word : w = Head(r.waiting)
    BY <1>a, <1>8, Behead
  <2>2. word' \in [Word -> Statuses] /\ word' = word
    BY <1>1 DEF ProcInv
  <2>3. Calling(w, "driver") /\ r.waiting # <<>> /\ "driver" \in {"driver", "person"} /\ "driver" # "person"
    BY <1>8, <2>1
  <2> QED
    BY <1>1, <1>3, <1>4, <2>1, <2>2, <2>3, CallingKept
<1> QED
  BY <1>2, <1>6, <1>7, <1>8

LEMMA CodexSaid ==
  ASSUME ProcInv, CodexInv, NEW w \in Word, CodexSteer(w)
  PROVE  ProcInv' /\ CodexInv' /\ agent' = agent
<1>a. /\ DOMAIN r = {"pc", "input", "turn", "state", "ended", "started", "token", "queue", "waiting", "steering",
                     "calls", "cancelled", "finishing", "failure"}
      /\ r.pc \in Pcs /\ r.input \in Seq(Text) /\ r.turn \in Nat /\ r.started \in Nat
      /\ r.queue \in Seq(Word) /\ r.waiting \in Seq(Word)
      /\ r.steering \in Seq(Steering1) /\ r.calls \in Seq(Calls)
      /\ r.cancelled \in BOOLEAN /\ r.finishing \in BOOLEAN /\ r.failure \in BOOLEAN
  BY DEF CodexInv, CodexTypes
<1>1. UNCHANGED <<agent, proc, out, cli, read, result>> /\ word[w] = "new"
  BY DEF CodexSteer
<1>2. \/ Answered(w, "refused") /\ r' = r /\ pipe' = pipe
      \/ r.turn = 0 /\ ~r.finishing /\ Answered(w, "accepted") /\ r' = [r EXCEPT !.queue = Append(@, w)] /\ pipe' = pipe
      \/ r.turn # 0 /\ ~r.finishing /\ Answered(w, "asking") /\ Calling(w, "person")
  BY DEF CodexSteer
<1>3. PICK how \in {"refused", "accepted", "asking"} : Answered(w, how)
  BY <1>2
<1>4. word' \in [Word -> Statuses] /\ word'[w] = how /\ \A v \in Word \ {w} : word'[v] = word[v]
  BY <1>3, AnswerTypes DEF Statuses
<1>5. ProcInv'
  BY <1>1, <1>4, ProcKept DEF ProcInv
<1>6. CASE r.turn # 0 /\ ~r.finishing /\ Answered(w, "asking") /\ Calling(w, "person")
  <2>1. word'[w] = "asking"
    BY <1>6, AnswerTypes DEF Statuses
  <2>2. "person" \in {"driver", "person"} /\ "driver" # "person"
    OBVIOUS
  <2> QED
    BY <1>1, <1>4, <1>5, <1>6, <2>1, <2>2, CallingKept
<1>7. CASE \/ Answered(w, "refused") /\ r' = r /\ pipe' = pipe
           \/ r.turn = 0 /\ ~r.finishing /\ Answered(w, "accepted") /\ r' = [r EXCEPT !.queue = Append(@, w)] /\ pipe' = pipe
  <2>1. \/ word'[w] = "refused" /\ r'.queue = r.queue /\ r' = r
        \/ /\ word'[w] = "accepted" /\ r.turn = 0 /\ ~r.finishing
           /\ r' = [r EXCEPT !.queue = Append(@, w)] /\ r'.queue = Append(r.queue, w)
    BY <1>7, <1>a, AnswerTypes DEF Statuses
  <2>2. /\ DOMAIN r' = DOMAIN r /\ r'.pc = r.pc /\ r'.failure = r.failure
        /\ r'.input = r.input /\ r'.turn = r.turn /\ r'.state = r.state /\ r'.ended = r.ended /\ r'.started = r.started
        /\ r'.waiting = r.waiting /\ r'.steering = r.steering /\ r'.calls = r.calls
        /\ r'.cancelled = r.cancelled /\ r'.finishing = r.finishing
    BY <1>a, <2>1
  <2>3. /\ r'.queue \in Seq(Word)
        /\ \/ word'[w] = "refused" /\ ToSet(r'.queue) = ToSet(r.queue)
           \/ word'[w] = "accepted" /\ ToSet(r'.queue) = ToSet(r.queue) \cup {w}
    <3>1. Append(r.queue, w) \in Seq(Word) /\ ToSet(Append(r.queue, w)) = ToSet(r.queue) \cup {w}
      <4>1. r.queue \in Seq(Word)
        BY <1>a
      <4> HIDE DEF CodexInv
      <4> QED
        BY <4>1, Appended
    <3> QED
      BY <1>a, <2>1, <3>1
  <2>4. /\ pipe' = pipe /\ pipe' \in Seq(CodexIn) /\ StartLines' = StartLines
        /\ (\A v : Started1(v)' <=> Started1(v)) /\ StartedLines' = StartedLines
    BY <1>1, <1>7, SameLines DEF CodexInv
  <2>5. Ending' = Ending
    BY <2>2 DEF Ending
  <2>6. CodexTypes' /\ CodexTurns' /\ CodexStarts' /\ CodexStops'
    <3>1. CodexTypes'
      BY <1>1, <2>2, <2>3, <2>4 DEF CodexInv, CodexTypes
    <3>2. CodexTurns'
      BY <1>1, <2>2, <2>5 DEF CodexInv, CodexTurns
    <3>3. CodexStarts'
      BY <1>1, <2>2, <2>4, <2>5 DEF CodexInv, CodexStarts
    <3>4. CodexStops'
      BY <1>1, <2>2 DEF CodexInv, CodexStops
    <3> QED
      BY <3>1, <3>2, <3>3, <3>4
  <2>7. ~Driven(w) /\ \A n \in DOMAIN r.calls : r.calls[n].word # w
    BY <1>1 DEF CodexInv, CodexCharge
  <2>8. \A n \in DOMAIN r.calls : r.calls[n].word \in Word
    <3>1. \A n \in DOMAIN r.calls : r.calls[n] \in Calls
      BY <1>a, ElementOfSeq
    <3> QED
      BY <3>1 DEF Calls
  <2>9. \A n \in DOMAIN r.calls : word'[r.calls[n].word] = word[r.calls[n].word]
    BY <1>4, <2>7, <2>8
  <2>10. CodexCalls'
    <3>1. (\A n \in DOMAIN r.calls : Personal(n) /\ Alive(n) => word[r.calls[n].word] = "asking")'
      BY <2>2, <2>9 DEF CodexInv, CodexCalls, Personal, Alive
    <3> QED
      BY <1>1, <2>2, <2>4, <3>1 DEF CodexInv, CodexCalls, CallIs, Personal, Alive
  <2>11. \A v \in Word : (Driven(v) => Driven(v)') /\ (Driven(v)' => Driven(v) \/ (v = w /\ word'[w] = "accepted"))
    <3>1. \A v \in Word : (Kept(v) => Kept(v)') /\ (Kept(v)' => Kept(v) \/ (v = w /\ word'[w] = "accepted"))
      BY <2>2, <2>3, <2>4 DEF Kept
    <3> QED
      BY <2>2, <3>1 DEF Driven, Personal
  <2>12. CodexCharge'
    <3>1. \A v \in Word : Driven(v)' => word'[v] \in {"asking", "accepted"}
      BY <1>4, <2>7, <2>11 DEF CodexInv, CodexCharge
    <3>2. \A n \in DOMAIN r.steering : CallIs(r.steering[n])
      BY DEF CodexInv, CodexCalls
    <3>3. \A n \in DOMAIN r'.steering : word'[r'.steering[n].word] \in {"asking", "accepted"}
      BY <2>2, <2>9, <3>2 DEF CodexInv, CodexCharge, CallIs
    <3>4. (\A n \in DOMAIN r.steering : Personal(r.steering[n].id) /\ Alive(r.steering[n].id) => ~Driven(r.steering[n].word))'
      <4> SUFFICES ASSUME NEW n \in DOMAIN r'.steering
                   PROVE  (Personal(r.steering[n].id) /\ Alive(r.steering[n].id) => ~Driven(r.steering[n].word))'
        OBVIOUS
      <4>1. PICK i, v : i = r'.steering[n].id /\ v = r'.steering[n].word
        OBVIOUS
      <4>2. i \in DOMAIN r.calls /\ v \in Word /\ v # w
        BY <2>2, <2>7, <2>8, <3>2, <4>1 DEF CallIs
      <4>3. Personal(i) /\ Alive(i) => ~Driven(v)
        BY <2>2, <4>1 DEF CodexInv, CodexCharge
      <4>4. Personal(i)' /\ Alive(i)' => ~Driven(v)'
        BY <2>2, <2>11, <4>2, <4>3 DEF Personal, Alive
      <4> QED
        BY <4>1, <4>4 DEF Personal, Alive, Driven, Kept, Started1
    <3>5. \A n \in DOMAIN r'.calls : word'[r'.calls[n].word] # "new"
      BY <2>2, <2>9 DEF CodexInv, CodexCharge
    <3>6. ASSUME proc'.state = "up" /\ ~r'.cancelled
          PROVE  /\ \A n \in DOMAIN pipe' : pipe'[n].k = "turn/steer" => word'[pipe'[n].word] # "refused"
                 /\ \A n \in DOMAIN cli'.steers : word'[cli'.steers[n].word] # "refused"
      <4>1. /\ \A n \in DOMAIN pipe : pipe[n].k = "turn/steer" => word[pipe[n].word] # "refused" /\ CallIs(pipe[n])
            /\ \A n \in DOMAIN cli.steers : word[cli.steers[n].word] # "refused" /\ CallIs(cli.steers[n])
        BY <1>1, <2>2, <3>6 DEF CodexInv, CodexCharge, CodexCalls
      <4> QED
        BY <1>1, <2>4, <2>9, <4>1 DEF CallIs
    <3> QED
      BY <3>1, <3>3, <3>4, <3>5, <3>6 DEF CodexCharge
  <2>13. CodexWords'
    <3>1. Fine' => Fine
      BY <1>1, <2>2, <2>5 DEF Fine, Bad
    <3>2. \A v \in Word : Owed(v)' => Owed(v) \/ (v = w /\ word'[w] = "accepted")
      BY <1>4, <2>2 DEF Owed, Alive
    <3>3. \A v \in Word : Held(v) => Held(v)'
      <4>1. \A v \in Word : Kept(v) => Kept(v)'
        BY <2>2, <2>3, <2>4 DEF Kept
      <4> QED
        BY <1>1, <2>2, <4>1 DEF Held
    <3>4. word'[w] = "accepted" => Held(w)'
      <4>1. word'[w] = "accepted" => w \in ToSet(r'.queue)
        BY <2>3
      <4> QED
        BY <4>1 DEF Held, Kept
    <3>5. Fine' /\ Ending' => Emptied'
      <4>1. Fine' /\ Ending' => Emptied
        BY <2>5, <3>1 DEF CodexInv, CodexWords
      <4> QED
        BY <2>1, <2>2, <2>4, <4>1 DEF Emptied
    <3>6. Fine => \A v \in Word : Owed(v) => Held(v)
      BY DEF CodexInv, CodexWords
    <3> QED
      BY <3>1, <3>2, <3>3, <3>4, <3>5, <3>6 DEF CodexWords
  <2> QED
    BY <1>1, <1>5, <2>6, <2>10, <2>12, <2>13 DEF CodexInv
<1> QED
  BY <1>2, <1>6, <1>7

\* A call is over: what is still being steered of it goes back to the queue, unless the run
\* takes nothing more.
LEMMA CodexReturns ==
  ASSUME ProcInv, CodexInv, NEW n \in DOMAIN r.calls, NEW gone \in BOOLEAN, SteerReturns(n, gone)
  PROVE  ProcInv' /\ CodexInv' /\ agent' = agent
<1>a. /\ DOMAIN r = {"pc", "input", "turn", "state", "ended", "started", "token", "queue", "waiting", "steering",
                     "calls", "cancelled", "finishing", "failure"}
      /\ r.pc \in Pcs /\ r.input \in Seq(Text) /\ r.turn \in Nat /\ r.started \in Nat
      /\ r.queue \in Seq(Word) /\ r.waiting \in Seq(Word)
      /\ r.steering \in Seq(Steering1) /\ r.calls \in Seq(Calls)
      /\ r.cancelled \in BOOLEAN /\ r.finishing \in BOOLEAN /\ r.failure \in BOOLEAN
  BY DEF CodexInv, CodexTypes
<1>b. \A m \in DOMAIN r.calls : r.calls[m] \in Calls
  BY <1>a, ElementOfSeq
<1>c. PICK c : c = r.calls[n]
  OBVIOUS
<1>d. c \in Calls /\ c.word \in Word
  BY <1>b, <1>c DEF Calls
<1> DEFINE pending == \E s \in ToSet(r.steering) : s.id = n
           calls == [r.calls EXCEPT ![n] = [r.calls[n] EXCEPT !.at = "over"]]
<1>1. PICK back \in BOOLEAN, refused \in BOOLEAN :
        /\ back => pending
        /\ refused <=> back /\ (r.cancelled \/ r.finishing)
        /\ c.at \in {"sent", "ok", "error"}
        /\ proc' = proc \/ proc' = [proc EXCEPT !.stops = @ + 1]
        /\ r' = [r EXCEPT !.calls = calls,
                          !.pc = IF c.from = "driver" THEN "words" ELSE @,
                          !.steering = IF back THEN Without(n) ELSE @,
                          !.queue = IF back /\ ~refused THEN Append(@, c.word) ELSE @]
        /\ word' = IF c.from = "person" THEN [word EXCEPT ![c.word] = IF refused THEN "refused" ELSE "accepted"] ELSE word
        /\ UNCHANGED <<agent, pipe, out, cli, read, result>>
  <2>1. PICK back \in BOOLEAN : back = ((c.at # "ok" \/ gone) /\ pending)
    BY <1>c
  <2>2. PICK refused \in BOOLEAN : refused = (back /\ (r.cancelled \/ r.finishing))
    OBVIOUS
  <2> QED
    BY <1>a, <1>c, <2>1, <2>2 DEF SteerReturns
<1>2. /\ DOMAIN r' = DOMAIN r /\ r'.failure = r.failure
      /\ r'.input = r.input /\ r'.turn = r.turn /\ r'.state = r.state /\ r'.ended = r.ended /\ r'.started = r.started
      /\ r'.waiting = r.waiting /\ r'.cancelled = r.cancelled /\ r'.finishing = r.finishing
      /\ r'.calls = calls
      /\ r'.pc = IF c.from = "driver" THEN "words" ELSE r.pc
      /\ r'.steering = IF back THEN Without(n) ELSE r.steering
      /\ r'.queue = IF back /\ ~refused THEN Append(r.queue, c.word) ELSE r.queue
  BY <1>a, <1>1
<1>3. /\ DOMAIN calls = DOMAIN r.calls /\ calls \in Seq(Calls)
      /\ \A m \in DOMAIN r.calls : /\ calls[m].word = r.calls[m].word /\ calls[m].from = r.calls[m].from
                                   /\ calls[m].at = IF m = n THEN "over" ELSE r.calls[m].at
  <2>1. DOMAIN calls = DOMAIN r.calls /\ \A m \in DOMAIN r.calls : calls[m] = IF m = n THEN [c EXCEPT !.at = "over"] ELSE r.calls[m]
    BY <1>c
  <2>2. PICK over : over = [c EXCEPT !.at = "over"]
    OBVIOUS
  <2>3. over \in Calls /\ over.word = c.word /\ over.from = c.from /\ over.at = "over"
    BY <1>d, <2>2 DEF Calls
  <2>4. \A m \in DOMAIN r.calls : /\ calls[m].word = r.calls[m].word /\ calls[m].from = r.calls[m].from
                                  /\ calls[m].at = (IF m = n THEN "over" ELSE r.calls[m].at) /\ calls[m] \in Calls
    BY <1>b, <1>c, <2>1, <2>2, <2>3
  <2>5. DOMAIN r.calls = 1..Len(r.calls) /\ Len(r.calls) \in Nat
    BY <1>a, LenProperties
  <2>6. calls = [m \in 1..Len(r.calls) |-> calls[m]]
    BY <2>1, <2>5
  <2> HIDE DEF calls
  <2>7. calls \in Seq(Calls)
    <3>1. PICK l \in Nat : l = Len(r.calls)
      BY <2>5
    <3>2. calls = [m \in 1..l |-> calls[m]] /\ \A m \in 1..l : calls[m] \in Calls
      BY <2>4, <2>5, <2>6, <3>1
    <3> QED
      BY <3>1, <3>2, IsASeq
  <2> QED
    BY <2>1, <2>4, <2>7
<1> HIDE DEF calls
<1>4. SameCalls
  BY <1>2, <1>3 DEF SameCalls
<1>5. Alive(n) /\ (Personal(n) <=> c.from = "person") /\ (~Personal(n) <=> c.from = "driver")
  BY <1>c, <1>d, <1>1 DEF Alive, Personal, Calls
<1>6. /\ \A m \in DOMAIN r.calls : (Personal(m)' <=> Personal(m)) /\ r'.calls[m].word = r.calls[m].word
      /\ \A m \in DOMAIN r.calls : Alive(m)' <=> Alive(m) /\ m # n
  BY <1>2, <1>3 DEF Alive, Personal
<1>7. \A m, k \in DOMAIN r.steering : r.steering[m].id = r.steering[k].id => m = k
  BY DEF CodexInv, CodexCalls
<1>8. \A m \in DOMAIN r.steering : CallIs(r.steering[m]) /\ r.steering[m].word \in Word
  BY SteeringIs DEF CodexInv
<1>9. back => \E m \in DOMAIN r.steering : r.steering[m].id = n /\ r.steering[m].word = c.word
  <2>1. pending => \E m \in DOMAIN r.steering : r.steering[m].id = n
    BY DEF ToSet
  <2> QED
    BY <1>c, <1>1, <1>8, <2>1 DEF CallIs
<1> HIDE DEF pending
<1>10. /\ r'.steering \in Seq(Steering1) /\ From(r'.steering, r.steering)
       /\ \A m, k \in DOMAIN r'.steering : r'.steering[m].id = r'.steering[k].id => m = k
       /\ back => \A m \in DOMAIN r'.steering : r'.steering[m].id # n
       /\ \A m \in DOMAIN r.steering : \/ back /\ r.steering[m].id = n
                                       \/ \E k \in DOMAIN r'.steering : r'.steering[k] = r.steering[m]
       /\ r.steering = <<>> => r'.steering = <<>>
  <2>1. PICK s : s = Without(n)
    OBVIOUS
  <2>2. r.steering \in Seq(Steering1)
    BY <1>a
  <2>3. /\ Without(n) \in Seq(Steering1) /\ From(Without(n), r.steering)
        /\ \A m, k \in DOMAIN Without(n) : Without(n)[m].id = Without(n)[k].id => m = k
        /\ \A m \in DOMAIN Without(n) : Without(n)[m].id # n
        /\ \A m \in DOMAIN r.steering : r.steering[m].id = n \/ \E k \in DOMAIN Without(n) : Without(n)[k] = r.steering[m]
        /\ r.steering = <<>> => Without(n) = <<>>
    BY <1>7, <2>2, WithoutLeaves, Zenon
  <2>4. CASE back
    BY <1>2, <2>3, <2>4
  <2>5. CASE ~back
    <3>1. r'.steering = r.steering
      BY <1>2, <2>5
    <3> QED
      BY <1>7, <2>2, <2>5, <3>1 DEF From
  <2> QED
    BY <2>4, <2>5
<1>11. /\ r'.queue \in Seq(Word)
       /\ ToSet(r'.queue) = IF back /\ ~refused THEN ToSet(r.queue) \cup {c.word} ELSE ToSet(r.queue)
  <2>1. Append(r.queue, c.word) \in Seq(Word) /\ ToSet(Append(r.queue, c.word)) = ToSet(r.queue) \cup {c.word}
    <3>1. r.queue \in Seq(Word)
      BY <1>a
    <3> QED
      BY <1>d, <3>1, Appended
  <2> QED
    BY <1>a, <1>2, <2>1
<1>12. c.from = "driver" => r.pc = "word"
  BY <1>5 DEF CodexInv, CodexCalls
<1>13. r'.pc \in Pcs /\ Ending' = Ending
  BY <1>a, <1>2, <1>12 DEF Pcs, Ending
<1>14. /\ proc'.doomed = proc.doomed /\ proc'.stdin = proc.stdin /\ proc'.timedOut = proc.timedOut
       /\ proc'.crashed = proc.crashed /\ proc'.state = proc.state /\ DOMAIN proc' = DOMAIN proc
  BY <1>1 DEF ProcInv
<1>15. /\ pipe' \in Seq(CodexIn) /\ SteersFrom(pipe', pipe) /\ StartLines' = StartLines
       /\ (\A w : Started1(w)' <=> Started1(w)) /\ StartedLines' = StartedLines
  BY <1>1, SameLines DEF CodexInv
<1>16. word[c.word] # "new" /\ (Personal(n) => word[c.word] = "asking")
  BY <1>c, <1>5 DEF CodexInv, CodexCharge, CodexCalls
<1>17. /\ word' \in [Word -> Statuses] /\ \A w \in Word \ {c.word} : word'[w] = word[w]
       /\ word'[c.word] = IF Personal(n) THEN IF refused THEN "refused" ELSE "accepted" ELSE word[c.word]
  BY <1>d, <1>1, <1>5 DEF ProcInv, Statuses
<1>18. ProcInv'
  BY <1>1, <1>14, <1>17 DEF ProcInv
\* Words that are being steered by the person are not the driver's.
<1>19. back /\ Personal(n) => ~Driven(c.word)
  <2>1. ASSUME back, Personal(n)
        PROVE  ~Driven(c.word)
    <3>1. PICK m \in DOMAIN r.steering : r.steering[m].id = n /\ r.steering[m].word = c.word
      BY <1>9, <2>1
    <3>2. Personal(r.steering[m].id) /\ Alive(r.steering[m].id) => ~Driven(r.steering[m].word)
      BY DEF CodexInv, CodexCharge
    <3> QED
      BY <1>5, <2>1, <3>1, <3>2
  <2> QED
    BY <2>1
<1>20. ~Personal(n) => Driven(c.word)
  BY <1>c, <1>5 DEF Driven
<1>21. CodexTypes'
  BY <1>a, <1>1, <1>2, <1>3, <1>10, <1>11, <1>13, <1>15 DEF CodexInv, CodexTypes
<1>22. CodexTurns'
  <2>1. r'.pc # r.pc => r.pc = "word" /\ r'.pc = "words"
    BY <1>2, <1>12
  <2>2. r.steering # <<>> /\ r.finishing => r.pc = "done"
    BY DEF CodexInv, CodexTurns
  <2>3. /\ r'.turn \in 0..cli'.turns /\ r'.started \in 0..cli'.turns
        /\ cli'.turn \in 0..cli'.turns /\ cli'.owes \subseteq 1..cli'.turns
        /\ DOMAIN r'.ended \subseteq 1..cli'.turns
        /\ \A k \in DOMAIN out' : out'[k].k \in {"started", "completed"} => out'[k].turn \in 1..cli'.turns
    BY <1>1, <1>2, <1>10, <1>13 DEF CodexInv, CodexTurns
  <2> QED
    BY <1>1, <1>2, <1>10, <1>13, <2>1, <2>2, <2>3 DEF CodexInv, CodexTurns
<1>23. CodexStarts'
  <2>1. r'.pc # "starting" <=> r.pc # "starting"
    BY <1>2, <1>12
  <2> QED
    BY <1>1, <1>2, <1>13, <1>15, <2>1 DEF CodexInv, CodexStarts
<1>24. CodexStops'
  <2>1. (r'.pc = "done" <=> r.pc = "done") /\ (r'.pc \in {"closing", "done"} <=> r.pc \in {"closing", "done"})
    BY <1>2, <1>12
  <2> QED
    BY <1>1, <1>2, <1>14, <2>1 DEF CodexInv, CodexStops
<1>25. CodexCalls'
  <2>1. (\A m \in DOMAIN r.steering : CallIs(r.steering[m]))'
    <3>1. \A m \in DOMAIN r'.steering : CallIs(r'.steering[m])
      BY <1>8, <1>10 DEF From
    <3> QED
      BY <1>2, <1>3, <3>1 DEF CallIs
  <2>2. (\A m \in DOMAIN pipe : pipe[m].k = "turn/steer" => CallIs(pipe[m]))'
    BY <1>1, <1>2, <1>3 DEF CodexInv, CodexCalls, CallIs
  <2>3. (\A m \in DOMAIN cli.steers : CallIs(cli.steers[m]))'
    BY <1>1, <1>2, <1>3 DEF CodexInv, CodexCalls, CallIs
  <2>4. \A m \in DOMAIN out' : out'[m].k = "userMessage" =>
           out'[m].id \in DOMAIN r'.calls /\ r'.calls[out'[m].id].word \in read'
    BY <1>1, <1>2, <1>3 DEF CodexInv, CodexCalls
  <2>5. DOMAIN r'.calls = DOMAIN r.calls
    BY <1>2, <1>3
  <2>6. \A m \in DOMAIN r.calls : ~Personal(m) /\ Alive(m) => r.pc = "word"
    BY DEF CodexInv, CodexCalls
  <2>7. \A m, k \in DOMAIN r.calls : ~Personal(m) /\ Alive(m) /\ ~Personal(k) /\ Alive(k) => m = k
    BY DEF CodexInv, CodexCalls
  <2>8. \A m \in DOMAIN r'.calls : ~Personal(m)' /\ Alive(m)' => r'.pc = "word"
    BY <1>2, <1>5, <1>6, <2>5, <2>6, <2>7
  <2>9. \A m, k \in DOMAIN r'.calls : ~Personal(m)' /\ Alive(m)' /\ ~Personal(k)' /\ Alive(k)' => m = k
    BY <1>6, <2>5, <2>7
  <2>10. \A m, k \in DOMAIN r.calls : Personal(m) /\ Personal(k) /\ r.calls[m].word = r.calls[k].word => m = k
    BY DEF CodexInv, CodexCalls
  <2>11. \A m \in DOMAIN r'.calls : Personal(m)' /\ Alive(m)' => word'[r'.calls[m].word] = "asking"
    <3> TAKE m \in DOMAIN r'.calls
    <3>1. PICK w \in Word : w = r.calls[m].word
      BY <1>b, <2>5 DEF Calls
    <3>2. Personal(m) /\ Alive(m) => word[w] = "asking"
      BY <2>5, <3>1 DEF CodexInv, CodexCalls
    <3>3. Personal(m) /\ m # n /\ Personal(n) => w # c.word
      BY <1>c, <2>5, <2>10, <3>1
    <3>4. Personal(m)' /\ Alive(m)' => word'[w] = "asking"
      BY <1>6, <1>17, <2>5, <3>2, <3>3
    <3> QED
      BY <1>6, <2>5, <3>1, <3>4
  <2>12. \A m, k \in DOMAIN r'.calls : Personal(m)' /\ Personal(k)' /\ r'.calls[m].word = r'.calls[k].word => m = k
    BY <1>6, <2>5, <2>10
  <2> QED
    BY <1>10, <2>1, <2>2, <2>3, <2>4, <2>8, <2>9, <2>11, <2>12 DEF CodexCalls
<1>26. \A w \in Word : Kept(w)' <=> Kept(w) \/ (back /\ ~refused /\ w = c.word)
  <2>1. r'.pc = "start" <=> r.pc = "start"
    BY <1>2, <1>12
  <2> QED
    BY <1>2, <1>11, <1>15, <2>1 DEF Kept
<1>27. \A w \in Word : Driven(w)' <=> Driven(w) \/ (back /\ ~refused /\ w = c.word)
  BY <1>2, <1>3, <1>6, <1>26 DEF Driven
<1>28. CodexCharge'
  <2>1. \A w \in Word : Driven(w)' => word'[w] \in {"asking", "accepted"}
    <3> TAKE w \in Word
    <3>1. CASE w # c.word
      BY <1>17, <1>27, <3>1 DEF CodexInv, CodexCharge
    <3>2. CASE w = c.word /\ Personal(n)
      BY <1>1, <1>17, <1>19, <1>27, <3>2
    <3>3. CASE w = c.word /\ ~Personal(n)
      BY <1>17, <1>20, <3>3 DEF CodexInv, CodexCharge
    <3> QED
      BY <3>1, <3>2, <3>3
  <2>2. \A m \in DOMAIN r'.steering : word'[r'.steering[m].word] \in {"asking", "accepted"}
    <3> TAKE m \in DOMAIN r'.steering
    <3>1. PICK k \in DOMAIN r.steering : r'.steering[m] = r.steering[k]
      BY <1>10 DEF From
    <3>2. PICK i, w : i = r.steering[k].id /\ w = r.steering[k].word
      OBVIOUS
    <3>3. i \in DOMAIN r.calls /\ w \in Word /\ r.calls[i].word = w /\ word[w] \in {"asking", "accepted"}
      BY <1>8, <3>2 DEF CallIs, CodexInv, CodexCharge
    <3>4. CASE w # c.word
      BY <1>17, <3>1, <3>2, <3>3, <3>4
    <3>5. CASE w = c.word /\ (~Personal(n) \/ ~refused)
      BY <1>17, <3>1, <3>2, <3>3, <3>5
    <3>6. CASE w = c.word /\ Personal(n) /\ refused
      <4>1. i # n
        BY <1>1, <1>10, <3>1, <3>2, <3>6
      <4>2. ~Personal(i)
        BY <1>c, <3>3, <3>6, <4>1 DEF CodexInv, CodexCalls
      <4>3. Driven(c.word)
        BY <3>3, <3>6, <4>2 DEF Driven
      <4> QED
        BY <1>1, <1>19, <3>6, <4>3
    <3> QED
      BY <3>4, <3>5, <3>6
  <2>3. (\A m \in DOMAIN r.steering : Personal(r.steering[m].id) /\ Alive(r.steering[m].id) => ~Driven(r.steering[m].word))'
    <3> SUFFICES ASSUME NEW m \in DOMAIN r'.steering
                 PROVE  (Personal(r.steering[m].id) /\ Alive(r.steering[m].id) => ~Driven(r.steering[m].word))'
      OBVIOUS
    <3>1. PICK k \in DOMAIN r.steering : r'.steering[m] = r.steering[k]
      BY <1>10 DEF From
    <3>2. PICK i, w : i = r.steering[k].id /\ w = r.steering[k].word
      OBVIOUS
    <3>3. i \in DOMAIN r.calls /\ w \in Word /\ r.calls[i].word = w
      BY <1>8, <3>2 DEF CallIs
    <3>4. Personal(i) /\ Alive(i) => ~Driven(w)
      BY <3>2 DEF CodexInv, CodexCharge
    <3>5. Personal(i)' /\ Alive(i)' => ~Driven(w)'
      <4>1. SUFFICES ASSUME Personal(i)', Alive(i)', Driven(w)'
                     PROVE  FALSE
        OBVIOUS
      <4>2. Personal(i) /\ Alive(i) /\ i # n
        BY <1>6, <3>3, <4>1
      <4>3. w = c.word
        BY <1>27, <3>3, <3>4, <4>1, <4>2
      <4>4. ~Personal(n)
        BY <1>c, <3>3, <4>2, <4>3 DEF CodexInv, CodexCalls
      <4> QED
        BY <1>20, <3>4, <4>2, <4>3, <4>4
    <3>6. r'.steering[m].id = i /\ r'.steering[m].word = w
      BY <3>1, <3>2
    <3> QED
      BY <3>5, <3>6 DEF Personal, Alive, Driven, Kept, Started1
  <2>4. \A m \in DOMAIN r'.calls : word'[r'.calls[m].word] # "new"
    <3> TAKE m \in DOMAIN r'.calls
    <3>1. PICK w \in Word : w = r.calls[m].word
      BY <1>b, <1>2, <1>3 DEF Calls
    <3>2. word[w] # "new"
      BY <1>2, <1>3, <3>1 DEF CodexInv, CodexCharge
    <3>3. word'[w] # "new"
      BY <1>17, <3>2
    <3> QED
      BY <1>2, <1>3, <3>1, <3>3
  <2>5. ASSUME proc'.state = "up" /\ ~r'.cancelled
        PROVE  /\ \A m \in DOMAIN pipe' : pipe'[m].k = "turn/steer" => word'[pipe'[m].word] # "refused"
               /\ \A m \in DOMAIN cli'.steers : word'[cli'.steers[m].word] # "refused"
    <3>1. ~refused
      <4>1. ASSUME refused
            PROVE  FALSE
        <5>1. r.finishing /\ r.steering # <<>>
          <6>1. back /\ (r.cancelled \/ r.finishing)
            BY <1>1, <4>1
          <6>2. \E m \in DOMAIN r.steering : TRUE
            BY <1>9, <6>1
          <6>3. DOMAIN <<>> = {}
            OBVIOUS
          <6> QED
            BY <1>2, <2>5, <6>1, <6>2, <6>3
        <5>2. r.pc = "done"
          BY <5>1 DEF CodexInv, CodexTurns
        <5>3. proc.state = "done"
          BY <5>2 DEF CodexInv, CodexStops
        <5> QED
          BY <1>14, <2>5, <5>3
      <4> QED
        BY <4>1
    <3>2. \A w \in Word : word[w] # "refused" => word'[w] # "refused"
      BY <1>17, <3>1
    <3>3. /\ \A m \in DOMAIN pipe : pipe[m].k = "turn/steer" => word[pipe[m].word] # "refused" /\ CallIs(pipe[m])
          /\ \A m \in DOMAIN cli.steers : word[cli.steers[m].word] # "refused" /\ CallIs(cli.steers[m])
      BY <1>2, <1>14, <2>5 DEF CodexInv, CodexCharge, CodexCalls
    <3>4. \A m \in DOMAIN r.calls : r.calls[m].word \in Word
      BY <1>b DEF Calls
    <3> QED
      BY <1>1, <3>2, <3>3, <3>4 DEF CallIs
  <2> QED
    BY <2>1, <2>2, <2>3, <2>4, <2>5 DEF CodexCharge
<1>29. CodexWords'
  <2>1. Fine' => Fine
    BY <1>2, <1>13, <1>14 DEF Fine, Bad
  <2>2. Fine => \A w \in Word : Owed(w) => Held(w)
    BY DEF CodexInv, CodexWords
  <2>3. Fine => ~refused
    <3>1. back => r.steering # <<>>
      <4>1. DOMAIN <<>> = {}
        OBVIOUS
      <4> QED
        BY <1>9, <4>1
    <3>2. Fine => ~r.cancelled
      BY DEF Fine, Bad
    <3>3. Fine /\ r.finishing => r.steering = <<>>
      BY DEF CodexInv, CodexTurns, CodexWords, Emptied
    <3> QED
      BY <1>1, <3>1, <3>2, <3>3
  <2>4. \A w \in Word : Owed(w)' => Owed(w)
    <3> TAKE w \in Word
    <3>1. CASE w = c.word
      BY <1>c, <1>5, <3>1 DEF Owed
    <3>2. CASE w # c.word
      BY <1>2, <1>3, <1>6, <1>17, <3>2 DEF Owed
    <3> QED
      BY <3>1, <3>2
  <2>5. ~refused => \A w \in Word : Held(w) => Held(w)'
    <3> SUFFICES ASSUME ~refused, NEW w \in Word, Held(w)
                 PROVE  Held(w)'
      OBVIOUS
    <3>1. CASE w \in read
      BY <1>1, <3>1 DEF Held
    <3>2. CASE Kept(w)
      BY <1>26, <3>2 DEF Held
    <3>3. CASE \E m \in DOMAIN r.steering : r.steering[m].word = w
      <4>1. PICK m \in DOMAIN r.steering : r.steering[m].word = w
        BY <3>3
      <4>2. CASE back /\ r.steering[m].id = n
        <5>1. w = c.word
          BY <1>c, <1>8, <4>1, <4>2 DEF CallIs
        <5> QED
          BY <1>26, <4>2, <5>1 DEF Held
      <4>3. CASE \E k \in DOMAIN r'.steering : r'.steering[k] = r.steering[m]
        BY <4>1, <4>3 DEF Held
      <4> QED
        BY <1>10, <4>2, <4>3
    <3> QED
      BY <3>1, <3>2, <3>3 DEF Held
  <2>6. Fine' /\ Ending' => Emptied'
    <3>1. Fine' /\ Ending' => Emptied
      BY <1>13, <2>1 DEF CodexInv, CodexWords
    <3>2. r.steering = <<>> => ~back
      <4>1. DOMAIN <<>> = {}
        OBVIOUS
      <4> QED
        BY <1>9, <4>1
    <3> QED
      BY <1>2, <1>10, <1>15, <3>1, <3>2 DEF Emptied
  <2> QED
    BY <2>1, <2>2, <2>3, <2>4, <2>5, <2>6 DEF CodexWords
<1> QED
  BY <1>1, <1>18, <1>21, <1>22, <1>23, <1>24, <1>25, <1>28, <1>29 DEF CodexInv

LEMMA CodexDrives ==
  ASSUME ProcInv, CodexInv, CodexDriver
  PROVE  ProcInv' /\ CodexInv' /\ agent' = agent
BY CodexOpens, CodexCallsStart, CodexStarted, CodexGone, CodexSteersWaiting, CodexTurnEnds, CodexOver, CodexDecides,
   CodexFinishes, CodexKilled, CodexReturnsResult DEF CodexDriver

-----------------------------------------------------------------------------
(* Every reachable state                                                    *)

LEMMA AgentInvInit ==
  ASSUME Init
  PROVE  AgentInv
<1>1. CASE ClaudeInit
  BY <1>1, ClaudeStarts DEF Init, AgentInv, ClaudeInit
<1>2. CASE CodexInit
  BY <1>2, CodexBegins DEF Init, AgentInv, CodexInit
<1>3. CASE PiInit
  BY <1>3, PiStarts DEF Init, AgentInv, PiInit
<1> QED
  BY <1>1, <1>2, <1>3 DEF Init

LEMMA AgentInvStep ==
  ASSUME AgentInv, [Next]_vars
  PROVE  AgentInv'
<1> USE DEF AgentInv
<1>1. CASE ClaudeNext
  <2>1. agent = "claude" /\ ProcInv /\ ClaudeInv
    BY <1>1 DEF ClaudeNext
  <2>2. ProcInv' /\ ClaudeInv' /\ agent' = agent
    BY <1>1, <2>1, ClaudeProgram, ClaudeReads, ClaudeStopped, ClaudeSaid DEF ClaudeNext
  <2> QED
    BY <2>1, <2>2
<1>2. CASE CodexNext
  <2>1. agent = "codex" /\ ProcInv /\ CodexInv
    BY <1>2 DEF CodexNext
  <2>2. ProcInv' /\ CodexInv' /\ agent' = agent
    <3>1. CASE CodexCli \/ CodexReader \/ CodexDriver \/ CodexCancel
      BY <2>1, <3>1, CodexPrograms, CodexReads, CodexDrives, CodexCancelled
    <3>2. CASE \E w \in Word : CodexSteer(w)
      BY <2>1, <3>2, CodexSaid
    <3>3. CASE \E n \in DOMAIN r.calls, gone \in BOOLEAN : SteerReturns(n, gone)
      BY <2>1, <3>3, CodexReturns
    <3> QED
      BY <1>2, <3>1, <3>2, <3>3 DEF CodexNext
  <2> QED
    BY <2>1, <2>2
<1>3. CASE PiNext
  <2>1. agent = "pi" /\ ProcInv /\ PiInv
    BY <1>3 DEF PiNext
  <2>2. ProcInv' /\ PiInv' /\ agent' = agent
    BY <1>3, <2>1, PiProgram, PiReads, PiSaid DEF PiNext
  <2> QED
    BY <2>1, <2>2
<1>4. CASE Process
  <2>1. ProcInv' /\ agent' = agent
    BY <1>4, ProcessSteps
  <2>2. /\ agent = "claude" => ClaudeInv'
        /\ agent = "codex" => CodexInv'
        /\ agent = "pi" => PiInv'
    BY <1>4, ClaudeProcess, CodexProcess, PiProcess
  <2> QED
    BY <2>1, <2>2
<1>5. CASE UNCHANGED vars
  <2>1. ProcInv' /\ agent' = agent
    BY <1>5 DEF vars, ProcInv
  <2>2. agent = "claude" => ClaudeInv'
    BY <1>5 DEF vars, ClaudeInv, ClaudeTypes, ClaudeCounts, ClaudeWords, InClaude, ResultLines
  <2>3. agent = "pi" => PiInv'
    BY <1>5 DEF vars, PiInv
  <2>4. agent = "codex" => CodexInv'
    <3>1. UNCHANGED <<word, read, cli, out, r, result, pipe, proc>>
      BY <1>5 DEF vars
    <3>2. CodexInv => CodexStops'
      BY <3>1 DEF CodexInv, CodexStops
    <3> HIDE DEF AgentInv
    <3>3. CodexInv => CodexInv'
      BY <3>1, <3>2, RunUnchanged
    <3> QED
      BY <3>3 DEF AgentInv
  <2> QED
    BY <2>1, <2>2, <2>3, <2>4
<1> QED
  BY <1>1, <1>2, <1>3, <1>4, <1>5 DEF Next

\* Where a word is, who answers for it and why a run is stopped, in every state of a run
\* (process.go, claude.go, codex.go, pi.go).
THEOREM AgentRunsHold == Spec => []AgentInv
<1> QED
  BY AgentInvInit, AgentInvStep, PTL DEF Spec

\* Every run is well formed, whatever the agent: what claude has not replayed is what it
\* was sent, what codex is steering into a turn has a call, and the driver's turn is one
\* that has started (claude.go, codex.go).
THEOREM RunsTyped == Spec => []RunsTypeOK
<1>1. ASSUME AgentInv
      PROVE  RunsTypeOK
  <2> USE <1>1 DEF AgentInv
  <2>1. /\ proc.stdin \in {"open", "closed"} /\ proc.state \in {"up", "down", "done"}
        /\ word \in [Word -> {"new", "asking", "accepted", "refused"}] /\ read \subseteq Word
        /\ result \in {"none", "ok", "failed", "cancelled"}
    BY DEF ProcInv, Statuses
  <2>2. ASSUME agent = "claude"
        PROVE  /\ r.results <= r.sent /\ Len(r.unread) <= r.sent
               /\ ToSet(r.unread) \subseteq {Prompt} \cup {w \in Word : word[w] = "accepted"}
    <3>1. ClaudeTypes /\ ClaudeCounts /\ ClaudeWords
      BY <2>2 DEF ClaudeInv
    <3>2. r.results <= r.sent
      <4>1. r.results + Cardinality(ResultLines(out)) + (IF cli.turn THEN 1 ELSE 0) + Len(cli.queue) + Len(pipe) <= r.sent
        BY <3>1 DEF ClaudeCounts
      <4>2. Cardinality(ResultLines(out)) \in Nat
        BY <3>1, FS_CardinalityType DEF ClaudeCounts
      <4>3. Len(cli.queue) \in Nat /\ Len(pipe) \in Nat /\ r.results \in Nat /\ r.sent \in Nat
        BY <3>1, LenProperties DEF ClaudeTypes
      <4>4. \A a, b, c, d, e, f \in Nat : a + b + c + d + e <= f => a <= f
        OBVIOUS
      <4>5. (IF cli.turn THEN 1 ELSE 0) \in Nat
        OBVIOUS
      <4> QED
        BY <4>1, <4>2, <4>3, <4>4, <4>5
    <3>3. Len(r.unread) <= r.sent
      BY <3>1 DEF ClaudeCounts
    <3>4. ASSUME NEW x \in ToSet(r.unread)
          PROVE  x \in {Prompt} \cup {w \in Word : word[w] = "accepted"}
      <4>1. x \in Text
        <5>1. \A n \in DOMAIN r.unread : r.unread[n] \in Text
          BY <3>1, ElementOfSeq DEF ClaudeTypes
        <5> QED
          BY <5>1 DEF ToSet
      <4>2. x = Prompt \/ word[x] = "accepted"
        BY <3>1, <4>1 DEF ClaudeWords
      <4> QED
        BY <4>1, <4>2 DEF Text
    <3> QED
      BY <3>2, <3>3, <3>4
  <2>3. ASSUME agent = "codex"
        PROVE  /\ \A n \in DOMAIN r.steering : r.calls[r.steering[n].id].word = r.steering[n].word
               /\ r.turn \in 0..cli.turns /\ DOMAIN r.ended \subseteq 1..cli.turns
               /\ r.finishing => r.pc \in {"finish", "closing", "done"}
    BY <2>3 DEF CodexInv, CodexCalls, CallIs, CodexTurns, Ending
  <2> QED
    BY <2>1, <2>2, <2>3 DEF RunsTypeOK
<1> QED
  BY <1>1, AgentRunsHold, PTL

\* A codex run in which a tool call was not shown to the guard does not end well: its line
\* is read before the run returns, and fails it (codex.go:530-543).
THEOREM UnguardedRunsFail == Spec => []UnguardedFails
<1>1. ASSUME AgentInv
      PROVE  UnguardedFails
  <2> SUFFICES ASSUME agent = "codex", cli.unhooked, result = "ok"
               PROVE  FALSE
    BY DEF UnguardedFails
  <2>1. ProcInv /\ CodexStops
    BY <1>1 DEF AgentInv, CodexInv
  <2>2. out = <<>> /\ ~r.failure
    BY <2>1 DEF ProcInv, CodexStops
  <2>3. PICK n \in DOMAIN out : out[n].k = "tool"
    BY <2>1, <2>2 DEF CodexStops
  <2>4. DOMAIN <<>> = {}
    OBVIOUS
  <2> QED
    BY <2>2, <2>3, <2>4
<1> QED
  BY <1>1, AgentRunsHold, PTL

-----------------------------------------------------------------------------
(* A run implements SteeredWords                                            *)

Said == [w \in Word |-> IF w \in read THEN "read" ELSE IF word[w] = "asking" THEN "new" ELSE word[w]]
HasStopped == r.cancelled \/ proc.doomed
Ended == IF result = "none" THEN "no"
         ELSE IF result = "ok" /\ ~proc.crashed /\ agent # "pi" THEN "ok" ELSE "failed"

\* A step that says nothing of the words, and may stop the run.
LEMMA QuietStep ==
  ASSUME ProcInv, UNCHANGED <<agent, result>>, Said' = Said,
         r'.cancelled \in BOOLEAN, proc'.doomed \in BOOLEAN, r.cancelled \in BOOLEAN,
         r.cancelled => r'.cancelled, proc.doomed => proc'.doomed,
         result # "none" => proc'.crashed = proc.crashed
  PROVE  [Promised!Next]_(Promised!vars)
<1>1. Ended' = Ended
  BY DEF Ended
<1>2. CASE HasStopped' = TRUE
  <2>1. Promised!Stop
    BY <1>1, <1>2 DEF Promised!Stop, Said, HasStopped, Ended
  <2> QED
    BY <2>1 DEF Promised!Next
<1>3. CASE HasStopped' = FALSE
  <2>1. HasStopped' = HasStopped
    BY <1>3 DEF HasStopped, ProcInv
  <2> QED
    BY <1>1, <2>1 DEF Promised!vars, Said, HasStopped, Ended
<1> QED
  BY <1>2, <1>3 DEF HasStopped

\* Words are taken in: accepted ones, or as yet unanswered ones.
LEMMA ReadStep ==
  ASSUME ProcInv, NEW S \in SUBSET Word, read' = read \cup S, UNCHANGED <<agent, word>>,
         result = "none", result' = "none", r'.cancelled = r.cancelled, proc'.doomed = proc.doomed,
         \A w \in S : word[w] # "refused"
  PROVE  Promised!Next
<1>1. Ended = "no" /\ Ended' = Ended /\ HasStopped' = HasStopped
  BY DEF Ended, HasStopped
<1> DEFINE taken == S \ read
<1>2. taken \in SUBSET {w \in Word : Said[w] \in {"new", "accepted"}}
  BY DEF Said, ProcInv, Statuses
<1>3. Said' = [w \in Word |-> IF w \in taken THEN "read" ELSE Said[w]]
  BY DEF Said
<1> HIDE DEF taken
<1>4. Promised!ReadAll
  BY <1>1, <1>2, <1>3 DEF Promised!ReadAll, Said, HasStopped, Ended
<1> QED
  BY <1>4 DEF Promised!Next

\* Words that were refused are taken in of a run that is being stopped.
LEMMA ReadRefused ==
  ASSUME ProcInv, NEW w \in Word, read' = read \cup {w}, UNCHANGED <<agent, word>>,
         result = "none", result' = "none", r'.cancelled = r.cancelled, proc'.doomed = proc.doomed,
         word[w] = "refused", r.cancelled
  PROVE  [Promised!Next]_(Promised!vars)
<1>1. Ended = "no" /\ Ended' = Ended /\ HasStopped' = HasStopped /\ HasStopped
  BY DEF Ended, HasStopped
<1>2. CASE w \in read
  <2>1. Said' = Said
    BY <1>2 DEF Said
  <2> QED
    BY <1>1, <2>1 DEF Promised!vars, Said, HasStopped, Ended
<1>3. CASE w \notin read
  <2>1. Said[w] = "refused" /\ Said' = [Said EXCEPT ![w] = "read"]
    BY <1>3 DEF Said
  <2>2. Promised!Read(w)
    BY <1>1, <2>1 DEF Promised!Read, Promised!Becomes, Said, HasStopped, Ended
  <2> QED
    BY <2>2 DEF Promised!Next
<1> QED
  BY <1>2, <1>3

\* Steer answers.
LEMMA AnswerStep ==
  ASSUME ProcInv, NEW w \in Word, NEW how \in {"accepted", "refused"},
         word' = [word EXCEPT ![w] = how], word[w] \in {"new", "asking"},
         UNCHANGED <<agent, read, result>>,
         r'.cancelled = r.cancelled, proc'.doomed = proc.doomed, proc'.crashed = proc.crashed,
         how = "accepted" /\ Ended = "ok" => w \in read
  PROVE  [Promised!Next]_(Promised!vars)
<1>1. Ended' = Ended /\ HasStopped' = HasStopped
  BY DEF Ended, HasStopped
<1>2. CASE w \in read
  <2>1. Said' = Said
    BY <1>2 DEF Said, ProcInv
  <2> QED
    BY <1>1, <2>1 DEF Promised!vars, Said, HasStopped, Ended
<1>3. CASE w \notin read
  <2>1. Said[w] = "new" /\ Said' = [Said EXCEPT ![w] = how]
    BY <1>3 DEF Said, ProcInv
  <2>2. CASE how = "accepted"
    <3>1. Promised!Accept(w)
      BY <1>1, <1>3, <2>1, <2>2 DEF Promised!Accept, Promised!Becomes, Said, HasStopped, Ended
    <3> QED
      BY <3>1 DEF Promised!Next
  <2>3. CASE how = "refused"
    <3>1. Promised!Refuse(w)
      BY <1>1, <2>1, <2>3 DEF Promised!Refuse, Promised!Becomes, Said, HasStopped, Ended
    <3> QED
      BY <3>1 DEF Promised!Next
  <2> QED
    BY <2>2, <2>3
<1> QED
  BY <1>2, <1>3

\* The run returns.
LEMMA EndStep ==
  ASSUME ProcInv, UNCHANGED <<agent, proc, word, read>>, result = "none", result' \in {"ok", "failed", "cancelled"},
         r'.cancelled = r.cancelled,
         Ended' = "ok" => \A w \in Word : word[w] = "accepted" => w \in read
  PROVE  Promised!Next
<1>1. Ended = "no" /\ Ended' \in {"ok", "failed"} /\ HasStopped' = HasStopped /\ Said' = Said
  BY DEF Ended, HasStopped, Said
<1>2. Ended' = "ok" => \A w \in Word : Said[w] # "accepted"
  BY DEF Said, ProcInv
<1>3. PICK how \in {"ok", "failed"} : how = Ended'
  BY <1>1
<1>4. Promised!End(how)
  BY <1>1, <1>2, <1>3 DEF Promised!End, Said, HasStopped, Ended
<1> QED
  BY <1>4 DEF Promised!Next

LEMMA RunIsRead ==
  ASSUME AgentInv
  PROVE  r.cancelled \in BOOLEAN /\ "cancelled" \in DOMAIN r
BY DEF AgentInv, ClaudeInv, ClaudeTypes, CodexInv, CodexTypes, PiInv

LEMMA ProcessImplements ==
  ASSUME AgentInv, AgentInv', Process
  PROVE  [Promised!Next]_(Promised!vars)
<1>1. agent' = agent /\ UNCHANGED <<r, word, read, result>> /\ ProcInv /\ ProcInv' /\ r.cancelled \in BOOLEAN
  BY ProcessSteps, RunIsRead DEF AgentInv
<1>2. (proc.doomed => proc'.doomed) /\ (proc.state # "up" => proc'.crashed = proc.crashed)
  BY <1>1 DEF Process, Dies, TimesOut, Drained, ProcInv
<1>3. result # "none" => proc.state # "up"
  BY <1>1 DEF ProcInv
<1>4. Said' = Said /\ proc'.doomed \in BOOLEAN
  BY <1>1 DEF Said, ProcInv
<1> QED
  BY <1>1, <1>2, <1>3, <1>4, QuietStep

\* claude: a replay takes accepted messages in, and a run that ends well has no other.
LEMMA ClaudeImplements ==
  ASSUME AgentInv, AgentInv', ClaudeNext
  PROVE  [Promised!Next]_(Promised!vars)
<1>1. agent = "claude" /\ ProcInv /\ ClaudeInv
  BY DEF AgentInv, ClaudeNext
<1>2. agent' = agent /\ ProcInv' /\ r.cancelled \in BOOLEAN /\ "cancelled" \in DOMAIN r /\ r'.cancelled \in BOOLEAN
  <2>1. agent' = agent
    BY <1>1, ClaudeProgram, ClaudeReads, ClaudeStopped, ClaudeSaid DEF ClaudeNext
  <2>2. r'.cancelled \in BOOLEAN
    BY <1>1, <2>1 DEF AgentInv, ClaudeInv, ClaudeTypes
  <2> QED
    BY <2>1, <2>2, RunIsRead DEF AgentInv
<1>a. proc.doomed \in BOOLEAN /\ proc'.doomed \in BOOLEAN
  BY <1>1, <1>2 DEF ProcInv
<1>3. CASE Queues \/ Results \/ Exits(~cli.turn /\ cli.queue = <<>>) \/ OnReplay \/ OnResult \/ ClaudeCancel
  <2>1. /\ UNCHANGED <<word, read, result>> /\ (r.cancelled => r'.cancelled) /\ (proc.doomed => proc'.doomed)
        /\ proc'.crashed = proc.crashed
    <3>1. CASE Queues \/ Results
      BY <3>1 DEF Queues, Results
    <3>2. CASE Exits(~cli.turn /\ cli.queue = <<>>)
      BY <1>1, <3>2, ProgramExits
    <3>3. CASE OnReplay
      BY <1>2, <3>3 DEF OnReplay
    <3>4. CASE OnResult
      <4>1. r'.cancelled = r.cancelled /\ UNCHANGED <<word, read, result>> /\ proc' \in {proc, Closed}
        BY <1>2, <3>4 DEF OnResult
      <4> QED
        BY <1>1, <4>1 DEF Closed, ProcInv
    <3>5. CASE ClaudeCancel
      <4>1. r'.cancelled = TRUE /\ UNCHANGED <<word, read, result>> /\ proc' = [Closed EXCEPT !.doomed = TRUE, !.stops = @ + 1]
        BY <1>2, <3>5 DEF ClaudeCancel
      <4> QED
        BY <1>1, <4>1 DEF Closed, ProcInv
    <3> QED
      BY <1>3, <3>1, <3>2, <3>3, <3>4, <3>5
  <2>2. Said' = Said
    BY <2>1 DEF Said
  <2> QED
    BY <1>1, <1>2, <1>a, <2>1, <2>2, QuietStep
<1>4. ASSUME NEW n \in 1..Cardinality(Word) + 1, NEW plain \in BOOLEAN, NEW into \in BOOLEAN, Takes(n, plain, into)
      PROVE  Promised!Next
  <2>1. /\ proc.state = "up" /\ n \in 1..Len(cli.queue) /\ UNCHANGED <<agent, proc, r, word, result>>
        /\ read' = read \cup (ToSet(SubSeq(cli.queue, 1, n)) \ {Prompt})
    BY <1>4 DEF Takes
  <2>2. ToSet(SubSeq(cli.queue, 1, n)) \subseteq ToSet(cli.queue) /\ ToSet(cli.queue) \subseteq Text
    <3>1. cli.queue \in Seq(Text)
      BY <1>1 DEF ClaudeInv, ClaudeTypes
    <3>2. \A k \in DOMAIN cli.queue : cli.queue[k] \in Text
      BY <3>1, ElementOfSeq
    <3>3. ToSet(cli.queue) \subseteq Text
      BY <3>2 DEF ToSet
    <3> QED
      BY <2>1, <3>1, <3>3, Halves
  <2>3. PICK S : S = ToSet(SubSeq(cli.queue, 1, n)) \ {Prompt}
    OBVIOUS
  <2>4. S \in SUBSET Word /\ \A w \in S : word[w] # "refused"
    <3>1. \A w \in S : InClaude(w) /\ w \in Text /\ w # Prompt
      BY <2>2, <2>3 DEF InClaude
    <3>2. \A w \in S : word[w] = "accepted"
      BY <1>1, <3>1 DEF ClaudeInv, ClaudeWords
    <3> QED
      BY <3>1, <3>2 DEF Text
  <2>5. result = "none"
    BY <1>1, <2>1 DEF ProcInv
  <2> QED
    BY <1>1, <2>1, <2>3, <2>4, <2>5, ReadStep
<1>5. CASE ClaudeWaits
  <2>1. /\ UNCHANGED <<agent, proc, word, read, r>> /\ proc.state = "done" /\ result = "none"
        /\ result' \in {"ok", "failed", "cancelled"}
        /\ result' = "ok" => ~r.cancelled /\ ~proc.timedOut
    BY <1>5 DEF ClaudeWaits
  <2>2. Ended' = "ok" => \A w \in Word : word[w] = "accepted" => w \in read
    <3>1. Ended' = "ok" => ~proc.crashed /\ ~proc.doomed
      BY <1>1, <2>1 DEF Ended, ClaudeInv, ClaudeWords
    <3> QED
      BY <1>1, <2>1, <3>1 DEF ClaudeInv, ClaudeWords
  <2> QED
    BY <1>1, <2>1, <2>2, EndStep
<1>6. ASSUME NEW w \in Word, ClaudeSteer(w)
      PROVE  [Promised!Next]_(Promised!vars)
  <2>1. /\ word[w] = "new" /\ UNCHANGED <<agent, proc, read, result>>
        /\ \/ Answered(w, "refused") /\ r' = r
           \/ Answered(w, "accepted") /\ CanWrite /\ r'.cancelled = r.cancelled
    BY <1>2, <1>6 DEF ClaudeSteer
  <2>2. CanWrite => Ended # "ok"
    BY <1>1 DEF CanWrite, Ended, ProcInv
  <2>3. PICK how \in {"accepted", "refused"} :
          /\ word' = [word EXCEPT ![w] = how] /\ (how = "accepted" => CanWrite) /\ r'.cancelled = r.cancelled
    BY <2>1 DEF Answered
  <2> QED
    BY <1>1, <2>1, <2>2, <2>3, AnswerStep
<1> QED
  BY <1>3, <1>4, <1>5, <1>6 DEF ClaudeNext, ClaudeCli, ClaudeReader

\* pi: what it takes in was accepted; what it promises ends there.
LEMMA PiImplements ==
  ASSUME AgentInv, AgentInv', PiNext
  PROVE  [Promised!Next]_(Promised!vars)
<1>1. agent = "pi" /\ ProcInv /\ PiInv
  BY DEF AgentInv, PiNext
<1>2. agent' = agent /\ ProcInv' /\ r.cancelled \in BOOLEAN /\ "cancelled" \in DOMAIN r /\ r'.cancelled \in BOOLEAN
  <2>1. agent' = agent
    BY <1>1, PiProgram, PiReads, PiSaid DEF PiNext
  <2>2. r'.cancelled \in BOOLEAN
    BY <1>1, <2>1 DEF AgentInv, PiInv
  <2> QED
    BY <2>1, <2>2, RunIsRead DEF AgentInv
<1>a. proc.doomed \in BOOLEAN /\ proc'.doomed \in BOOLEAN
  BY <1>1, <1>2 DEF ProcInv
<1>3. CASE \/ PiReadsPrompt \/ PiReadsSteer \/ PiReadsAbort \/ PiReadsGetState \/ PiAnswers \/ PiSettles
           \/ Exits(cli.at = "idle") \/ OnPrompted \/ OnMessageEnd \/ OnSettled \/ OnState \/ PiKills \/ PiCancel
  <2>1. /\ UNCHANGED <<word, read, result>> /\ (r.cancelled => r'.cancelled) /\ (proc.doomed => proc'.doomed)
        /\ proc'.crashed = proc.crashed
    <3>1. CASE PiReadsPrompt \/ PiReadsSteer \/ PiReadsAbort \/ PiReadsGetState \/ PiAnswers \/ PiSettles
      BY <3>1 DEF PiReadsPrompt, PiReadsSteer, PiReadsAbort, PiReadsGetState, PiAnswers, PiSettles
    <3>2. CASE Exits(cli.at = "idle")
      BY <1>1, <3>2, ProgramExits
    <3>3. CASE OnPrompted \/ OnMessageEnd \/ OnSettled \/ OnState
      <4>1. r'.cancelled = r.cancelled /\ UNCHANGED <<word, read, result>> /\ proc' \in {proc, Closed}
        BY <1>2, <3>3 DEF OnPrompted, OnMessageEnd, OnSettled, OnState
      <4> QED
        BY <1>1, <4>1 DEF Closed, ProcInv
    <3>4. CASE PiKills
      <4>1. r' = r /\ UNCHANGED <<word, read, result>> /\ proc' = [Closed EXCEPT !.doomed = TRUE]
        BY <3>4 DEF PiKills
      <4> QED
        BY <1>1, <4>1 DEF Closed, ProcInv
    <3>5. CASE PiCancel
      <4>1. r'.cancelled = TRUE /\ UNCHANGED <<word, read, result>> /\ proc' = [proc EXCEPT !.stops = @ + 1]
        BY <1>2, <3>5 DEF PiCancel
      <4> QED
        BY <1>1, <4>1 DEF ProcInv
    <3> QED
      BY <1>3, <3>1, <3>2, <3>3, <3>4, <3>5
  <2>2. Said' = Said
    BY <2>1 DEF Said
  <2> QED
    BY <1>1, <1>2, <1>a, <2>1, <2>2, QuietStep
<1>4. CASE PiTakes
  <2>1. /\ proc.state = "up" /\ UNCHANGED <<agent, proc, r, word, result>> /\ read' = read \cup ToSet(cli.steers)
    BY <1>4 DEF PiTakes
  <2>2. PICK S : S = ToSet(cli.steers)
    OBVIOUS
  <2>3. S \in SUBSET Word /\ \A w \in S : word[w] # "refused"
    <3>1. cli.steers \in Seq(Word) /\ \A w \in ToSet(cli.steers) : word[w] = "accepted"
      BY <1>1 DEF PiInv
    <3> QED
      BY <2>2, <3>1, WordsAreText
  <2>4. result = "none"
    BY <1>1, <2>1 DEF ProcInv
  <2>5. Promised!Next
    BY <1>1, <2>1, <2>2, <2>3, <2>4, ReadStep
  <2> QED
    BY <2>5
<1>5. CASE PiWaits
  <2>1. /\ UNCHANGED <<agent, proc, word, read, r>> /\ proc.state = "done" /\ result = "none"
        /\ result' \in {"ok", "failed", "cancelled"}
    BY <1>5 DEF PiWaits
  <2>2. Ended' # "ok"
    BY <1>1, <2>1 DEF Ended
  <2>3. Promised!Next
    BY <1>1, <2>1, <2>2, EndStep
  <2> QED
    BY <2>3
<1>6. ASSUME NEW w \in Word, PiSteer(w)
      PROVE  [Promised!Next]_(Promised!vars)
  <2>1. /\ word[w] = "new" /\ UNCHANGED <<agent, proc, r, read, result>>
        /\ Answered(w, "refused") \/ Answered(w, "accepted")
    BY <1>6 DEF PiSteer
  <2>2. Ended # "ok"
    BY <1>1 DEF Ended
  <2>3. PICK how \in {"accepted", "refused"} : word' = [word EXCEPT ![w] = how]
    BY <2>1 DEF Answered
  <2> QED
    BY <1>1, <2>1, <2>2, <2>3, AnswerStep
<1> QED
  BY <1>3, <1>4, <1>5, <1>6 DEF PiNext, PiCli, PiReader

LEMMA CodexDriverKeeps ==
  ASSUME ProcInv, CodexInv, CodexDriver
  PROVE  /\ UNCHANGED <<agent, word, read>> /\ r'.cancelled = r.cancelled
         /\ (proc.doomed => proc'.doomed) /\ proc'.crashed = proc.crashed
         /\ result' = result \/ CodexResult
<1>a. DOMAIN r = {"pc", "input", "turn", "state", "ended", "started", "token", "queue", "waiting", "steering",
                  "calls", "cancelled", "finishing", "failure"}
  BY DEF CodexInv, CodexTypes
<1>1. CASE Opens \/ CallsStart
  BY <1>a, <1>1 DEF Opens, CallsStart, To, Fails
<1>2. CASE Started \/ Gone \/ TurnEnds
  BY <1>a, <1>2 DEF Started, Gone, Fails, TurnEnds
<1>3. CASE SteersWaiting
  <2>1. UNCHANGED <<agent, proc, word, read, result>>
    BY <1>3 DEF SteersWaiting
  <2>2. r'.cancelled = r.cancelled
    BY <1>a, <1>3 DEF SteersWaiting, To, Calling
  <2> QED
    BY <2>1, <2>2
<1>4. CASE Over
  BY <1>a, <1>4 DEF Over
<1>5. CASE Decides
  BY <1>a, <1>5 DEF Decides
<1>6. CASE Finishes
  BY <1>a, <1>6 DEF Finishes, To, Closed, ProcInv
<1>7. CASE Lingers \/ CodexKills
  BY <1>a, <1>7 DEF Lingers, CodexKills, Doomed, ProcInv
<1>8. CASE CodexResult
  BY <1>a, <1>8 DEF CodexResult
<1> QED
  BY <1>1, <1>2, <1>3, <1>4, <1>5, <1>6, <1>7, <1>8 DEF CodexDriver

\* A codex run that is ending well owes nothing.
LEMMA NothingKept ==
  ASSUME CodexInv, Fine, Ending
  PROVE  r.finishing /\ \A w \in Word : Owed(w) => w \in read
<1>1. r.pc # "start"
  BY DEF Ending
<1>2. Emptied /\ \A w \in Word : Owed(w) => Held(w)
  BY DEF CodexInv, CodexWords
<1>3. ToSet(r.queue) = {} /\ ToSet(r.waiting) = {} /\ DOMAIN r.steering = {}
  BY <1>2 DEF Emptied, ToSet
<1>4. \A w : ~Started1(w)
  BY <1>2 DEF Emptied, StartLines, Marked, Started1
<1> QED
  BY <1>1, <1>2, <1>3, <1>4 DEF Emptied, Held, Kept

LEMMA NothingOwed ==
  ASSUME ProcInv, CodexInv, result = "ok", ~proc.crashed
  PROVE  r.finishing /\ \A w \in Word : Owed(w) => w \in read
<1>1. Fine /\ Ending
  BY DEF CodexInv, CodexStops, Fine, Bad, Ending
<1> QED
  BY <1>1, NothingKept

\* codex: what a turn starts with or takes in was not refused, unless the run is being
\* stopped, and a run that ends well has nothing in its queues.
LEMMA CodexImplements ==
  ASSUME AgentInv, AgentInv', CodexNext
  PROVE  [Promised!Next]_(Promised!vars)
<1>1. agent = "codex" /\ ProcInv /\ CodexInv
  BY DEF AgentInv, CodexNext
<1>2. agent' = agent /\ ProcInv' /\ CodexInv' /\ r.cancelled \in BOOLEAN /\ "cancelled" \in DOMAIN r /\ r'.cancelled \in BOOLEAN
  <2>1. agent' = agent
    <3>1. CASE CodexCli \/ CodexReader \/ CodexDriver \/ CodexCancel
      BY <1>1, <3>1, CodexPrograms, CodexReads, CodexDrives, CodexCancelled
    <3>2. CASE \E w \in Word : CodexSteer(w)
      BY <1>1, <3>2, CodexSaid
    <3>3. CASE \E n \in DOMAIN r.calls, gone \in BOOLEAN : SteerReturns(n, gone)
      BY <1>1, <3>3, CodexReturns
    <3> QED
      BY <3>1, <3>2, <3>3 DEF CodexNext
  <2>2. CodexInv' /\ ProcInv'
    BY <1>1, <2>1 DEF AgentInv
  <2>3. r'.cancelled \in BOOLEAN
    BY <2>2 DEF CodexInv, CodexTypes
  <2> QED
    BY <2>1, <2>2, <2>3, RunIsRead
<1>a. /\ proc.doomed \in BOOLEAN /\ proc'.doomed \in BOOLEAN
      /\ DOMAIN r = {"pc", "input", "turn", "state", "ended", "started", "token", "queue", "waiting", "steering",
                     "calls", "cancelled", "finishing", "failure"}
  BY <1>1, <1>2 DEF ProcInv, CodexInv, CodexTypes
<1>q. ASSUME UNCHANGED <<word, read, result>>, r.cancelled => r'.cancelled, proc.doomed => proc'.doomed,
             proc'.crashed = proc.crashed
      PROVE  [Promised!Next]_(Promised!vars)
  <2>1. Said' = Said
    BY <1>q DEF Said
  <2> QED
    BY <1>1, <1>2, <1>a, <1>q, <2>1, QuietStep
<1>3. CASE AnswersStart \/ TakesSteer \/ Interrupts \/ RunsTool \/ CompletesTurn
  <2>1. UNCHANGED <<word, read, result, r, proc>>
    BY <1>3 DEF AnswersStart, TakesSteer, Interrupts, RunsTool, CompletesTurn
  <2> QED
    BY <1>q, <2>1
<1>4. CASE Exits(cli.turn = 0 /\ cli.owes = {})
  <2>1. /\ UNCHANGED <<word, read, result, r>> /\ proc'.doomed = proc.doomed /\ proc'.crashed = proc.crashed
    BY <1>1, <1>4, ProgramExits
  <2> QED
    BY <1>q, <2>1
<1>5. CASE CodexReader
  <2>1. UNCHANGED <<word, read, result>> /\ r'.cancelled = r.cancelled /\ (proc' = proc \/ proc' = Doomed)
    BY <1>a, <1>5 DEF CodexReader, OnStarted, OnSteered, OnUserMessage, OnTool, OnCompleted
  <2>2. (proc.doomed => proc'.doomed) /\ proc'.crashed = proc.crashed
    BY <1>1, <2>1 DEF Doomed, ProcInv
  <2> QED
    BY <1>q, <2>1, <2>2
<1>6. CASE CodexCancel
  <2>1. UNCHANGED <<word, read, result>> /\ r'.cancelled = TRUE /\ proc' = [proc EXCEPT !.stops = @ + 1]
    BY <1>a, <1>6 DEF CodexCancel
  <2>2. (proc.doomed => proc'.doomed) /\ proc'.crashed = proc.crashed
    BY <1>1, <2>1 DEF ProcInv
  <2> QED
    BY <1>q, <2>1, <2>2
<1>7. CASE CodexDriver
  <2>1. /\ UNCHANGED <<agent, word, read>> /\ r'.cancelled = r.cancelled
        /\ (proc.doomed => proc'.doomed) /\ proc'.crashed = proc.crashed
        /\ result' = result \/ CodexResult
    BY <1>1, <1>7, CodexDriverKeeps
  <2>2. CASE result' = result
    BY <1>q, <2>1, <2>2
  <2>3. CASE CodexResult
    <3>1. /\ UNCHANGED <<proc, word, read>> /\ r.pc = "closing" /\ result' \in {"ok", "failed", "cancelled"}
      BY <2>3 DEF CodexResult
    <3>2. result = "none"
      BY <1>1, <3>1 DEF CodexInv, CodexStops
    <3>3. Ended' = "ok" => result' = "ok" /\ ~proc'.crashed
      BY <1>1, <1>2, <3>1 DEF Ended
    <3>4. result' = "ok" /\ ~proc'.crashed => \A w \in Word : word'[w] = "accepted" => w \in read'
      <4> SUFFICES ASSUME result' = "ok", ~proc'.crashed
                   PROVE  \A w \in Word : word'[w] = "accepted" => w \in read'
        OBVIOUS
      <4>1. ~r.cancelled /\ ~proc.timedOut /\ ~r.failure /\ r.state = "completed" /\ ~proc.crashed
        BY <2>3, <3>1 DEF CodexResult
      <4>2. Fine /\ Ending
        BY <3>1, <4>1 DEF Fine, Bad, Ending
      <4>3. \A w \in Word : Owed(w) => w \in read
        BY <1>1, <4>2, NothingKept
      <4> QED
        BY <3>1, <4>3 DEF Owed
    <3>5. Promised!Next
      BY <1>1, <1>2, <2>1, <3>1, <3>2, <3>3, <3>4, EndStep
    <3> QED
      BY <3>5
  <2> QED
    BY <2>1, <2>2, <2>3
<1>8. CASE StartsTurn
  <2>1. /\ proc.state = "up" /\ UNCHANGED <<agent, proc, r, word, result>> /\ pipe # <<>>
        /\ Head(pipe).k = "turn/start" /\ read' = read \cup (ToSet(Head(pipe).words) \ {Prompt})
    BY <1>8 DEF StartsTurn, Reads
  <2>2. PICK S : S = ToSet(Head(pipe).words) \ {Prompt}
    OBVIOUS
  <2>3. 1 \in DOMAIN pipe /\ Head(pipe) = pipe[1] /\ Head(pipe) \in CodexIn
    <3>1. pipe \in Seq(CodexIn)
      BY <1>1 DEF CodexInv, CodexTypes
    <3> QED
      BY <2>1, <3>1, Behead
  <2>4. S \in SUBSET Word
    <3>1. Head(pipe).words \in Seq(Text)
      BY <2>1, <2>3 DEF CodexIn
    <3>2. PICK s \in Seq(Text) : s = Head(pipe).words
      BY <3>1
    <3>3. \A n \in DOMAIN s : s[n] \in Text
      BY ElementOfSeq
    <3>4. ToSet(s) \subseteq Text
      BY <3>3 DEF ToSet
    <3> QED
      BY <2>2, <3>2, <3>4 DEF Text
  <2>5. \A w \in S : word[w] # "refused"
    <3>1. \A w \in S : Driven(w)
      BY <2>1, <2>2, <2>3 DEF Driven, Kept, Started1
    <3> QED
      BY <1>1, <2>4, <3>1 DEF CodexInv, CodexCharge
  <2>6. result = "none"
    BY <1>1, <2>1 DEF ProcInv
  <2>7. Promised!Next
    BY <1>1, <2>1, <2>2, <2>4, <2>5, <2>6, ReadStep
  <2> QED
    BY <2>7
<1>9. CASE TakesIn
  <2>1. /\ proc.state = "up" /\ UNCHANGED <<agent, proc, r, word, result>> /\ cli.steers # <<>>
        /\ read' = read \cup {Head(cli.steers).word}
    BY <1>9 DEF TakesIn
  <2>2. 1 \in DOMAIN cli.steers /\ Head(cli.steers) = cli.steers[1] /\ Head(cli.steers) \in Steering1
    <3>1. cli.steers \in Seq(Steering1)
      BY <1>1 DEF CodexInv, CodexTypes
    <3> QED
      BY <2>1, <3>1, Behead
  <2>3. PICK w \in Word : w = Head(cli.steers).word
    BY <2>2 DEF Steering1
  <2>4. word[w] = "refused" => r.cancelled
    BY <1>1, <1>2, <2>1, <2>2, <2>3 DEF CodexInv, CodexCharge
  <2>5. result = "none" /\ result' = "none"
    BY <1>1, <2>1 DEF ProcInv
  <2>6. CASE word[w] = "refused"
    BY <1>1, <2>1, <2>3, <2>4, <2>5, <2>6, ReadRefused
  <2>7. CASE word[w] # "refused"
    <3>1. PICK S \in SUBSET Word : S = {w}
      OBVIOUS
    <3>2. read' = read \cup S /\ \A v \in S : word[v] # "refused"
      BY <2>1, <2>3, <2>7, <3>1
    <3>3. Promised!Next
      BY <1>1, <2>1, <2>5, <3>2, ReadStep
    <3> QED
      BY <3>3
  <2> QED
    BY <2>6, <2>7
<1>10. ASSUME NEW w \in Word, CodexSteer(w)
       PROVE  [Promised!Next]_(Promised!vars)
  <2>1. word[w] = "new" /\ UNCHANGED <<agent, proc, read, result>> /\ r'.cancelled = r.cancelled
    <3>1. r'.cancelled = r.cancelled
      BY <1>a, <1>10 DEF CodexSteer, Calling
    <3> QED
      BY <1>10, <3>1 DEF CodexSteer
  <2>2. \/ Answered(w, "refused") \/ (Answered(w, "accepted") /\ ~r.finishing) \/ Answered(w, "asking")
    BY <1>10 DEF CodexSteer
  <2>3. Ended = "ok" => r.finishing
    <3>1. Ended = "ok" => result = "ok" /\ ~proc.crashed
      BY DEF Ended
    <3> QED
      BY <1>1, <3>1, NothingOwed
  <2>4. CASE Answered(w, "asking")
    <3>1. Said' = Said
      BY <1>1, <2>1, <2>4, AnswerTypes DEF Said, Statuses
    <3> QED
      BY <1>1, <1>2, <1>a, <2>1, <3>1, QuietStep
  <2>5. CASE Answered(w, "refused") \/ (Answered(w, "accepted") /\ ~r.finishing)
    <3>1. PICK how \in {"accepted", "refused"} : word' = [word EXCEPT ![w] = how] /\ (how = "accepted" => ~r.finishing)
      BY <2>5 DEF Answered
    <3> QED
      BY <1>1, <2>1, <2>3, <3>1, AnswerStep
  <2> QED
    BY <2>2, <2>4, <2>5
<1>11. ASSUME NEW n \in DOMAIN r.calls, NEW gone \in BOOLEAN, SteerReturns(n, gone)
       PROVE  [Promised!Next]_(Promised!vars)
  <2>1. /\ UNCHANGED <<agent, read, result>> /\ r.calls[n].at # "over"
        /\ proc' = proc \/ proc' = [proc EXCEPT !.stops = @ + 1]
        /\ \/ word' = word
           \/ /\ r.calls[n].from = "person"
              /\ \E how \in {"accepted", "refused"} : word' = [word EXCEPT ![r.calls[n].word] = how]
    BY <1>11 DEF SteerReturns
  <2>2. r'.cancelled = r.cancelled
    BY <1>a, <1>11 DEF SteerReturns
  <2>3. proc'.doomed = proc.doomed /\ proc'.crashed = proc.crashed
    BY <1>1, <2>1 DEF ProcInv
  <2>4. CASE word' = word
    BY <1>q, <2>1, <2>2, <2>3, <2>4
  <2>5. CASE r.calls[n].from = "person" /\ \E how \in {"accepted", "refused"} : word' = [word EXCEPT ![r.calls[n].word] = how]
    <3>1. PICK w \in Word : w = r.calls[n].word
      <4>1. r.calls \in Seq(Calls)
        BY <1>1 DEF CodexInv, CodexTypes
      <4>2. r.calls[n] \in Calls
        BY <4>1, ElementOfSeq
      <4> QED
        BY <4>2 DEF Calls
    <3>2. PICK how \in {"accepted", "refused"} : word' = [word EXCEPT ![w] = how]
      BY <2>5, <3>1
    <3>3. Alive(n) /\ Owed(w) /\ word[w] = "asking"
      BY <1>1, <2>1, <2>5, <3>1 DEF Alive, Owed, Personal, CodexInv, CodexCalls
    <3>4. Ended = "ok" => w \in read
      <4>1. Ended = "ok" => result = "ok" /\ ~proc.crashed
        BY DEF Ended
      <4> QED
        BY <1>1, <3>3, <4>1, NothingOwed
    <3> QED
      BY <1>1, <2>1, <2>2, <2>3, <3>2, <3>3, <3>4, AnswerStep
  <2> QED
    BY <2>1, <2>4, <2>5
<1> QED
  BY <1>3, <1>4, <1>5, <1>6, <1>7, <1>8, <1>9, <1>10, <1>11 DEF CodexNext, CodexCli

\* Steer answers truly, of every agent: a run implements SteeredWords, so that words it
\* refused are not read unless it is being stopped, and a run that ends well has read all
\* it accepted (claude.go: Steer; codex.go: Steer, steer, runTurn; pi.go: Steer).
THEOREM SteersTruly == Spec => SteeringKept
<1>1. Init => Promised!Init
  <2> SUFFICES ASSUME Init PROVE Promised!Init
    OBVIOUS
  <2>1. Said = [w \in Word |-> "new"] /\ Ended = "no" /\ proc.doomed = FALSE
    BY DEF Init, ProcInit, Said, Ended
  <2>2. r.cancelled = FALSE
    <3>1. CASE ClaudeInit
      BY <3>1 DEF ClaudeInit
    <3>2. CASE CodexInit
      BY <3>2 DEF CodexInit
    <3>3. CASE PiInit
      BY <3>3 DEF PiInit
    <3> QED
      BY <3>1, <3>2, <3>3 DEF Init
  <2> QED
    BY <2>1, <2>2 DEF Promised!Init, Said, Ended
<1>2. AgentInv /\ AgentInv' /\ [Next]_vars => [Promised!Next]_(Promised!vars)
  <2> SUFFICES ASSUME AgentInv, AgentInv', [Next]_vars
               PROVE  [Promised!Next]_(Promised!vars)
    OBVIOUS
  <2>1. CASE Next
    BY <2>1, ClaudeImplements, CodexImplements, PiImplements, ProcessImplements DEF Next
  <2>2. CASE UNCHANGED vars
    BY <2>2 DEF vars, Promised!vars
  <2> QED
    BY <2>1, <2>2
<1> QED
  BY <1>1, <1>2, AgentRunsHold, PTL DEF Spec, SteeringKept, Promised!Spec
=============================================================================
