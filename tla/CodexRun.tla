------------------------------- MODULE CodexRun -------------------------------
(***************************************************************************)
(* codex app-server, internal/agentcli/codex.go: requests and answers over  *)
(* stdio, one thread per run and as many turns as the person's words need.   *)
(* One goroutine drives the turns; Steer is called by others meanwhile.      *)
(***************************************************************************)
EXTENDS AgentRun

CodexInit ==
  /\ agent = "codex"
  /\ pipe = <<>>
  /\ cli = [turn |-> 0, turns |-> 0, steers |-> <<>>, owes |-> {}, unhooked |-> FALSE, interrupted |-> FALSE]
  /\ r = [pc |-> "open", input |-> <<Prompt>>, turn |-> 0, state |-> "", ended |-> <<>>, started |-> 0,
          token |-> FALSE, queue |-> <<>>, waiting |-> <<>>, steering |-> <<>>, calls |-> <<>>,
          cancelled |-> FALSE, finishing |-> FALSE, failure |-> FALSE]

-----------------------------------------------------------------------------
(* The program *)

StartsTurn ==
  /\ Reads("turn/start")
  /\ cli' = [cli EXCEPT !.turn = cli.turns + 1, !.turns = @ + 1, !.owes = {cli.turns + 1},
                        !.interrupted = FALSE]
  /\ read' = read \cup (ToSet(Head(pipe).words) \ {Prompt})
  /\ UNCHANGED <<agent, proc, out, r, word, result>>

\* The answer to turn/start; what happens in the turn may be told before it.
AnswersStart ==
  /\ proc.state = "up"
  /\ \E t \in cli.owes : Emits([k |-> "started", turn |-> t])
  /\ cli' = [cli EXCEPT !.owes = {}]
  /\ UNCHANGED <<agent, proc, pipe, r, word, read, result>>

\* Words for the turn that runs are kept for its next step; a turn about to end may not
\* take any.
TakesSteer ==
  LET c == Head(pipe) IN
  /\ Reads("turn/steer")
  /\ \E ok \in {c.turn = cli.turn /\ ~cli.interrupted, FALSE} :
       /\ Emits([k |-> "steered", id |-> c.id, ok |-> ok])
       /\ cli' = IF ok THEN [cli EXCEPT !.steers = Append(@, [id |-> c.id, word |-> c.word])] ELSE cli
  /\ UNCHANGED <<agent, proc, r, word, read, result>>

Interrupts ==
  /\ Reads("turn/interrupt")
  /\ cli' = [cli EXCEPT !.interrupted = TRUE]
  /\ UNCHANGED <<agent, proc, out, r, word, read, result>>

TakesIn ==
  /\ proc.state = "up" /\ cli.turn # 0 /\ cli.steers # <<>>
  /\ Emits([k |-> "userMessage", id |-> Head(cli.steers).id])
  /\ read' = read \cup {Head(cli.steers).word}
  /\ cli' = [cli EXCEPT !.steers = Tail(@)]
  /\ UNCHANGED <<agent, proc, pipe, r, word, result>>

\* A tool call the guard was not asked about (bound: one, in the first turn).
RunsTool ==
  /\ proc.state = "up" /\ cli.turn = 1 /\ ~cli.unhooked
  /\ Emits(Line("tool"))
  /\ cli' = [cli EXCEPT !.unhooked = TRUE]
  /\ UNCHANGED <<agent, proc, pipe, r, word, read, result>>

CompletesTurn ==
  /\ proc.state = "up" /\ cli.turn # 0
  /\ \E s \in IF cli.interrupted THEN {"interrupted"} ELSE {"completed", "failed"} :
       Emits([k |-> "completed", turn |-> cli.turn, status |-> s])
  /\ cli' = [cli EXCEPT !.turn = 0, !.steers = <<>>]
  /\ UNCHANGED <<agent, proc, pipe, r, word, read, result>>

-----------------------------------------------------------------------------
(* The lines of the program *)

OnStarted ==
  /\ Next1("started") /\ Handles
  /\ r' = [r EXCEPT !.started = Head(out).turn]
  /\ UNCHANGED <<agent, proc, pipe, cli, word, read, result>>

\* A call that still waits has its answer.
OnSteered ==
  /\ Next1("steered") /\ Handles
  /\ r' = [r EXCEPT !.calls = [n \in DOMAIN @ |->
       IF n = Head(out).id /\ @[n].at = "sent" THEN [@[n] EXCEPT !.at = IF Head(out).ok THEN "ok" ELSE "error"]
       ELSE @[n]]]
  /\ UNCHANGED <<agent, proc, pipe, cli, word, read, result>>

\* What is being steered without the words of one call, if they are among it.
Without(id) ==
  LET at == {n \in DOMAIN r.steering : r.steering[n].id = id}
  IN  IF at = {} THEN r.steering ELSE RemoveAt(r.steering, CHOOSE n \in at : TRUE)

\* steerTakenIn
OnUserMessage ==
  /\ Next1("userMessage") /\ Handles
  /\ r' = [r EXCEPT !.steering = Without(Head(out).id)]
  /\ UNCHANGED <<agent, proc, pipe, cli, word, read, result>>

\* Mutant: the program is killed and the run not failed.
OnToolKilled ==
  /\ Next1("tool") /\ Handles
  /\ proc' = Doomed
  /\ UNCHANGED <<agent, pipe, cli, r, word, read, result>>
OnTool ==
  /\ Next1("tool") /\ Handles
  /\ r' = [r EXCEPT !.failure = TRUE] /\ proc' = Doomed
  /\ UNCHANGED <<agent, pipe, cli, word, read, result>>

\* Kept by turn; only the running turn's end wakes the driver.
OnCompleted ==
  LET t == Head(out).turn IN
  /\ Next1("completed") /\ Handles
  /\ r' = [r EXCEPT !.ended = Fields(@, [n \in {t} |-> Head(out).status]),
                    !.failure = @ \/ Head(out).status = "failed",
                    !.token = @ \/ t = r.turn]
  /\ UNCHANGED <<agent, proc, pipe, cli, word, read, result>>

-----------------------------------------------------------------------------
(* drive and runTurn *)

To(pc) == r' = [r EXCEPT !.pc = pc]
Fails(failure) == r' = [r EXCEPT !.pc = "finish", !.failure = @ \/ failure]

\* open: the handshake, which may be refused.
Opens ==
  /\ r.pc = "open"
  /\ (CanWrite /\ To("start")) \/ \E said \in BOOLEAN : Fails(said)
  /\ UNCHANGED <<agent, proc, pipe, out, cli, word, read, result>>

CallsStart ==
  /\ r.pc = "start"
  /\ IF CanWrite
     THEN To("starting") /\ pipe' = Append(pipe, [k |-> "turn/start", words |-> r.input])
     ELSE Fails(TRUE) /\ UNCHANGED pipe
  /\ UNCHANGED <<agent, proc, out, cli, word, read, result>>

\* The turn has an id; what was said while it was being started is to go into it.
Started ==
  /\ r.pc = "starting" /\ r.started # 0
  /\ r' = [r EXCEPT !.pc = IF r.started \in DOMAIN r.ended THEN "over" ELSE "words",
                    !.turn = r.started, !.state = "", !.started = 0, !.waiting = r.queue, !.queue = <<>>]
  /\ UNCHANGED <<agent, proc, pipe, out, cli, word, read, result>>

\* The program is gone.
Gone ==
  /\ r.pc \in {"starting", "turn"} /\ proc.state = "done"
  /\ Fails(FALSE)
  /\ UNCHANGED <<agent, proc, pipe, out, cli, word, read, result>>

\* Mutant: what the turn did not take in is forgotten.
OverDropping ==
  /\ r.pc = "over"
  /\ r' = [r EXCEPT !.pc = "decide", !.turn = 0, !.state = r.ended[r.turn],
                    !.queue = r.waiting \o @, !.waiting = <<>>, !.steering = <<>>]
  /\ UNCHANGED <<agent, proc, pipe, out, cli, word, read, result>>
\* The turn is over: what waited for it, if it ended before it was known to have
\* started, and what it did not take in open the next.
Over ==
  /\ r.pc = "over"
  /\ r' = [r EXCEPT !.pc = "decide", !.turn = 0, !.state = r.ended[r.turn],
                    !.queue = r.waiting \o @ \o [n \in DOMAIN r.steering |-> r.steering[n].word],
                    !.waiting = <<>>, !.steering = <<>>]
  /\ UNCHANGED <<agent, proc, pipe, out, cli, word, read, result>>

TurnEnds ==
  /\ r.pc = "turn" /\ r.token
  /\ r' = [r EXCEPT !.pc = "over", !.token = FALSE]
  /\ UNCHANGED <<agent, proc, pipe, out, cli, word, read, result>>

Decides ==
  /\ r.pc = "decide"
  /\ LET more == r.queue # <<>> /\ r.state = "completed" /\ ~(r.cancelled \/ proc.timedOut \/ r.failure)
     IN  r' = IF more THEN [r EXCEPT !.pc = "start", !.input = r.queue, !.queue = <<>>]
                      ELSE [r EXCEPT !.pc = "finish", !.finishing = TRUE]
  /\ UNCHANGED <<agent, proc, pipe, out, cli, word, read, result>>

\* finish closes stdin, and kills a program that does not end of itself.
Finishes ==
  /\ r.pc = "finish"
  /\ To("closing") /\ proc' = Closed
  /\ UNCHANGED <<agent, pipe, out, cli, word, read, result>>
Lingers ==
  /\ r.pc = "closing" /\ ~proc.doomed /\ proc.state # "done"
  /\ proc' = Doomed
  /\ UNCHANGED <<agent, pipe, out, cli, r, word, read, result>>
CodexResult ==
  /\ r.pc = "closing" /\ proc.state = "done"
  /\ r' = [r EXCEPT !.pc = "done", !.finishing = TRUE]
  /\ result' = IF r.cancelled THEN "cancelled"
               ELSE IF ~proc.timedOut /\ ~r.failure /\ r.state = "completed" THEN "ok" ELSE "failed"
  /\ UNCHANGED <<agent, proc, pipe, out, cli, word, read>>

-----------------------------------------------------------------------------
(* Steer *)

\* turn/steer with the words of a caller: "driver" or a Steer of the person's words.
Calling(w, from) ==
  LET id == Len(r.calls) + 1 IN
  /\ r' = [r EXCEPT !.steering = Append(@, [id |-> id, word |-> w]),
                    !.pc = IF from = "driver" THEN "word" ELSE @,
                    !.waiting = IF from = "driver" THEN Tail(@) ELSE @,
                    !.calls = Append(@, [word |-> w, from |-> from, at |-> IF CanWrite THEN "sent" ELSE "error"])]
  /\ pipe' = IF CanWrite THEN Append(pipe, [k |-> "turn/steer", turn |-> r.turn, id |-> id, word |-> w]) ELSE pipe

CodexSteer(w) ==
  /\ word[w] = "new"
  /\ IF r.cancelled \/ r.finishing THEN Answered(w, "refused") /\ UNCHANGED <<r, pipe>>
     ELSE IF r.turn = 0
     THEN Answered(w, "accepted") /\ r' = [r EXCEPT !.queue = Append(@, w)] /\ UNCHANGED pipe
     ELSE Answered(w, "asking") /\ Calling(w, "person")
  /\ UNCHANGED <<agent, proc, out, cli, read, result>>

\* runTurn hands over what waited; after a cancel Steer takes nothing.
SteersWaiting ==
  /\ r.pc = "words"
  /\ IF r.waiting = <<>> THEN To("turn") /\ UNCHANGED pipe
     ELSE IF r.cancelled THEN r' = [r EXCEPT !.waiting = Tail(@)] /\ UNCHANGED pipe
     ELSE Calling(Head(r.waiting), "driver")
  /\ UNCHANGED <<agent, proc, out, cli, word, read, result>>

\* The call has its answer, or the program is gone (select takes either when both are
\* so), or ten seconds went by.
SteerReturns(n, gone) ==
  LET c == r.calls[n]
      late == c.at = "sent" /\ proc.state # "done"
      pending == \E s \in ToSet(r.steering) : s.id = n
      err == c.at # "ok" \/ gone
      back == err /\ pending
      refused == back /\ (r.cancelled \/ r.finishing)
  IN  /\ c.at \in {"sent", "ok", "error"} /\ (late => MayStop) /\ (gone => proc.state = "done")
      /\ proc' = IF late THEN [proc EXCEPT !.stops = @ + 1] ELSE proc
      /\ r' = [r EXCEPT !.calls[n].at = "over",
                        !.pc = IF c.from = "driver" THEN "words" ELSE @,
                        !.steering = IF back THEN Without(n) ELSE @,
                        !.queue = IF back /\ ~refused THEN Append(@, c.word) ELSE @]
      /\ word' = IF c.from = "person" THEN [word EXCEPT ![c.word] = IF refused THEN "refused" ELSE "accepted"]
                 ELSE word
      /\ UNCHANGED <<agent, pipe, out, cli, read, result>>

\* The turn is asked to stop, and the program killed after it.
CodexCancel ==
  /\ ~r.cancelled /\ result = "none" /\ MayStop
  /\ r' = [r EXCEPT !.cancelled = TRUE]
  /\ pipe' = IF r.turn # 0 /\ CanWrite THEN Append(pipe, Line("turn/interrupt")) ELSE pipe
  /\ proc' = [proc EXCEPT !.stops = @ + 1]
  /\ UNCHANGED <<agent, out, cli, word, read, result>>
CodexKills ==
  /\ r.cancelled /\ ~proc.doomed
  /\ proc' = Doomed
  /\ UNCHANGED <<agent, pipe, out, cli, r, word, read, result>>

CodexCli ==
  \/ StartsTurn \/ AnswersStart \/ TakesSteer \/ Interrupts \/ TakesIn \/ RunsTool \/ CompletesTurn
  \/ Exits(cli.turn = 0 /\ cli.owes = {})
CodexReader == OnStarted \/ OnSteered \/ OnUserMessage \/ OnTool \/ OnCompleted
CodexDriver ==
  \/ Opens \/ CallsStart \/ Started \/ Gone \/ SteersWaiting \/ TurnEnds \/ Over \/ Decides
  \/ Finishes \/ Lingers \/ CodexResult \/ CodexKills
CodexNext ==
  /\ agent = "codex"
  /\ \/ CodexCli \/ CodexReader \/ CodexDriver \/ CodexCancel
     \/ \E w \in Word : CodexSteer(w)
     \/ \E n \in DOMAIN r.calls, gone \in BOOLEAN : SteerReturns(n, gone)
=============================================================================
