-------------------------------- MODULE PiRun --------------------------------
(***************************************************************************)
(* pi in RPC mode, internal/agentcli/pi.go: commands on stdin, responses    *)
(* and events on stdout; the run ends when the agent has settled and has    *)
(* told where its session is.                                               *)
(***************************************************************************)
EXTENDS AgentRun

PiInit ==
  /\ agent = "pi"
  /\ pipe = <<Line("prompt")>>
  /\ cli = [at |-> "idle", steers |-> <<>>]
  /\ r = [cancelled |-> FALSE, settled |-> FALSE, rejected |-> FALSE, failed |-> FALSE, state |-> FALSE]

-----------------------------------------------------------------------------
(* The program *)

PiReadsPrompt ==
  /\ Reads("prompt")
  /\ \E ok \in BOOLEAN :
       /\ Emits([k |-> "prompted", ok |-> ok])
       /\ cli' = [cli EXCEPT !.at = IF ok THEN "running" ELSE "idle"]
  /\ UNCHANGED <<agent, proc, r, word, read, result>>

\* Whatever it is at.
PiReadsSteer ==
  /\ Reads("steer")
  /\ cli' = [cli EXCEPT !.steers = Append(@, Head(pipe).word)]
  /\ UNCHANGED <<agent, proc, out, r, word, read, result>>

PiReadsAbort ==
  /\ Reads("abort")
  /\ cli' = [cli EXCEPT !.at = IF @ = "running" THEN "ending" ELSE @]
  /\ UNCHANGED <<agent, proc, out, r, word, read, result>>

PiReadsGetState ==
  /\ Reads("get_state")
  /\ Emits(Line("state"))
  /\ UNCHANGED <<agent, proc, cli, r, word, read, result>>

PiTakes ==
  /\ proc.state = "up" /\ cli.at = "running" /\ cli.steers # <<>>
  /\ read' = read \cup ToSet(cli.steers)
  /\ cli' = [cli EXCEPT !.steers = <<>>]
  /\ UNCHANGED <<agent, proc, pipe, out, r, word, result>>

\* The last message of the agent, after which no steering is looked at.
PiAnswers ==
  /\ proc.state = "up" /\ cli.at = "running" /\ cli.steers = <<>>
  /\ \E error \in BOOLEAN : Emits([k |-> "message_end", error |-> error])
  /\ cli' = [cli EXCEPT !.at = "ending"]
  /\ UNCHANGED <<agent, proc, pipe, r, word, read, result>>

PiSettles ==
  /\ proc.state = "up" /\ cli.at = "ending"
  /\ Emits(Line("agent_settled"))
  /\ cli' = [cli EXCEPT !.at = "idle"]
  /\ UNCHANGED <<agent, proc, pipe, r, word, read, result>>

-----------------------------------------------------------------------------
(* The run *)

OnPrompted ==
  /\ Next1("prompted") /\ Handles
  /\ r' = [r EXCEPT !.rejected = ~Head(out).ok]
  /\ proc' = IF Head(out).ok THEN proc ELSE Closed
  /\ UNCHANGED <<agent, pipe, cli, word, read, result>>

OnMessageEnd ==
  /\ Next1("message_end") /\ Handles
  /\ r' = [r EXCEPT !.failed = Head(out).error]
  /\ UNCHANGED <<agent, proc, pipe, cli, word, read, result>>

OnSettled ==
  /\ Next1("agent_settled") /\ Handles
  /\ r' = [r EXCEPT !.settled = TRUE]
  /\ IF CanWrite THEN pipe' = Append(pipe, Line("get_state")) /\ UNCHANGED proc
                 ELSE proc' = Closed /\ UNCHANGED pipe
  /\ UNCHANGED <<agent, cli, word, read, result>>

\* Mutant: the session is noted and stdin left open.
OnStateOpen ==
  /\ Next1("state") /\ Handles
  /\ r' = [r EXCEPT !.state = TRUE]
  /\ UNCHANGED <<agent, proc, pipe, cli, word, read, result>>
OnState ==
  /\ Next1("state") /\ Handles
  /\ r' = [r EXCEPT !.state = TRUE]
  /\ proc' = Closed
  /\ UNCHANGED <<agent, pipe, cli, word, read, result>>

PiSteer(w) ==
  /\ word[w] = "new"
  /\ IF r.cancelled \/ r.settled \/ ~CanWrite
     THEN Answered(w, "refused") /\ UNCHANGED pipe
     ELSE Answered(w, "accepted") /\ pipe' = Append(pipe, [k |-> "steer", word |-> w])
  /\ UNCHANGED <<agent, proc, out, cli, r, read, result>>

\* The agent is asked to stop, and killed after two seconds.
PiCancel ==
  /\ ~r.cancelled /\ result = "none" /\ MayStop
  /\ r' = [r EXCEPT !.cancelled = TRUE]
  /\ pipe' = IF CanWrite THEN Append(pipe, Line("abort")) ELSE pipe
  /\ proc' = [proc EXCEPT !.stops = @ + 1]
  /\ UNCHANGED <<agent, out, cli, word, read, result>>
PiKills ==
  /\ r.cancelled /\ ~proc.doomed
  /\ proc' = [Closed EXCEPT !.doomed = TRUE]
  /\ UNCHANGED <<agent, pipe, out, cli, r, word, read, result>>

PiWaits ==
  /\ proc.state = "done" /\ result = "none"
  /\ result' = IF r.cancelled THEN "cancelled"
               ELSE IF r.settled /\ ~(proc.timedOut \/ r.rejected \/ r.failed) THEN "ok" ELSE "failed"
  /\ UNCHANGED <<agent, proc, pipe, out, cli, r, word, read>>

PiCli ==
  \/ PiReadsPrompt \/ PiReadsSteer \/ PiReadsAbort \/ PiReadsGetState
  \/ PiTakes \/ PiAnswers \/ PiSettles \/ Exits(cli.at = "idle")
PiReader == OnPrompted \/ OnMessageEnd \/ OnSettled \/ OnState \/ PiKills \/ PiWaits
PiNext == agent = "pi" /\ (PiCli \/ PiReader \/ PiCancel \/ \E w \in Word : PiSteer(w))
=============================================================================
