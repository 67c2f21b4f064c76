------------------------------ MODULE AgentRuns ------------------------------
(***************************************************************************)
(* A run of any of the three agents, Launcher.Start of                      *)
(* internal/agentcli/agentcli.go, and what is expected of it.                *)
(***************************************************************************)
EXTENDS ClaudeRun, CodexRun, PiRun

Init == ProcInit /\ (ClaudeInit \/ CodexInit \/ PiInit)
Next == ClaudeNext \/ CodexNext \/ PiNext \/ Process

\* Every thread goes on, and so does the program; a call to it is given up after ten
\* seconds.  Nothing is assumed of the person, of timeouts or of a program's death.
Fairness ==
  /\ WF_vars(agent = "claude" /\ ClaudeCli) /\ WF_vars(agent = "claude" /\ ClaudeReader)
  /\ WF_vars(agent = "codex" /\ CodexCli) /\ WF_vars(agent = "codex" /\ CodexReader)
  /\ WF_vars(agent = "codex" /\ CodexDriver)
  /\ \A n \in 1..(2 * Cardinality(Word)) :
       WF_vars(agent = "codex" /\ n \in DOMAIN r.calls /\ SteerReturns(n, FALSE))
  /\ WF_vars(agent = "pi" /\ PiCli) /\ WF_vars(agent = "pi" /\ PiReader)
  /\ WF_vars(Drained) /\ WF_vars(proc.doomed /\ Dies)

Spec == Init /\ [][Next]_vars /\ Fairness

-----------------------------------------------------------------------------
\* The state has the shape of the structs.  What claude has not replayed is what it was
\* sent; what codex is steering into a turn has a call; and the driver's turn is one that
\* has started.
RunsTypeOK ==
  /\ proc.stdin \in {"open", "closed"} /\ proc.state \in {"up", "down", "done"}
  /\ word \in [Word -> {"new", "asking", "accepted", "refused"}] /\ read \subseteq Word
  /\ result \in {"none", "ok", "failed", "cancelled"}
  /\ agent = "claude" =>
       /\ r.results <= r.sent /\ Len(r.unread) <= r.sent
       /\ ToSet(r.unread) \subseteq {Prompt} \cup {w \in Word : word[w] = "accepted"}
  /\ agent = "codex" =>
       /\ \A n \in DOMAIN r.steering : r.calls[r.steering[n].id].word = r.steering[n].word
       /\ r.turn \in 0..cli.turns /\ DOMAIN r.ended \subseteq 1..cli.turns
       /\ r.finishing => r.pc \in {"finish", "closing", "done"}

\* A codex run in which a tool call was not shown to the guard does not end well
\* (codex.go:530-543).
UnguardedFails ==
  agent = "codex" /\ cli.unhooked => result # "ok"

\* Steer answers truly: what a run accepts is read if the run ends well.  pi does not keep
\* this (words that cross its agent_settled), nor does claude when its program dies after
\* a first result.
Promised == INSTANCE SteeredWords WITH
  said <- [w \in Word |-> IF w \in read THEN "read" ELSE IF word[w] = "asking" THEN "new" ELSE word[w]],
  stopped <- r.cancelled \/ proc.doomed,
  over <- IF result = "none" THEN "no"
          ELSE IF result = "ok" /\ ~proc.crashed /\ agent # "pi" THEN "ok" ELSE "failed"
SteeringKept == Promised!Spec

\* A run ends by itself: nothing is waited for that the program has already told, or
\* never will (claude.go:249-257, codex.go:303-353, pi.go:263-270).
RunEnds == <>(result # "none")
=============================================================================
