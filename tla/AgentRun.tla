------------------------------- MODULE AgentRun -------------------------------
(***************************************************************************)
(* One run of a coding agent's command line program, as                     *)
(* internal/agentcli/process.go keeps it: a process, the pipe to its        *)
(* standard input, and the lines of its standard output, which one          *)
(* goroutine handles in order.  The protocols of the three agents are in    *)
(* ClaudeRun, CodexRun and PiRun; what their programs do is what the code    *)
(* relies on, and what cmd/fakeagent plays in the tests.                     *)
(***************************************************************************)
EXTENDS Integers, FiniteSets, SequencesExt

CONSTANTS
  Word,     \* what the person says while the agent works, one message each
  Prompt,   \* what the run starts with
  Within,   \* Within[x]: the words whose text is part of the text of x
  MaxStops  \* bound: cancels, timeouts of the run or of a call, deaths of the program by itself

ASSUME AgentRunAssumption ==
  MaxStops \in Nat /\ Prompt \notin Word /\ Within \in [Word \cup {Prompt} -> SUBSET Word]

VARIABLES
  agent,    \* "claude", "codex" or "pi"
  proc,     \* proc: stdin, state ("up", "down", "done" once its output is read), doomed, timedOut, crashed, stops
  pipe,     \* lines on their way to the program
  out,      \* lines on their way from it
  cli,      \* the program
  r,        \* the run: claudeRun, codexRun or piRun
  word,     \* word[w]: "new", "asking", "accepted" or "refused" by Steer
  read,     \* the words the agent took in
  result    \* what Wait returns: "none" before, "ok", "failed" or "cancelled"

vars == <<agent, proc, pipe, out, cli, r, word, read, result>>

Fields(f, g) == [x \in DOMAIN f \cup DOMAIN g |-> IF x \in DOMAIN g THEN g[x] ELSE f[x]]

\* writeJSON fails once stdin is closed or the program is gone.
CanWrite == proc.stdin = "open" /\ proc.state = "up"
Line(k) == [k |-> k]
Emits(line) == out' = Append(out, line)
Handles == out' = Tail(out)
Next1(k) == out # <<>> /\ Head(out).k = k
Closed == [proc EXCEPT !.stdin = "closed"]
Doomed == [proc EXCEPT !.doomed = TRUE]
MayStop == proc.stops < MaxStops
Answered(w, how) == word' = [word EXCEPT ![w] = how]

\* The program takes a line off its input.
Reads(k) == proc.state = "up" /\ pipe # <<>> /\ Head(pipe).k = k /\ pipe' = Tail(pipe)
\* At the end of its input it finishes what it has, and ends.
Exits(idle) ==
  /\ proc.state = "up" /\ proc.stdin = "closed" /\ pipe = <<>> /\ idle
  /\ proc' = [proc EXCEPT !.state = "down"]
  /\ UNCHANGED <<agent, pipe, out, cli, r, word, read, result>>

\* It dies: of kill, or by itself.
Dies ==
  /\ proc.state = "up" /\ (proc.doomed \/ MayStop)
  /\ proc' = [proc EXCEPT !.state = "down", !.crashed = ~proc.doomed,
                          !.stops = IF proc.doomed THEN @ ELSE @ + 1]
  /\ pipe' = <<>>
  /\ UNCHANGED <<agent, out, cli, r, word, read, result>>

\* supervise, at the deadline.
TimesOut ==
  /\ proc.state # "done" /\ ~proc.timedOut /\ result = "none" /\ MayStop
  /\ proc' = [proc EXCEPT !.timedOut = TRUE, !.doomed = TRUE, !.stops = @ + 1]
  /\ UNCHANGED <<agent, pipe, out, cli, r, word, read, result>>

\* Wait has returned and what it left is read: done.
Drained ==
  /\ proc.state = "down" /\ out = <<>>
  /\ proc' = [proc EXCEPT !.state = "done"]
  /\ UNCHANGED <<agent, pipe, out, cli, r, word, read, result>>

ProcInit ==
  /\ proc = [stdin |-> "open", state |-> "up", doomed |-> FALSE, timedOut |-> FALSE, crashed |-> FALSE, stops |-> 0]
  /\ out = <<>> /\ read = {} /\ result = "none"
  /\ word = [w \in Word |-> "new"]

Process == Dies \/ TimesOut \/ Drained
=============================================================================
