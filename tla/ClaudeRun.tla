------------------------------ MODULE ClaudeRun ------------------------------
(***************************************************************************)
(* Claude Code with stream-json on both sides, internal/agentcli/claude.go: *)
(* the prompt and the person's words are user messages on stdin, which      *)
(* stays open until the run knows that nothing more will be answered.        *)
(***************************************************************************)
EXTENDS AgentRun

\* Programs that count the turns they have queued may also take a message into the
\* running turn, or several into the next one.
ClaudeInit ==
  /\ agent = "claude"
  /\ pipe = <<[k |-> "user", words |-> <<Prompt>>]>>
  /\ cli \in {[queue |-> <<>>, turn |-> FALSE, counts |-> c] : c \in BOOLEAN}
  /\ r = [cancelled |-> FALSE, finishing |-> FALSE, sent |-> 1, results |-> 0,
          unread |-> <<Prompt>>, seen |-> FALSE, error |-> FALSE]

-----------------------------------------------------------------------------
(* The program *)

Queues ==
  /\ Reads("user")
  /\ cli' = [cli EXCEPT !.queue = @ \o Head(pipe).words]
  /\ UNCHANGED <<agent, proc, out, r, word, read, result>>

Replay(words, plain) == [k |-> "replay", words |-> words, plain |-> plain]

\* The first n messages become a turn, or join it; they come back in one replay, whose
\* text is not always what was sent.
Takes(n, plain, into) ==
  /\ proc.state = "up" /\ cli.turn = into /\ n \in 1..Len(cli.queue)
  /\ into => n = 1
  /\ (into \/ n > 1) => cli.counts
  /\ n > 1 => plain
  /\ Emits(Replay(SubSeq(cli.queue, 1, n), plain))
  /\ read' = read \cup (ToSet(SubSeq(cli.queue, 1, n)) \ {Prompt})
  /\ cli' = [cli EXCEPT !.queue = SubSeq(@, n + 1, Len(@)), !.turn = TRUE]
  /\ UNCHANGED <<agent, proc, pipe, r, word, result>>

\* The turn ends with a result: an answer or an error.
Results ==
  /\ proc.state = "up" /\ cli.turn
  /\ \E error \in BOOLEAN :
       Emits([k |-> "result", error |-> error, queued |-> IF cli.counts THEN Len(cli.queue) ELSE -1])
  /\ cli' = [cli EXCEPT !.turn = FALSE]
  /\ UNCHANGED <<agent, proc, pipe, r, word, read, result>>

-----------------------------------------------------------------------------
(* The run *)

\* readReplay: what the replay carries is struck off; one that cannot be recognised
\* stands for the oldest message.
Struck(unread, replay) ==
  LET carried == ToSet(replay.words) \cup UNION {Within[x] : x \in ToSet(replay.words)}
      stay == {n \in DOMAIN unread : ~(replay.plain /\ unread[n] \in carried)}
      kept == [k \in 1..Cardinality(stay) |->
                 unread[CHOOSE n \in stay : Cardinality({m \in stay : m <= n}) = k]]
  IN  IF kept = unread /\ kept # <<>> THEN Tail(kept) ELSE kept

OnReplay ==
  /\ Next1("replay") /\ Handles
  /\ r' = [r EXCEPT !.unread = Struck(@, Head(out))]
  /\ UNCHANGED <<agent, proc, pipe, cli, word, read, result>>

Finished(queued) ==
  LET answered == r.results + 1 >= r.sent
  IN  IF queued = -1 THEN answered ELSE queued = 0 /\ (answered \/ r.unread = <<>>)

OnResult ==
  LET finished == Finished(Head(out).queued) IN
  /\ Next1("result") /\ Handles
  /\ r' = [r EXCEPT !.results = @ + 1, !.seen = TRUE, !.error = Head(out).error, !.finishing = finished]
  /\ proc' = IF finished THEN Closed ELSE proc
  /\ UNCHANGED <<agent, pipe, cli, word, read, result>>

\* Mutant: the words are sent, and not waited for.
ClaudeSteerUnsent(w) ==
  /\ word[w] = "new"
  /\ IF r.cancelled \/ r.finishing \/ ~CanWrite
     THEN Answered(w, "refused") /\ UNCHANGED <<pipe, r>>
     ELSE /\ Answered(w, "accepted")
          /\ pipe' = Append(pipe, [k |-> "user", words |-> <<w>>])
          /\ r' = [r EXCEPT !.unread = Append(@, w)]
  /\ UNCHANGED <<agent, proc, out, cli, read, result>>
ClaudeSteer(w) ==
  /\ word[w] = "new"
  /\ IF r.cancelled \/ r.finishing \/ ~CanWrite
     THEN Answered(w, "refused") /\ UNCHANGED <<pipe, r>>
     ELSE /\ Answered(w, "accepted")
          /\ pipe' = Append(pipe, [k |-> "user", words |-> <<w>>])
          /\ r' = [r EXCEPT !.sent = @ + 1, !.unread = Append(@, w)]
  /\ UNCHANGED <<agent, proc, out, cli, read, result>>

ClaudeCancel ==
  /\ ~r.cancelled /\ result = "none" /\ MayStop
  /\ r' = [r EXCEPT !.cancelled = TRUE]
  /\ proc' = [Closed EXCEPT !.doomed = TRUE, !.stops = @ + 1]
  /\ UNCHANGED <<agent, pipe, out, cli, word, read, result>>

ClaudeWaits ==
  /\ proc.state = "done" /\ result = "none"
  /\ result' = IF r.cancelled THEN "cancelled"
               ELSE IF ~proc.timedOut /\ r.seen /\ ~r.error THEN "ok" ELSE "failed"
  /\ UNCHANGED <<agent, proc, pipe, out, cli, r, word, read>>

ClaudeCli ==
  \/ Queues \/ Results \/ Exits(~cli.turn /\ cli.queue = <<>>)
  \/ \E n \in 1..Cardinality(Word) + 1, plain \in BOOLEAN, into \in BOOLEAN : Takes(n, plain, into)
ClaudeReader == OnReplay \/ OnResult \/ ClaudeWaits
ClaudeNext ==
  /\ agent = "claude"
  /\ ClaudeCli \/ ClaudeReader \/ ClaudeCancel \/ \E w \in Word : ClaudeSteer(w)
=============================================================================
