------------------------------ MODULE Memories ------------------------------
(***************************************************************************)
(* Long-term memory: the distiller of internal/agents/distiller.go, which    *)
(* reads the log behind a cursor of its own and writes what the agent makes  *)
(* of it into the memory files of internal/kernel/files.go, and the handlers *)
(* of the HTTP API that add to those files and remove from them.  A file is  *)
(* read, changed and written back as a whole; nothing locks it.              *)
(***************************************************************************)
EXTENDS EventLog

CONSTANTS
  Layer,        \* the memory files: "global" and the work items'
  Distiller,    \* the idle task
  Editor,       \* handlers of the HTTP API, one call at a time each
  What,         \* what a person may add: a kind and a line of words
  Ideas,        \* what the agent may answer: sequences of [what, layer, sure]
  MinEvents,    \* meaningful events worth a thought (10)
  DistillPage,  \* events read at once (200)
  DistillCap    \* and in all (2000)

Writer == Editor \cup {Distiller}

ASSUME MemoriesAssumption ==
  /\ {MinEvents, DistillPage, DistillCap} \subseteq Nat \ {0}
  /\ "global" \in Layer /\ Distiller \notin Editor
  /\ \A ideas \in Ideas : /\ ideas \in Seq(ToSet(ideas))
                          /\ \A i \in ToSet(ideas) : DOMAIN i = {"what", "layer", "sure"} /\ i.layer \in Layer

VARIABLES
  file,      \* file[layer]: its entries; Parse and Append lose nothing of a line
  issued,    \* ids given so far
  dist,      \* where the distiller is
  edit,      \* edit[w]: the change of a file the writer is at
  thought,   \* what the agent was shown when it answered: which event, and how long the log was
  clashed    \* has a change been written over another?

memoryVars == <<file, issued, dist, edit, thought, clashed>>

Rests == [at |-> "idle"]
Distills(at) == up /\ dist.at = at
DistillAt(at) == dist' = [dist EXCEPT !.at = at]
Editing(w, at) == up /\ edit[w].at = at

-----------------------------------------------------------------------------
(* A change of a memory file: AppendMemory and forgetIn, then the record *)

\* The file is read, and what it will be is computed.
Begins(w, layer, to, record) ==
  edit' = [edit EXCEPT ![w] = [at |-> "write", layer |-> layer, base |-> file[layer], to |-> to, record |-> record]]

Entry(what, by) == [id |-> issued + 1, what |-> what, by |-> by]
BeginsEntry(w, layer, what) ==
  /\ Begins(w, layer, file[layer] \cup {Entry(what, w)}, [kind |-> "promoted", of |-> issued + 1])
  /\ issued' = issued + 1

\* The distiller sees how it ended.
Ends(w, how) == edit' = [edit EXCEPT ![w] = [at |-> IF w = Distiller THEN how ELSE "idle"]]

WritesFile(w) ==
  /\ Editing(w, "write")
  /\ \/ /\ file' = [file EXCEPT ![edit[w].layer] = edit[w].to]
        /\ clashed' = (clashed \/ file[edit[w].layer] # edit[w].base)
        /\ edit' = [edit EXCEPT ![w].at = "log"] /\ UNCHANGED left
     \/ Fault /\ Ends(w, "failed") /\ UNCHANGED <<file, clashed>>
  /\ UNCHANGED <<log, cursor, up, breaks, issued, dist, thought>>

LogsChange(w) ==
  /\ Editing(w, "log")
  /\ \/ Record(edit[w].record) /\ Ends(w, "done") /\ UNCHANGED left
     \/ Fault /\ Ends(w, "failed") /\ UNCHANGED log
  /\ UNCHANGED <<cursor, up, breaks, file, issued, dist, thought, clashed>>

\* addMemory
Adds(w, what) ==
  /\ Editing(w, "idle") /\ Spends("edits") /\ BeginsEntry(w, "global", what)
  /\ UNCHANGED <<log, cursor, up, breaks, file, dist, thought, clashed>>

\* Forget: from the layer that holds it.
Forgets(w, layer, e) ==
  /\ Editing(w, "idle") /\ e \in file[layer] /\ Spends("edits")
  /\ Begins(w, layer, file[layer] \ {e}, [kind |-> "forgotten", of |-> e.id])
  /\ UNCHANGED <<log, cursor, up, breaks, file, issued, dist, thought, clashed>>

-----------------------------------------------------------------------------
(* RunDistillation *)

\* Hiding is a mask on later reads; only the words of a person can be hidden, and once.
Hidden(n) == Has("redacted", n)
RedactMessage(n) ==
  /\ up /\ n \in Kind("user") /\ ~Hidden(n) /\ Spends("hides") /\ Record([kind |-> "redacted", of |-> n])
  /\ UNCHANGED <<cursor, up, breaks, memoryVars>>

Carries(n) == log[n].kind \in {"user", "reply"}
MeaningfulEvents(seqs) == {n \in seqs : Carries(n) /\ ~Hidden(n)}

\* Forward in pages to enough material, the head of the log or the cap.
Pages(p) == NextBatch(cursor.distiller, p * DistillPage)
AtHead(p) == Cardinality(Pages(p)) < p * DistillPage
LastPage(p) == AtHead(p) \/ Cardinality(MeaningfulEvents(Pages(p))) >= MinEvents \/ p * DistillPage >= DistillCap
PagesRead == CHOOSE p \in 1..DistillCap : LastPage(p) /\ \A q \in 1..p - 1 : ~LastPage(q)

\* Mutant: the head of the log is not looked for.
DistillReadsSparse ==
  LET batch == Pages(PagesRead)
  IN /\ Distills("idle") /\ batch # {} /\ Spends("distills")
     /\ dist' = [at |-> IF Cardinality(MeaningfulEvents(batch)) < MinEvents THEN "commit" ELSE "look",
                 last |-> cursor.distiller + Cardinality(batch),
                 seqs |-> MeaningfulEvents(batch), head |-> Len(log), known |-> {}, todo |-> <<>>]
     /\ UNCHANGED <<log, cursor, up, breaks, file, issued, edit, thought, clashed>>
\* Nothing meaningful is passed over at once; sparse material at the head waits for more.
DistillReads ==
  LET batch == Pages(PagesRead)
      some == MeaningfulEvents(batch)
  IN /\ Distills("idle") /\ batch # {} /\ Spends("distills")
     /\ some # {} /\ Cardinality(some) < MinEvents => ~AtHead(PagesRead)
     /\ dist' = [at |-> IF some = {} THEN "commit" ELSE "look", last |-> cursor.distiller + Cardinality(batch),
                 seqs |-> some, head |-> Len(log), known |-> {}, todo |-> <<>>]
     /\ UNCHANGED <<log, cursor, up, breaks, file, issued, edit, thought, clashed>>

DistillLooks ==
  /\ Distills("look")
  /\ dist' = [dist EXCEPT !.at = "list", !.known = {e.id : e \in file["global"]}]
  /\ UNCHANGED <<shared, file, issued, edit, thought, clashed>>

\* reconcileMemoryLog: entries whose change went unrecorded, or that were written by hand.
DistillLists ==
  /\ Distills("list")
  /\ \/ dist' = [dist EXCEPT !.at = "reconcile", !.todo = Ordered({id \in dist.known : ~Has("promoted", id)})] /\ UNCHANGED left
     \/ Fault /\ dist' = Rests
  /\ UNCHANGED <<log, cursor, up, breaks, file, issued, edit, thought, clashed>>
DistillReconciles ==
  /\ Distills("reconcile") /\ dist.todo # <<>>
  /\ \/ Record([kind |-> "promoted", of |-> Head(dist.todo)]) /\ dist' = [dist EXCEPT !.todo = Tail(@)] /\ UNCHANGED left
     \/ Fault /\ dist' = Rests /\ UNCHANGED log
  /\ UNCHANGED <<cursor, up, breaks, file, issued, edit, thought, clashed>>

\* A thought that fails leaves the cursor where it is.
DistillThinks ==
  /\ Distills("reconcile") /\ dist.todo = <<>>
  /\ \/ /\ \E ideas \in Ideas : dist' = [dist EXCEPT !.at = "weigh", !.todo = ideas]
        /\ thought' = thought \cup {[of |-> n, head |-> dist.head] : n \in dist.seqs} /\ UNCHANGED left
     \/ Fault /\ dist' = Rests /\ UNCHANGED thought
  /\ UNCHANGED <<log, cursor, up, breaks, file, issued, edit, clashed>>

\* Each idea is recorded as a candidate; a work item that cannot be read leaves the global layer.
DistillWeighs ==
  /\ Distills("weigh") /\ dist.todo # <<>>
  /\ \/ dist' = (IF Head(dist.todo).sure THEN [dist EXCEPT !.at = "check"] ELSE [dist EXCEPT !.todo = Tail(@)]) /\ UNCHANGED left
     \/ Head(dist.todo).sure /\ Fault /\ dist' = [dist EXCEPT !.at = "check", !.todo[1].layer = "global"]
     \/ Fault /\ dist' = Rests
  /\ UNCHANGED <<log, cursor, up, breaks, file, issued, edit, thought, clashed>>

\* PromoteToFile: what the layer already holds is not promoted again ...
Holds(idea) == \E e \in file[idea.layer] : e.what = idea.what
DistillSkips ==
  /\ Distills("check") /\ Holds(Head(dist.todo))
  /\ dist' = [dist EXCEPT !.at = "weigh", !.todo = Tail(@)]
  /\ UNCHANGED <<shared, file, issued, edit, thought, clashed>>
DistillChecks ==
  /\ Distills("check") /\ ~Holds(Head(dist.todo)) /\ DistillAt("copy")
  /\ UNCHANGED <<shared, file, issued, edit, thought, clashed>>
\* ... and AppendMemory reads the file once more.
DistillCopies ==
  /\ Distills("copy") /\ DistillAt("promote")
  /\ BeginsEntry(Distiller, Head(dist.todo).layer, Head(dist.todo).what)
  /\ UNCHANGED <<shared, file, thought, clashed>>
DistillPromoted ==
  /\ Distills("promote") /\ edit[Distiller].at \in {"done", "failed"}
  /\ edit' = [edit EXCEPT ![Distiller] = Rests]
  /\ dist' = IF edit[Distiller].at = "done" THEN [dist EXCEPT !.at = "weigh", !.todo = Tail(@)] ELSE Rests
  /\ UNCHANGED <<shared, file, issued, thought, clashed>>

DistillCommits ==
  /\ Distills("commit") \/ (Distills("weigh") /\ dist.todo = <<>>)
  /\ \/ CommitCursor("distiller", dist.last) /\ UNCHANGED left
     \/ Fault /\ UNCHANGED cursor
  /\ dist' = Rests
  /\ UNCHANGED <<log, up, breaks, file, issued, edit, thought, clashed>>

-----------------------------------------------------------------------------
MemoryInit ==
  /\ file = [layer \in Layer |-> {}] /\ issued = 0 /\ thought = {} /\ clashed = FALSE
  /\ dist = Rests /\ edit = [w \in Writer |-> Rests]

MemoryForgets == dist' = Rests /\ edit' = [w \in Writer |-> Rests] /\ UNCHANGED <<file, issued, thought, clashed>>

MemoryNext ==
  \/ \E w \in Writer : WritesFile(w) \/ LogsChange(w)
  \/ \E w \in Editor : \/ \E what \in What : Adds(w, what)
                       \/ \E layer \in Layer : \E e \in file[layer] : Forgets(w, layer, e)
  \/ \E n \in DOMAIN log : RedactMessage(n)
  \/ DistillReads \/ DistillLooks \/ DistillLists \/ DistillReconciles \/ DistillThinks \/ DistillWeighs
  \/ DistillSkips \/ DistillChecks \/ DistillCopies \/ DistillPromoted \/ DistillCommits

-----------------------------------------------------------------------------
\* "The cursor advances only when the batch was processed, so sparse material accumulates instead
\* of getting lost", "a message the person hid must not come back as a memory", "the same memory
\* must not be promoted twice under two ids, or forgetting one leaves the other"
\* (distiller.go:27, 95-98; files.go:219): the agent was shown everything meaningful up to the
\* cursor and nothing hidden before it was read, knew no global memory the log cannot account
\* for, and unless one writer of a file overwrote another the distiller put no memory twice in a
\* layer and a memory recorded as forgotten is in none.
DistillerKeepsUp ==
  /\ \A n \in MeaningfulEvents(DOMAIN log) : n <= cursor.distiller => \E t \in thought : t.of = n
  /\ \A t \in thought, n \in Kind("redacted") : log[n].of = t.of => n > t.head
  /\ dist.at = "weigh" => \A id \in dist.known : Has("promoted", id)
  /\ clashed \/ \A layer \in Layer :
       /\ \A e, f \in file[layer] : e.what = f.what /\ e.by = Distiller /\ f.by = Distiller => e = f
       /\ \A e \in file[layer] : ~Has("forgotten", e.id)
=============================================================================
