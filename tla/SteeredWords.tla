---------------------------- MODULE SteeredWords ----------------------------
(***************************************************************************)
(* What a run of an agent promises about the words said while it works,     *)
(* whatever the agent (Run of internal/agentcli/agentcli.go): Steer answers  *)
(* once, words it refused are not read unless the run is being stopped, and  *)
(* a run that ends well has read all it accepted.                            *)
(***************************************************************************)
CONSTANT Word

VARIABLES
  said,     \* said[w]: "new", "refused", "accepted" or "read"
  stopped,  \* the run was cancelled or its program killed
  over      \* "no", "ok" or "failed"

vars == <<said, stopped, over>>

Becomes(w, how) == said' = [said EXCEPT ![w] = how] /\ UNCHANGED <<stopped, over>>

\* Words that are in the way of a run that fails are in what it returns.
Accept(w) == said[w] = "new" /\ over # "ok" /\ Becomes(w, "accepted")
Refuse(w) == said[w] = "new" /\ Becomes(w, "refused")
Read(w) ==
  /\ over = "no"
  /\ said[w] \in {"new", "accepted"} \/ (stopped /\ said[w] = "refused")
  /\ Becomes(w, "read")
\* Several words may be read at once.
ReadAll ==
  /\ over = "no" /\ UNCHANGED <<stopped, over>>
  /\ \E S \in SUBSET {w \in Word : said[w] \in {"new", "accepted"}} :
       said' = [w \in Word |-> IF w \in S THEN "read" ELSE said[w]]
Stop == stopped' = TRUE /\ UNCHANGED <<said, over>>
End(how) ==
  /\ over = "no" /\ over' = how /\ UNCHANGED <<said, stopped>>
  /\ how = "ok" => \A w \in Word : said[w] # "accepted"

Init == said = [w \in Word |-> "new"] /\ stopped = FALSE /\ over = "no"
Next ==
  \/ \E w \in Word : Accept(w) \/ Refuse(w) \/ Read(w)
  \/ ReadAll \/ Stop \/ \E how \in {"ok", "failed"} : End(how)
Spec == Init /\ [][Next]_vars
=============================================================================
