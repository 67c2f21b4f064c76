----------------------------- MODULE MCAgentRuns -----------------------------
(* Instances of AgentRuns for TLC. *)
EXTENDS AgentRuns

CONSTANTS w1, w2, p
MCWords == {w1, w2}
\* The text of the second message is part of that of the first.
MCWithin == (p :> {}) @@ (w1 :> {w2}) @@ (w2 :> {})
=============================================================================
