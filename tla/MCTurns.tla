------------------------------- MODULE MCTurns -------------------------------
(* Instances of Turns for TLC. *)
EXTENDS TurnsProperties

CONSTANTS top, part, other, spare, m1, m2, c1, c2

MCItems == {top, part, other, spare}
MCThree == {top, part, other}
\* part and other are the parts of top.
MCTwoParts == (top :> None) @@ (part :> top) @@ (other :> top)
\* other is a task of its own.
MCApart == (top :> None) @@ (part :> top) @@ (other :> None)
MCOnePart == (top :> None) @@ (part :> top)
MCOneMessage == {m1}
MCTwoMessages == {m1, m2}
MCOneCall == {c1}
MCTwoCalls == {c1, c2}
MCNone == {}
MCManagerKinds == {"spawn", "reply", "done", "reroute", "escalate", "answer", "create_children", "attach_repo"}
MCPrimaryKinds == {"recall", "route", "ambiguous", "create_work_item", "set_status", "cancel", "repo", "reply"}
MCAllKinds == MCManagerKinds \cup MCPrimaryKinds
MCSettleKinds == {"reply", "done", "spawn"}
=============================================================================
