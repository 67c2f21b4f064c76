------------------------------ MODULE MCRuntime ------------------------------
(* Instances of Runtime for TLC. *)
EXTENDS RuntimeProperties, TLC

CONSTANTS primary, manager, stray, g1, g2, g3

\* The Primary and the Manager of a work item, or of two.
MCMailbox == {primary, manager}
MCThreeMailbox == {primary, manager, stray}
\* No handler is registered for stray.
MCStrayMailbox == {primary, stray}
MCStrayHandled == {primary}
MCHandled == {primary, manager}
MCOneGor == {g1}
MCGor == {g1, g2}
MCThreeGor == {g1, g2, g3}
MCBothLanes == {"interrupt", "normal"}
MCOneLane == {"normal"}
\* The loops and the goroutines are interchangeable.
MCSymmetry == Permutations(MCThreeMailbox) \cup Permutations(MCThreeGor)
MCGorSymmetry == Permutations(MCGor)
MCNoTasks == {}
MCTasks == {"timer", "idle"}
==============================================================================
