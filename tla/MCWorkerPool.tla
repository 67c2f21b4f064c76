---------------------------- MODULE MCWorkerPool ----------------------------
(* Instances of WorkerPool for TLC. *)
EXTENDS WorkerPoolProperties

CONSTANTS item, child, e1, e2, c1, w1, w2

MCItems == {item, child}
MCOneItem == {item}
MCOneExec == {e1}
MCTwoExecs == {e1, e2}
\* Two executions compete for the workspace of item, or only for the one slot.
MCSharedTwo == (e1 :> item) @@ (e2 :> item)
MCApart == (e1 :> item) @@ (e2 :> child)
MCSharedOne == (e1 :> item)
MCChildOne == (e1 :> child)
MCOneCall == {c1}
MCTwoWords == {w1, w2}
MCNone == {}
\* child is a part of item.
MCTrees == {<<item, child>>, <<child>>}
MCOneTree == {<<item>>}
=============================================================================
