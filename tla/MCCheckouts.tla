---------------------------- MODULE MCCheckouts ----------------------------
(* Instances of Checkouts for TLC. *)
EXTENDS Checkouts, TLC

CONSTANTS r1, r2, p1, p2, g1, g2, i1, i2, c1, c2
MCRepos == {r1, r2}
MCOneRepo == {r1}
MCPlaces == {p1, p2}
MCClones == {g1, g2}
MCOneClone == {g1}
\* Two clones of one repository.
MCRemote == [c \in Clone |-> "origin"]
MCItems == {i1, i2}
MCCallers == {c1, c2}
MCSymmetry == Permutations(MCRepos) \cup Permutations(MCPlaces) \cup Permutations(MCClones)
                \cup Permutations(MCItems) \cup Permutations(MCCallers)
=============================================================================
