--------------------------- MODULE MCPackInstall ---------------------------
EXTENDS PackInstall, TLC

\* Each version has an entry of its own, and one that the versions share.
OwnAndShared == [v \in 1..MaxVersion |-> {"shared", IF v = 1 THEN "old" ELSE "new"}]

Symmetry == Permutations(Requests) \cup Permutations(Packs)
=============================================================================
