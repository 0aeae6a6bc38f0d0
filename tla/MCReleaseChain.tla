--------------------------- MODULE MCReleaseChain ---------------------------
(* Model-checking instances of ReleaseChain. *)
EXTENDS ReleaseChain, TLC

CONSTANTS i1, i2, j1, c1, c2, m1, h1, h2

OneItem == {i1}
TwoItems == {i1, i2}
OneJob == {j1}
TwoHeads == {c1, c2}
OneSha == {m1}
OneHandler == {h1}
TwoHandlers == {h1, h2}
NoEnvs == {}
BothEnvs == {"staging", "production"}

\* Items, heads, merge commits and handlers are interchangeable.
Symmetry == Permutations(Items) \cup Permutations(Heads)
              \cup Permutations(Shas) \cup Permutations(Handlers)
=============================================================================
