------------------------------- MODULE MCWawa -------------------------------
EXTENDS Wawa, TLC

\* Viewers are alike: no action and no invariant tells one from another.
Symmetry == Permutations(Viewer)
=============================================================================
