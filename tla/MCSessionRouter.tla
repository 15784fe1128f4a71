--------------------------- MODULE MCSessionRouter ---------------------------
EXTENDS SessionRouter, TLC

\* Keys, calls and children are interchangeable in every safety property.
Symmetry == Permutations(Keys) \cup Permutations(Callers) \cup Permutations(Rpcs)
=============================================================================
