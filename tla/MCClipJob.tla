------------------------------ MODULE MCClipJob ------------------------------
EXTENDS ClipJobProperties, TLC

\* Runs and invocations are interchangeable: sound for the safety runs.
Symmetry == Permutations(Runs) \union Permutations(Workers)
=============================================================================
