----------------------------- MODULE MCDigestRun -----------------------------
EXTENDS DigestRunProperties, TLC

Symmetry == Permutations(Runs) \union Permutations(Workers)
=============================================================================
