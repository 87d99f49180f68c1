--------------------------- MODULE MCFeedCollection ---------------------------
EXTENDS FeedCollectionProperties, TLC

Symmetry == Permutations(Runs) \union Permutations(Workers)
=============================================================================
