-------------------------------- MODULE Orders --------------------------------
(***************************************************************************)
(* What the comparators of the lists and of the selection have in common.  *)
(***************************************************************************)
EXTENDS Integers, FiniteSets

\* The first place where two keys differ decides; the greater comes first.
Before(s, t) ==
    \E i \in DOMAIN s : s[i] > t[i] /\ \A j \in 1..(i - 1) : s[j] = t[j]

\* A set as a sequence, every element after those that Op puts before it.
InOrder(S, Op(_, _)) ==
    [i \in 1..Cardinality(S) |->
        CHOOSE c \in S : Cardinality({d \in S : Op(d, c)}) = i - 1]

\* A set in the order of its elements' keys, the greatest first.
ByKey(S, key) == InOrder(S, LAMBDA l, r : Before(key[l], key[r]))
=============================================================================
