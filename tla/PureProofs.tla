------------------------------ MODULE PureProofs ------------------------------
(***************************************************************************)
(* Proofs about the pure functions that Parts asks about a sample, for     *)
(* every sample of any size.  They go through data: an order over a set, a *)
(* fold over a sequence, a sequence made of others.  Each of those is      *)
(* reached by induction over a set of numbers (SetInduction), from the     *)
(* least number that is not in it.                                         *)
(***************************************************************************)
EXTENDS PartsProperties, WellFoundedInduction, FiniteSetTheorems, SequenceTheorems, TLAPS

-----------------------------------------------------------------------------
(***************************************************************************)
(* Induction, and what a fold evaluates.                                   *)
(***************************************************************************)
\* Smaller is a well-founded relation of the numbers.
LEMMA NatRelation ==
    \E R : IsWellFoundedOn(R, Nat) /\ \A m, n \in Nat : m < n => <<m, n>> \in R
<1>1. IsWellFoundedOn(OpToRel(<, Nat), Nat)
    BY NatLessThanWellFounded
<1>2. \A m, n \in Nat : m < n => <<m, n>> \in OpToRel(<, Nat)
    BY DEF OpToRel
<1> QED BY <1>1, <1>2

\* A set of numbers that is not empty has a least one.
LEMMA LeastNat ==
    ASSUME NEW T, T \subseteq Nat, T # {}
    PROVE  \E n \in T : \A m \in T : n <= m
<1>1. PICK R : IsWellFoundedOn(R, Nat) /\ \A m, n \in Nat : m < n => <<m, n>> \in R
    BY NatRelation
<1>2. \E n \in T : \A m \in T : ~ (<<m, n>> \in R)
    <2>1. \A R1, S1 : IsWellFoundedOn(R1, S1) => \A U : U \subseteq S1 /\ U # {} => \E x \in U : \A y \in U : ~ (<<y, x>> \in R1)
        BY WFMin
    <2>2. IsWellFoundedOn(R, Nat)
        BY <1>1
    <2> HIDE <1>1
    <2> QED BY <2>1, <2>2
<1>3. PICK n \in T : \A m \in T : ~ (<<m, n>> \in R)
    BY <1>2
<1>4. ASSUME NEW m \in T PROVE n <= m
    <2>1. m \in Nat /\ n \in Nat /\ ~ (<<m, n>> \in R)
        BY <1>3
    <2>2. ~ (m < n)
        BY <2>1, <1>1
    <2> QED BY <2>1, <2>2
<1> QED BY <1>4

\* Induction, stated of a set, so that no operator is a parameter.
LEMMA SetInduction ==
    ASSUME NEW T, 0 \in T, \A n \in Nat : n \in T => n + 1 \in T
    PROVE  Nat \subseteq T
<1> SUFFICES ASSUME Nat \ T # {} PROVE FALSE
    OBVIOUS
<1>1. PICK n \in Nat \ T : \A m \in Nat \ T : n <= m
    BY LeastNat
<1>2. n # 0 /\ n - 1 \in Nat /\ n - 1 \in T
    BY <1>1
<1> QED BY <1>1, <1>2

\* Max is the greatest of a set of positions.
LEMMA MaxOfPositions ==
    ASSUME NEW n \in Nat, NEW s \in SUBSET (1..n), s # {}
    PROVE  Max(s) \in s /\ \A y \in s : y <= Max(s)
<1>1. \E x \in s : \A y \in s : x >= y
    <2> DEFINE T == {n - y : y \in s}
    <2>1. T \subseteq Nat
        <3>1. \A y \in s : y \in 1..n
            OBVIOUS
        <3>2. \A y \in s : n - y \in Nat
            BY <3>1
        <3> QED BY <3>2
    <2>5. T # {}
        OBVIOUS
    <2> HIDE DEF T
    <2>2. PICK d \in T : \A e \in T : d <= e
        BY <2>1, <2>5, LeastNat
    <2>3. PICK x \in s : d = n - x
        BY <2>2 DEF T
    <2>4. \A y \in s : d <= n - y
        BY <2>2 DEF T
    <2> QED BY <2>3, <2>4
<1>2. Max(s) \in s /\ \A y \in s : Max(s) >= y
    BY <1>1 DEF Max
<1> QED BY <1>2

\* The last of the first k positions.
LEMMA MaxOfPrefix ==
    ASSUME NEW n \in Nat, NEW k \in 1..n
    PROVE  Max(1..k) = k /\ (1..k) \ {k} = 1..(k - 1)
<1>1. 1..k \in SUBSET (1..n) /\ 1..k # {} /\ k \in 1..k
    OBVIOUS
<1>2. Max(1..k) \in 1..k /\ \A y \in 1..k : y <= Max(1..k)
    BY <1>1, MaxOfPositions
<1> QED BY <1>1, <1>2

\* The function that a fold evaluates, on the sets of positions.
Folding(g, S, base, n, step) ==
    /\ g \in [SUBSET (1..n) -> S]
    /\ \A s \in SUBSET (1..n) :
          g[s] = IF s = {} THEN base ELSE step[<<g[s \ {Max(s)}], Max(s)>>]

\* There is such a function, for every length.
LEMMA FoldingExists ==
    ASSUME NEW S, NEW base \in S, NEW N \in Nat, NEW step \in [S \X (1..N) -> S]
    PROVE  \E g : Folding(g, S, base, N, step)
<1> DEFINE T == {n \in Nat : n <= N => \E g : Folding(g, S, base, n, step)}
<1>1. 0 \in T
    <2> DEFINE g == [s \in SUBSET (1..0) |-> base]
    <2>1. SUBSET (1..0) = {{}}
        OBVIOUS
    <2>2. Folding(g, S, base, 0, step)
        BY <2>1 DEF Folding
    <2> QED BY <2>2
<1>2. ASSUME NEW n \in Nat, n \in T PROVE n + 1 \in T
    <2> SUFFICES ASSUME n + 1 <= N
                 PROVE  \E h : Folding(h, S, base, n + 1, step)
        OBVIOUS
    <2>1. PICK g : Folding(g, S, base, n, step)
        BY <1>2
    <2> DEFINE h == [s \in SUBSET (1..(n + 1)) |->
                        IF n + 1 \in s THEN step[<<g[s \ {n + 1}], n + 1>>] ELSE g[s]]
    <2>2. ASSUME NEW s \in SUBSET (1..(n + 1)), n + 1 \in s
          PROVE  /\ s \ {n + 1} \in SUBSET (1..n) /\ Max(s) = n + 1
                 /\ h[s \ {n + 1}] = g[s \ {n + 1}]
                 /\ h[s] \in S /\ h[s] = step[<<h[s \ {n + 1}], n + 1>>]
        <3>1. s \ {n + 1} \in SUBSET (1..n)
            OBVIOUS
        <3>2. Max(s) = n + 1
            <4>1. Max(s) \in s /\ \A y \in s : y <= Max(s)
                BY <2>2, MaxOfPositions
            <4>2. Max(s) \in 1..(n + 1) /\ n + 1 <= Max(s)
                BY <4>1, <2>2
            <4> QED BY <4>2
        <3>3. h[s \ {n + 1}] = g[s \ {n + 1}]
            BY <3>1
        <3>4. g[s \ {n + 1}] \in S
            BY <3>1, <2>1 DEF Folding
        <3>5. n + 1 \in 1..N
            OBVIOUS
        <3>6. h[s] = step[<<g[s \ {n + 1}], n + 1>>]
            BY <2>2
        <3> QED BY <3>1, <3>2, <3>3, <3>4, <3>5, <3>6
    <2>3. ASSUME NEW s \in SUBSET (1..(n + 1)), n + 1 \notin s
          PROVE  /\ h[s] = g[s] /\ h[s] \in S
                 /\ s = {} => h[s] = base
                 /\ s # {} => h[s] = step[<<h[s \ {Max(s)}], Max(s)>>]
        <3>1. s \in SUBSET (1..n)
            BY <2>3
        <3>2. h[s] = g[s]
            BY <2>3
        <3>3. g[s] \in S /\ g[s] = IF s = {} THEN base ELSE step[<<g[s \ {Max(s)}], Max(s)>>]
            BY <3>1, <2>1 DEF Folding
        <3>4. h[s \ {Max(s)}] = g[s \ {Max(s)}]
            BY <2>3
        <3> QED BY <3>2, <3>3, <3>4
    <2>4. h \in [SUBSET (1..(n + 1)) -> S]
        BY <2>2, <2>3
    <2>5. ASSUME NEW s \in SUBSET (1..(n + 1))
          PROVE  h[s] = IF s = {} THEN base ELSE step[<<h[s \ {Max(s)}], Max(s)>>]
        <3>1. CASE n + 1 \in s
            BY <3>1, <2>2
        <3>2. CASE n + 1 \notin s
            BY <3>2, <2>3
        <3> QED BY <3>1, <3>2
    <2> HIDE DEF h
    <2> QED BY <2>4, <2>5 DEF Folding
<1>3. Nat \subseteq T
    <2> HIDE DEF T
    <2> QED BY <1>1, <1>2, SetInduction
<1> QED BY <1>3

\* h is computed like that as long as it stays in S.
Unfolds(h, S, base, n, step) ==
    /\ n \in Nat /\ base \in S /\ step \in [S \X (1..n) -> S]
    /\ h[{}] = base
    /\ \A s \in SUBSET (1..n) :
          s # {} /\ h[s \ {Max(s)}] \in S => h[s] = step[<<h[s \ {Max(s)}], Max(s)>>]

\* What is left after each element.
Stages(f, S, base, n, step) ==
    /\ f \in [0..n -> S]
    /\ f[0] = base
    /\ \A k \in 1..n : f[k] = step[<<f[k - 1], k>>]

\* A fold is what is left of base after its elements, one after the other.
LEMMA FoldByPrefix ==
    ASSUME NEW S, NEW base, NEW N, NEW step, NEW h, Unfolds(h, S, base, N, step)
    PROVE  \E f : Stages(f, S, base, N, step) /\ f[N] = h[1..N]
<1>0. N \in Nat /\ base \in S /\ step \in [S \X (1..N) -> S]
    BY DEF Unfolds
<1> DEFINE T == {k \in Nat : k <= N => h[1..k] \in S}
           f == [k \in 0..N |-> h[1..k]]
<1>1. 0 \in T
    <2>1. 1..0 = {}
        OBVIOUS
    <2> QED BY <2>1, <1>0 DEF Unfolds
<1>2. ASSUME NEW k \in 1..N, h[1..(k - 1)] \in S
      PROVE  h[1..k] = step[<<h[1..(k - 1)], k>>] /\ h[1..k] \in S
    <2>1. 1..k \in SUBSET (1..N) /\ 1..k # {} /\ Max(1..k) = k /\ (1..k) \ {k} = 1..(k - 1)
        <3>1. Max(1..k) = k /\ (1..k) \ {k} = 1..(k - 1)
            BY <1>0, MaxOfPrefix
        <3>2. k \in 1..k
            BY <1>0
        <3>3. \A i \in 1..k : i \in 1..N
            BY <1>0
        <3> QED BY <3>1, <3>2, <3>3
    <2>2. h[1..k] = step[<<h[1..(k - 1)], k>>]
        BY <1>2, <2>1 DEF Unfolds
    <2> QED BY <2>2, <1>0, <1>2
<1>3. ASSUME NEW n \in Nat, n \in T PROVE n + 1 \in T
    <2> SUFFICES ASSUME n + 1 <= N PROVE h[1..(n + 1)] \in S
        OBVIOUS
    <2>1. n + 1 \in 1..N /\ (n + 1) - 1 = n /\ h[1..n] \in S
        BY <1>0, <1>3
    <2> HIDE DEF T
    <2> QED BY <2>1, <1>2
<1>4. Nat \subseteq T
    <2> HIDE DEF T
    <2> QED BY <1>1, <1>3, SetInduction
<1>5. \A k \in 0..N : h[1..k] \in S
    BY <1>0, <1>4
<1>6. f \in [0..N -> S] /\ f[N] = h[1..N]
    BY <1>0, <1>5
<1>7. f[0] = base
    <2>1. 1..0 = {} /\ f[0] = h[1..0]
        BY <1>0
    <2> QED BY <2>1 DEF Unfolds
<1>8. ASSUME NEW k \in 1..N PROVE f[k] = step[<<f[k - 1], k>>]
    <2>1. k - 1 \in 0..N /\ k \in 0..N
        BY <1>0
    <2>2. h[1..(k - 1)] \in S
        BY <2>1, <1>5
    <2> QED BY <2>1, <2>2, <1>2
<1> HIDE DEF f
<1> QED BY <1>6, <1>7, <1>8 DEF Stages

-----------------------------------------------------------------------------
(***************************************************************************)
(* A finite set put in the order of a strict relation: an element stands   *)
(* where the number of those before it says.                               *)
(***************************************************************************)
StrictOrder(S, R) ==
    /\ \A a \in S : <<a, a>> \notin R
    /\ \A a, b, c \in S : <<a, b>> \in R /\ <<b, c>> \in R => <<a, c>> \in R
    /\ \A a, b \in S : a # b => <<a, b>> \in R \/ <<b, a>> \in R

Under(S, R, c) == {d \in S : <<d, c>> \in R}

\* The elements of S, each once and each after those before it in R.
Lists(q, S, R) ==
    /\ q \in [1..Cardinality(S) -> S]
    /\ \A c \in S : \E i \in 1..Cardinality(S) : q[i] = c
    /\ \A i, j \in 1..Cardinality(S) : i < j => <<q[i], q[j]>> \in R

\* Who comes first has fewer before it.
LEMMA RanksDiffer ==
    ASSUME NEW S, IsFiniteSet(S), NEW R, StrictOrder(S, R),
           NEW a \in S, NEW b \in S, <<a, b>> \in R
    PROVE  Cardinality(Under(S, R, a)) < Cardinality(Under(S, R, b))
<1>1. IsFiniteSet(Under(S, R, a)) /\ IsFiniteSet(Under(S, R, b))
    BY FS_Subset, Zenon DEF Under
<1>2. a \in Under(S, R, b) /\ Under(S, R, a) \in SUBSET (Under(S, R, b) \ {a})
    BY DEF Under, StrictOrder
<1>3. /\ IsFiniteSet(Under(S, R, b) \ {a})
      /\ Cardinality(Under(S, R, b) \ {a}) = Cardinality(Under(S, R, b)) - 1
    BY <1>1, <1>2, FS_RemoveElement
<1>4. Cardinality(Under(S, R, a)) <= Cardinality(Under(S, R, b) \ {a})
    BY <1>2, <1>3, FS_Subset
<1>5. Cardinality(Under(S, R, a)) \in Nat /\ Cardinality(Under(S, R, b)) \in Nat
    BY <1>1, FS_CardinalityType
<1> QED BY <1>3, <1>4, <1>5

\* The ranks of n elements are 0..(n - 1), each once.
LEMMA RanksCount ==
    ASSUME NEW S, IsFiniteSet(S), NEW R, StrictOrder(S, R)
    PROVE  /\ \A c \in S : Cardinality(Under(S, R, c)) \in 0..(Cardinality(S) - 1)
           /\ \A a, b \in S :
                Cardinality(Under(S, R, a)) < Cardinality(Under(S, R, b)) <=> <<a, b>> \in R
           /\ \A a, b \in S :
                Cardinality(Under(S, R, a)) = Cardinality(Under(S, R, b)) => a = b
           /\ \A k \in 0..(Cardinality(S) - 1) :
                \E c \in S : Cardinality(Under(S, R, c)) = k
<1>1. Cardinality(S) \in Nat
    BY FS_CardinalityType
<1>2. ASSUME NEW c \in S
      PROVE  Cardinality(Under(S, R, c)) \in 0..(Cardinality(S) - 1)
    <2>1. Under(S, R, c) \in SUBSET (S \ {c})
        BY DEF Under, StrictOrder
    <2>2. IsFiniteSet(S \ {c}) /\ Cardinality(S \ {c}) = Cardinality(S) - 1
        BY FS_RemoveElement
    <2>3. /\ IsFiniteSet(Under(S, R, c))
          /\ Cardinality(Under(S, R, c)) <= Cardinality(S \ {c})
        BY <2>1, <2>2, FS_Subset
    <2>4. Cardinality(Under(S, R, c)) \in Nat
        BY <2>3, FS_CardinalityType
    <2> QED BY <1>1, <2>2, <2>3, <2>4
<1>3. ASSUME NEW a \in S, NEW b \in S
      PROVE  /\ <<a, b>> \in R => Cardinality(Under(S, R, a)) < Cardinality(Under(S, R, b))
             /\ <<b, a>> \in R => Cardinality(Under(S, R, b)) < Cardinality(Under(S, R, a))
             /\ a = b \/ <<a, b>> \in R \/ <<b, a>> \in R
    BY RanksDiffer DEF StrictOrder
<1>4. ASSUME NEW a \in S, NEW b \in S
      PROVE  /\ Cardinality(Under(S, R, a)) < Cardinality(Under(S, R, b)) <=> <<a, b>> \in R
             /\ Cardinality(Under(S, R, a)) = Cardinality(Under(S, R, b)) => a = b
    <2>1. Cardinality(Under(S, R, a)) \in Int /\ Cardinality(Under(S, R, b)) \in Int
        BY <1>1, <1>2
    <2>2. CASE a = b
        BY <2>1, <2>2 DEF StrictOrder
    <2>3. CASE <<a, b>> \in R
        <3>1. Cardinality(Under(S, R, a)) < Cardinality(Under(S, R, b))
            BY <2>3, <1>3
        <3>2. Cardinality(Under(S, R, a)) # Cardinality(Under(S, R, b))
            BY <2>1, <3>1
        <3> QED BY <2>3, <3>1, <3>2
    <2>4. CASE <<b, a>> \in R
        <3>1. Cardinality(Under(S, R, b)) < Cardinality(Under(S, R, a))
            BY <2>4, <1>3
        <3>2. ~ (Cardinality(Under(S, R, a)) < Cardinality(Under(S, R, b)))
              /\ Cardinality(Under(S, R, a)) # Cardinality(Under(S, R, b))
            BY <2>1, <3>1
        <3>3. <<a, b>> \notin R
            BY <3>2, <1>3
        <3> QED BY <3>2, <3>3
    <2> QED BY <2>2, <2>3, <2>4, <1>3
<1>5. ASSUME NEW k \in 0..(Cardinality(S) - 1)
      PROVE  \E c \in S : Cardinality(Under(S, R, c)) = k
    <2> DEFINE T == 0..(Cardinality(S) - 1)
               f == [c \in S |-> Cardinality(Under(S, R, c))]
    <2>1. f \in Injection(S, T)
        BY <1>2, <1>4 DEF Injection, IsInjective
    <2>2. IsFiniteSet(T) /\ Cardinality(T) = Cardinality(S)
        BY <1>1, FS_Interval
    <2> HIDE DEF f, T
    <2>3. f \in Surjection(S, T)
        BY <2>1, <2>2, FS_Injection
    <2>4. \A t \in T : \E c \in S : f[c] = t
        BY <2>3 DEF Surjection
    <2> QED BY <2>4 DEF f, T
<1> QED BY <1>2, <1>4, <1>5

\* So the sequence made from the ranks lists the set in order.
LEMMA RankedLists ==
    ASSUME NEW S, IsFiniteSet(S), NEW R, StrictOrder(S, R),
           NEW q, q = [i \in 1..Cardinality(S) |->
                         CHOOSE c \in S : Cardinality(Under(S, R, c)) = i - 1]
    PROVE  Lists(q, S, R)
<1>1. Cardinality(S) \in Nat
    BY FS_CardinalityType
<1>2. ASSUME NEW i \in 1..Cardinality(S)
      PROVE  q[i] \in S /\ Cardinality(Under(S, R, q[i])) = i - 1
    <2>1. i - 1 \in 0..(Cardinality(S) - 1)
        BY <1>1
    <2>2. \E c \in S : Cardinality(Under(S, R, c)) = i - 1
        BY <2>1, RanksCount
    <2>3. q[i] = CHOOSE c \in S : Cardinality(Under(S, R, c)) = i - 1
        OBVIOUS
    <2> QED BY <2>2, <2>3
<1>3. q \in [1..Cardinality(S) -> S]
    BY <1>2
<1>4. ASSUME NEW c \in S PROVE \E i \in 1..Cardinality(S) : q[i] = c
    <2> DEFINE k == Cardinality(Under(S, R, c))
    <2>1. k \in 0..(Cardinality(S) - 1)
        BY RanksCount
    <2>2. k + 1 \in 1..Cardinality(S) /\ (k + 1) - 1 = k
        BY <2>1, <1>1
    <2>3. q[k + 1] \in S /\ Cardinality(Under(S, R, q[k + 1])) = k
        BY <2>2, <1>2
    <2>4. q[k + 1] = c
        BY <2>3, RanksCount
    <2> QED BY <2>2, <2>4
<1>5. ASSUME NEW i \in 1..Cardinality(S), NEW j \in 1..Cardinality(S), i < j
      PROVE  <<q[i], q[j]>> \in R
    <2>1. q[i] \in S /\ q[j] \in S
          /\ Cardinality(Under(S, R, q[i])) < Cardinality(Under(S, R, q[j]))
        BY <1>2, <1>5
    <2> QED BY <2>1, RanksCount
<1> QED BY <1>3, <1>4, <1>5 DEF Lists

-----------------------------------------------------------------------------
(***************************************************************************)
(* The selection of an issue (DailySelect).                                *)
(***************************************************************************)
\* Keys of integers of one length are ordered, by the first that differs.
LEMMA BeforeIsStrict ==
    ASSUME NEW n \in Nat, NEW s \in [1..n -> Int], NEW t \in [1..n -> Int]
    PROVE  /\ ~Before(s, s)
           /\ \A u \in [1..n -> Int] : Before(s, t) /\ Before(t, u) => Before(s, u)
           /\ s # t => Before(s, t) \/ Before(t, s)
<1>1. ~Before(s, s)
    BY DEF Before
<1>2. ASSUME NEW u \in [1..n -> Int], Before(s, t), Before(t, u)
      PROVE  Before(s, u)
    <2>1. PICK i \in 1..n : s[i] > t[i] /\ \A j \in 1..(i - 1) : s[j] = t[j]
        BY <1>2 DEF Before
    <2>2. PICK k \in 1..n : t[k] > u[k] /\ \A j \in 1..(k - 1) : t[j] = u[j]
        BY <1>2 DEF Before
    <2>3. CASE i < k
        <3>1. t[i] = u[i] /\ \A j \in 1..(i - 1) : t[j] = u[j]
            BY <2>2, <2>3
        <3>2. s[i] > u[i] /\ \A j \in 1..(i - 1) : s[j] = u[j]
            BY <2>1, <3>1
        <3> QED BY <3>2 DEF Before
    <2>4. CASE i = k
        <3>1. s[i] > u[i] /\ \A j \in 1..(i - 1) : s[j] = u[j]
            BY <2>1, <2>2, <2>4
        <3> QED BY <3>1 DEF Before
    <2>5. CASE k < i
        <3>1. s[k] = t[k] /\ \A j \in 1..(k - 1) : s[j] = t[j]
            BY <2>1, <2>5
        <3>2. s[k] > u[k] /\ \A j \in 1..(k - 1) : s[j] = u[j]
            BY <2>2, <3>1
        <3> QED BY <3>2 DEF Before
    <2> QED BY <2>3, <2>4, <2>5
<1>3. ASSUME s # t PROVE Before(s, t) \/ Before(t, s)
    <2> DEFINE D == {i \in 1..n : s[i] # t[i]}
    <2>1. D \subseteq Nat /\ D # {}
        BY <1>3
    <2> HIDE DEF D
    <2>2. PICK i \in D : \A m \in D : i <= m
        BY <2>1, LeastNat
    <2>3. i \in 1..n /\ s[i] # t[i] /\ \A j \in 1..(i - 1) : s[j] = t[j]
        BY <2>2 DEF D
    <2>4. s[i] > t[i] \/ t[i] > s[i]
        BY <2>3
    <2> QED BY <2>3, <2>4 DEF Before
<1> QED BY <1>1, <1>2, <1>3

\* A candidate as the store has it: what its scores may be.
Scored(c) ==
    /\ c.concrete \in Int /\ c.verification \in Int /\ c.confidence \in Int
    /\ c.found \in Int /\ c.id \in Int
    /\ c.grade \in {"recommended", "related", "low_priority", Ungraded}

Candidates(pool) ==
    /\ IsFiniteSet(pool)
    /\ \A c \in pool : Scored(c)
    /\ \A c, d \in pool : c.id = d.id => c = d

Weights(prior) == \A key \in DOMAIN prior : prior[key] \in Int

Better(prior, pool) == {p \in pool \X pool : compareDigestCandidates(prior, p[1], p[2])}

\* compareDigestCandidates orders the candidates strictly.
LEMMA CandidatesAreOrdered ==
    ASSUME NEW pool, Candidates(pool), NEW prior, Weights(prior)
    PROVE  /\ StrictOrder(pool, Better(prior, pool))
           /\ \A c, d \in pool :
                <<c, d>> \in Better(prior, pool) <=> compareDigestCandidates(prior, c, d)
<1> DEFINE Score(c) == <<c.concrete, c.verification, c.confidence,
                         IF digestSourceKey(c) \in DOMAIN prior
                         THEN prior[digestSourceKey(c)] ELSE 0,
                         c.found, c.id>>
<1>1. \A c \in pool : Score(c) \in [1..6 -> Int]
    <2> SUFFICES ASSUME NEW c \in pool PROVE Score(c) \in [1..6 -> Int]
        OBVIOUS
    <2> DEFINE w == IF digestSourceKey(c) \in DOMAIN prior
                    THEN prior[digestSourceKey(c)] ELSE 0
    <2>1. w \in Int
        BY DEF Weights
    <2>2. /\ c.concrete \in Int /\ c.verification \in Int /\ c.confidence \in Int
          /\ c.found \in Int /\ c.id \in Int
        BY DEF Candidates, Scored
    <2> HIDE DEF w
    <2>3. <<c.concrete, c.verification, c.confidence, w, c.found, c.id>> \in [1..6 -> Int]
        BY <2>1, <2>2
    <2> QED BY <2>3 DEF w
<1>2. \A c, d \in pool : c # d => Score(c) # Score(d)
    BY DEF Candidates
<1>3. \A c, d \in pool : compareDigestCandidates(prior, c, d) <=> Before(Score(c), Score(d))
    BY DEF compareDigestCandidates
<1>4. \A c, d \in pool :
        <<c, d>> \in Better(prior, pool) <=> Before(Score(c), Score(d))
    BY <1>3 DEF Better
<1> HIDE DEF Score
<1>5. \A c, d, e \in pool :
        /\ ~Before(Score(c), Score(c))
        /\ Before(Score(c), Score(d)) /\ Before(Score(d), Score(e)) => Before(Score(c), Score(e))
        /\ c # d => Before(Score(c), Score(d)) \/ Before(Score(d), Score(c))
    BY <1>1, <1>2, BeforeIsStrict
<1>6. StrictOrder(pool, Better(prior, pool))
    BY <1>4, <1>5 DEF StrictOrder
<1> QED BY <1>3, <1>4, <1>6

\* FlattenSeq appends one sequence after the other.
LEMMA FlattenByPrefix ==
    ASSUME NEW E, NEW N \in Nat, NEW seqs \in [1..N -> Seq(E)]
    PROVE  \E f \in [0..N -> Seq(E)] : /\ f[0] = <<>>
                                       /\ \A k \in 1..N : f[k] = f[k - 1] \o seqs[k]
                                       /\ f[N] = FlattenSeq(seqs)
<1>1. Len(seqs) = N /\ seqs \in Seq(Seq(E))
    <2>1. seqs \in Seq(Seq(E))
        BY SeqDef
    <2> QED BY <2>1, LenProperties
<1>2. CASE N = 0
    <2>1. FlattenSeq(seqs) = seqs /\ seqs = <<>>
        BY <1>1, <1>2, EmptySeq DEF FlattenSeq
    <2> DEFINE f == [k \in 0..N |-> <<>>]
    <2>2. f \in [0..N -> Seq(E)] /\ f[0] = <<>> /\ f[N] = FlattenSeq(seqs)
        BY <2>1
    <2>3. \A k \in 1..N : f[k] = f[k - 1] \o seqs[k]
        BY <1>2
    <2> HIDE DEF f
    <2> QED BY <2>2, <2>3
<1>3. CASE N # 0
    <2> DEFINE W(h) == h = [i \in 1..N |-> IF i = 1 THEN seqs[i] ELSE h[i - 1] \o seqs[i]]
               step == [p \in Seq(E) \X (1..N) |-> p[1] \o seqs[p[2]]]
    <2>1. step \in [Seq(E) \X (1..N) -> Seq(E)]
        BY ConcatProperties
    <2>2. <<>> \in Seq(E)
        BY EmptySeq
    <2>3. PICK g : Folding(g, Seq(E), <<>>, N, step)
        BY <2>1, <2>2, FoldingExists
    <2> DEFINE w == [i \in 1..N |-> g[1..i]]
    <2>4. ASSUME NEW i \in 1..N
          PROVE  w[i] = IF i = 1 THEN seqs[i] ELSE w[i - 1] \o seqs[i]
        <3>1. 1..i \in SUBSET (1..N) /\ 1..(i - 1) \in SUBSET (1..N) /\ 1..i # {}
            <4>1. i \in 1..i
                OBVIOUS
            <4>2. \A k \in 1..i : k \in 1..N
                OBVIOUS
            <4>3. \A k \in 1..(i - 1) : k \in 1..N
                OBVIOUS
            <4> HIDE DEF W, w, step
            <4> QED BY <4>1, <4>2, <4>3
        <3>2. Max(1..i) = i /\ (1..i) \ {i} = 1..(i - 1)
            BY MaxOfPrefix
        <3>3. g[1..i] = step[<<g[1..(i - 1)], i>>] /\ g[1..(i - 1)] \in Seq(E)
            BY <2>3, <3>1, <3>2 DEF Folding
        <3>4. g[1..i] = g[1..(i - 1)] \o seqs[i]
            BY <3>3
        <3>5. CASE i = 1
            <4>1. 1..(i - 1) = {}
                BY <3>5
            <4>2. g[1..(i - 1)] = <<>>
                BY <4>1, <2>3 DEF Folding
            <4>3. seqs[i] \in Seq(E)
                OBVIOUS
            <4>4. <<>> \o seqs[i] = seqs[i]
                BY <4>3, ConcatEmptySeq
            <4> QED BY <3>5, <3>4, <4>2, <4>4
        <3>6. CASE i # 1
            BY <3>4, <3>6, SMTT(30)
        <3> QED BY <3>5, <3>6
    <2>5. W(w)
        BY <2>4
    <2> DEFINE h == CHOOSE h : W(h)
    <2>6. W(h)
        <3> HIDE DEF W, w
        <3> QED BY <2>5
    <2>7. FlattenSeq(seqs) = h[N]
        BY <1>1, <1>3 DEF FlattenSeq
    <2>8. \A i \in 1..N : h[i] = IF i = 1 THEN seqs[i] ELSE h[i - 1] \o seqs[i]
        <3> HIDE DEF h
        <3> QED BY <2>6
    <2> HIDE DEF h, W, w, step
    <2> DEFINE f == [k \in 0..N |-> IF k = 0 THEN <<>> ELSE h[k]]
               T == {k \in Nat : k <= N => f[k] \in Seq(E)}
    <2>9. ASSUME NEW k \in 1..N PROVE f[k] = f[k - 1] \o seqs[k]
        <3>1. CASE k = 1
            <4>1. seqs[k] \in Seq(E)
                OBVIOUS
            <4>2. <<>> \o seqs[k] = seqs[k]
                BY <4>1, ConcatEmptySeq
            <4>3. f[k] = seqs[k] /\ f[k - 1] = <<>>
                BY <3>1, <2>8
            <4> QED BY <4>2, <4>3
        <3>2. CASE k # 1
            <4>1. k - 1 \in 0..N /\ k - 1 # 0
                BY <3>2
            <4>2. h[k] = h[k - 1] \o seqs[k]
                BY <3>2, <2>8
            <4> QED BY <4>1, <4>2
        <3> QED BY <3>1, <3>2
    <2>10. 0 \in T
        BY <2>2
    <2>11. ASSUME NEW k \in Nat, k \in T PROVE k + 1 \in T
        <3> SUFFICES ASSUME k + 1 <= N PROVE f[k + 1] \in Seq(E)
            OBVIOUS
        <3>1. k + 1 \in 1..N /\ (k + 1) - 1 = k /\ f[k] \in Seq(E)
            BY <2>11
        <3> HIDE DEF f, T
        <3>2. f[k + 1] = f[k] \o seqs[k + 1] /\ seqs[k + 1] \in Seq(E)
            BY <3>1, <2>9
        <3> QED BY <3>1, <3>2, ConcatProperties
    <2>12. Nat \subseteq T
        <3> HIDE DEF T
        <3> QED BY <2>10, <2>11, SetInduction
    <2>13. f \in [0..N -> Seq(E)]
        <3>1. \A k \in 0..N : f[k] \in Seq(E)
            <4> HIDE DEF f
            <4> QED BY <2>12
        <3> QED BY <3>1
    <2>14. f[0] = <<>> /\ f[N] = FlattenSeq(seqs)
        BY <2>7, <1>3
    <2> HIDE DEF f
    <2> QED BY <2>9, <2>13, <2>14
<1> QED BY <1>2, <1>3

\* Where the k-th of the sequences ends in all of them.
Ends(off, seqs, N) ==
    /\ off \in [0..N -> Nat]
    /\ off[0] = 0
    /\ \A b \in 1..N : off[b] = off[b - 1] + Len(seqs[b])

\* q has the elements of all the sequences, each where off says.
Flattened(q, seqs, N, off) ==
    /\ Ends(off, seqs, N)
    /\ Len(q) = off[N]
    /\ \A b \in 1..N : \A i \in 1..Len(seqs[b]) :
          off[b - 1] + i \in 1..off[N] /\ q[off[b - 1] + i] = seqs[b][i]
    /\ \A k \in 1..off[N] : \E b \in 1..N : \E i \in 1..Len(seqs[b]) : k = off[b - 1] + i
    /\ \A b, c \in 1..N : b < c => off[b] <= off[c - 1]

\* Every position of the whole is one of exactly one of the sequences.
LEMMA FlattenPositions ==
    ASSUME NEW E, NEW N \in Nat, NEW seqs \in [1..N -> Seq(E)]
    PROVE  /\ FlattenSeq(seqs) \in Seq(E)
           /\ \E off : Flattened(FlattenSeq(seqs), seqs, N, off)
<1>1. PICK f \in [0..N -> Seq(E)] : /\ f[0] = <<>>
                                    /\ \A k \in 1..N : f[k] = f[k - 1] \o seqs[k]
                                    /\ f[N] = FlattenSeq(seqs)
    BY FlattenByPrefix, ZenonT(30)
<1> DEFINE off == [k \in 0..N |-> Len(f[k])]
           Good(n) ==
              /\ \A b \in 1..n : \A i \in 1..Len(seqs[b]) :
                    off[b - 1] + i \in 1..off[n] /\ f[n][off[b - 1] + i] = seqs[b][i]
              /\ \A k \in 1..off[n] : \E b \in 1..n : \E i \in 1..Len(seqs[b]) :
                    k = off[b - 1] + i
              /\ \A b \in 1..n : off[b] <= off[n]
           T == {n \in Nat : n <= N => Good(n)}
<1>2. \A k \in 0..N : f[k] \in Seq(E) /\ Len(f[k]) \in Nat
    BY LenProperties
<1>3. \A b \in 1..N : seqs[b] \in Seq(E) /\ Len(seqs[b]) \in Nat
    BY LenProperties
<1>4. ASSUME NEW b \in 1..N
      PROVE  /\ off[b] = off[b - 1] + Len(seqs[b])
             /\ \A i \in 1..off[b] : f[b][i] = IF i <= off[b - 1] THEN f[b - 1][i]
                                              ELSE seqs[b][i - off[b - 1]]
    <2>1. b \in 0..N /\ b - 1 \in 0..N
        OBVIOUS
    <2>2. f[b] = f[b - 1] \o seqs[b] /\ f[b - 1] \in Seq(E) /\ seqs[b] \in Seq(E)
        BY <1>1, <1>2, <1>3, <2>1
    <2> QED BY <2>1, <2>2, ConcatProperties
<1>5. off \in [0..N -> Nat] /\ off[0] = 0
    BY <1>1, <1>2
<1>6. Ends(off, seqs, N)
    <2> HIDE DEF off
    <2> QED BY <1>4, <1>5 DEF Ends
<1>7. off[N] = Len(FlattenSeq(seqs)) /\ FlattenSeq(seqs) \in Seq(E)
    BY <1>1, <1>2
<1> HIDE DEF off
<1>8. 0 \in T
    BY <1>5
<1>9. ASSUME NEW n \in Nat, n \in T PROVE n + 1 \in T
    <2> SUFFICES ASSUME n + 1 <= N PROVE Good(n + 1)
        <3> HIDE DEF Good
        <3> QED OBVIOUS
    <2>7. Good(n)
        <3> HIDE DEF Good
        <3> QED BY <1>9
    <2>1. /\ n + 1 \in 1..N /\ (n + 1) - 1 = n /\ n \in 0..N
          /\ off[n] \in Nat /\ off[n + 1] \in Nat
        <3> HIDE DEF Good
        <3>1. n <= N
            OBVIOUS
        <3> QED BY <3>1, <1>5
    <2>2. off[n + 1] = off[n] + Len(seqs[n + 1]) /\ Len(seqs[n + 1]) \in Nat
        BY <2>1, <1>3, <1>4
    <2>3. \A i \in 1..off[n + 1] : f[n + 1][i] = IF i <= off[n] THEN f[n][i]
                                                  ELSE seqs[n + 1][i - off[n]]
        BY <2>1, <1>4
    <2>4. ASSUME NEW b \in 1..(n + 1), NEW i \in 1..Len(seqs[b])
          PROVE  off[b - 1] + i \in 1..off[n + 1] /\ f[n + 1][off[b - 1] + i] = seqs[b][i]
        <3>1. CASE b \in 1..n
            <4>1. off[b - 1] + i \in 1..off[n] /\ f[n][off[b - 1] + i] = seqs[b][i]
                BY <2>7, <3>1
            <4>2. off[b - 1] + i \in 1..off[n + 1] /\ off[b - 1] + i <= off[n]
                <5>1. off[b - 1] + i \in Int /\ 1 <= off[b - 1] + i /\ off[b - 1] + i <= off[n]
                    BY <4>1, <2>1
                <5>2. off[n] <= off[n + 1]
                    BY <2>1, <2>2, SMTT(30)
                <5>3. off[b - 1] + i <= off[n + 1]
                    BY <5>1, <5>2, <2>1, SMTT(30)
                <5> QED BY <5>1, <5>3, <2>1
            <4> HIDE DEF Good
            <4> QED BY <4>1, <4>2, <2>3
        <3>2. CASE b = n + 1
            <4>1. off[b - 1] = off[n] /\ i \in 1..Len(seqs[n + 1])
                BY <3>2, <2>1
            <4>2. off[n] + i \in 1..off[n + 1] /\ ~ (off[n] + i <= off[n])
                  /\ (off[n] + i) - off[n] = i
                <5>1. i \in Nat /\ i >= 1 /\ i <= Len(seqs[n + 1])
                    BY <4>1, <2>2
                <5>2. off[n] + i \in Int /\ 1 <= off[n] + i
                    BY <5>1, <2>1, SMTT(30)
                <5>4. off[n] + i <= off[n] + Len(seqs[n + 1])
                    BY <5>1, <2>1, <2>2, SMTT(30)
                <5>3. ~ (off[n] + i <= off[n]) /\ (off[n] + i) - off[n] = i
                    BY <5>1, <2>1, SMTT(30)
                <5>5. off[n] + i <= off[n + 1]
                    BY <5>4, <2>2
                <5> QED BY <5>2, <5>3, <5>5, <2>1
            <4>3. f[n + 1][off[n] + i] = seqs[n + 1][i]
                BY <4>2, <2>3
            <4> QED BY <4>1, <4>2, <4>3, <3>2
        <3> QED BY <3>1, <3>2
    <2>5. ASSUME NEW k \in 1..off[n + 1]
          PROVE  \E b \in 1..(n + 1) : \E i \in 1..Len(seqs[b]) : k = off[b - 1] + i
        <3>1. CASE k <= off[n]
            <4>1. k \in 1..off[n]
                BY <3>1, <2>1
            <4>2. PICK b \in 1..n : \E i \in 1..Len(seqs[b]) : k = off[b - 1] + i
                BY <4>1, <2>7
            <4>3. b \in 1..(n + 1)
                BY <2>1
            <4> QED BY <4>2, <4>3
        <3>2. CASE ~ (k <= off[n])
            <4>1. k - off[n] \in 1..Len(seqs[n + 1]) /\ k = off[n] + (k - off[n])
                BY <3>2, <2>1, <2>2, SMTT(30)
            <4>2. n + 1 \in 1..(n + 1)
                BY <2>1
            <4> QED BY <4>1, <4>2, <2>1
        <3> QED BY <3>1, <3>2
    <2>6. ASSUME NEW b \in 1..(n + 1) PROVE off[b] <= off[n + 1]
        <3>1. off[b] \in Nat
            BY <1>5, <2>1, SMTT(30)
        <3>2. CASE b = n + 1
            BY <3>1, <3>2
        <3>3. CASE b \in 1..n
            <4>1. off[b] <= off[n]
                BY <2>7, <3>3
            <4> QED BY <4>1, <3>1, <2>1, <2>2, SMTT(30)
        <3> QED BY <3>2, <3>3
    <2> HIDE DEF T
    <2> QED BY <2>4, <2>5, <2>6
<1>10. Nat \subseteq T
    <2> HIDE DEF T
    <2> QED BY <1>8, <1>9, SetInduction
<1>11. \A n \in 0..N : Good(n)
    BY <1>10, SMTT(30)
<1>12. ASSUME NEW b \in 1..N, NEW c \in 1..N, b < c PROVE off[b] <= off[c - 1]
    <2>1. c - 1 \in 0..N /\ b \in 1..(c - 1)
        BY <1>12
    <2>2. Good(c - 1)
        BY <2>1, <1>11
    <2> QED BY <2>1, <2>2
<1>13. Good(N)
    <2>1. N \in 0..N
        OBVIOUS
    <2> HIDE DEF Good
    <2> QED BY <2>1, <1>11
<1>14. /\ \A b \in 1..N : \A i \in 1..Len(seqs[b]) :
            off[b - 1] + i \in 1..off[N] /\ FlattenSeq(seqs)[off[b - 1] + i] = seqs[b][i]
       /\ \A k \in 1..off[N] : \E b \in 1..N : \E i \in 1..Len(seqs[b]) : k = off[b - 1] + i
    BY <1>13, <1>1
<1> HIDE DEF Good
<1>15. Flattened(FlattenSeq(seqs), seqs, N, off)
    BY <1>6, <1>7, <1>12, <1>14 DEF Flattened
<1> QED BY <1>7, <1>15

Wanted(pool, used) ==
    {c \in pool : isDigestEligible(c) /\ digestHasSubstance(c) /\ c.id \notin used}

\* What is said of a pool holds of a part of it.
LEMMA SubsetOfCandidates ==
    ASSUME NEW pool, Candidates(pool), NEW S \in SUBSET pool
    PROVE  Candidates(S)
<1>1. IsFiniteSet(S)
    BY FS_Subset DEF Candidates
<1> QED BY <1>1 DEF Candidates

\* Ranked lists a bucket from its best down.
LEMMA RankedListsTheTakable ==
    ASSUME NEW pool, Candidates(pool), NEW prior, Weights(prior), NEW used, NEW bucket
    PROVE  Lists(Ranked(pool, used, prior, bucket), Takable(pool, used, bucket),
                 Better(prior, Takable(pool, used, bucket)))
<1> DEFINE S == Takable(pool, used, bucket)
           R == Better(prior, S)
<1>1. Candidates(S)
    BY SubsetOfCandidates DEF Takable
<1>2. /\ StrictOrder(S, R) /\ IsFiniteSet(S)
      /\ \A c, d \in S : <<c, d>> \in R <=> compareDigestCandidates(prior, c, d)
    BY <1>1, CandidatesAreOrdered DEF Candidates
<1>3. \A c \in S : {d \in S : compareDigestCandidates(prior, d, c)} = Under(S, R, c)
    <2> HIDE DEF S, R
    <2> QED BY <1>2 DEF Under
<1>4. Ranked(pool, used, prior, bucket) =
        [i \in 1..Cardinality(S) |->
            CHOOSE c \in S : Cardinality({d \in S : compareDigestCandidates(prior, d, c)}) = i - 1]
    BY DEF Ranked, InOrder
<1> HIDE DEF S, R
<1>5. \A i : (CHOOSE c \in S : Cardinality({d \in S : compareDigestCandidates(prior, d, c)}) = i - 1)
             = (CHOOSE c \in S : Cardinality(Under(S, R, c)) = i - 1)
    <2> SUFFICES ASSUME NEW i
                 PROVE  (CHOOSE c \in S : Cardinality({d \in S : compareDigestCandidates(prior, d, c)}) = i - 1)
                        = (CHOOSE c \in S : Cardinality(Under(S, R, c)) = i - 1)
        OBVIOUS
    <2>1. \A c : (c \in S /\ Cardinality({d \in S : compareDigestCandidates(prior, d, c)}) = i - 1)
                  <=> (c \in S /\ Cardinality(Under(S, R, c)) = i - 1)
        BY <1>3
    <2> QED BY <2>1
<1>6. Ranked(pool, used, prior, bucket) =
        [i \in 1..Cardinality(S) |-> CHOOSE c \in S : Cardinality(Under(S, R, c)) = i - 1]
    BY <1>4, <1>5, Zenon
<1>7. Lists(Ranked(pool, used, prior, bucket), S, R)
    BY <1>2, <1>6, RankedLists
<1> QED BY <1>7 DEF S, R

\* The candidates in the order they are tried.
Tried(pool, used, prior) ==
    FlattenSeq([b \in DOMAIN Buckets |-> Ranked(pool, used, prior, Buckets[b])])

\* Every candidate wanted is tried once, the better of a bucket first.
LEMMA TriedInOrder ==
    ASSUME NEW pool, Candidates(pool), NEW prior, Weights(prior), NEW used
    PROVE  LET q == Tried(pool, used, prior)
               W == Wanted(pool, used)
           IN  /\ q \in Seq(W)
               /\ \A c \in W : \E i \in 1..Len(q) : q[i] = c
               /\ \A i, j \in 1..Len(q) :
                    i < j => /\ q[i] # q[j]
                             /\ digestBucketOfGrade(q[i].grade) = digestBucketOfGrade(q[j].grade)
                                => compareDigestCandidates(prior, q[i], q[j])
<1> DEFINE W == Wanted(pool, used)
           B(b) == Takable(pool, used, Buckets[b])
           seqs == [b \in 1..3 |-> Ranked(pool, used, prior, Buckets[b])]
<1>1. DOMAIN Buckets = 1..3 /\ Buckets[1] = "deep" /\ Buckets[2] = "tech" /\ Buckets[3] = "general"
    BY DEF Buckets
<1>2. Tried(pool, used, prior) = FlattenSeq(seqs)
    BY <1>1 DEF Tried
<1>3. ASSUME NEW b \in 1..3
      PROVE  /\ B(b) \subseteq W
             /\ \A c \in B(b) : digestBucketOfGrade(c.grade) = Buckets[b]
             /\ IsFiniteSet(B(b)) /\ Cardinality(B(b)) \in Nat
             /\ Lists(seqs[b], B(b), Better(prior, B(b)))
    <2>1. B(b) \subseteq W /\ B(b) \subseteq pool
        BY DEF Takable, Wanted
    <2>2. \A c \in B(b) : digestBucketOfGrade(c.grade) = Buckets[b]
        BY DEF Takable
    <2>3. IsFiniteSet(B(b))
        BY <2>1, FS_Subset DEF Candidates
    <2>4. Lists(seqs[b], B(b), Better(prior, B(b)))
        BY RankedListsTheTakable
    <2> QED BY <2>1, <2>2, <2>3, <2>4, FS_CardinalityType
<1>4. \A c \in W : \E b \in 1..3 : c \in B(b)
    <2> SUFFICES ASSUME NEW c \in W PROVE \E b \in 1..3 : c \in B(b)
        OBVIOUS
    <2>1. c \in pool /\ c.grade \in {"recommended", "related", "low_priority"}
        BY DEF Wanted, Candidates, Scored, digestHasSubstance
    <2>2. digestBucketOfGrade(c.grade) \in {"deep", "tech", "general"}
        BY <2>1 DEF digestBucketOfGrade
    <2>3. PICK b \in 1..3 : digestBucketOfGrade(c.grade) = Buckets[b]
        BY <2>2, <1>1
    <2>4. c \in B(b)
        BY <2>3 DEF Wanted, Takable
    <2> QED BY <2>4
<1> HIDE DEF W, B
<1>5. \A b \in 1..3 : seqs[b] \in Seq(W) /\ Len(seqs[b]) = Cardinality(B(b))
    <2> SUFFICES ASSUME NEW b \in 1..3
                 PROVE  seqs[b] \in Seq(W) /\ Len(seqs[b]) = Cardinality(B(b))
        OBVIOUS
    <2> HIDE DEF seqs
    <2>1. seqs[b] \in [1..Cardinality(B(b)) -> B(b)] /\ Cardinality(B(b)) \in Nat
        BY <1>3 DEF Lists
    <2>2. seqs[b] \in Seq(B(b))
        BY <2>1, SeqDef
    <2>3. seqs[b] \in Seq(W)
        BY <2>2, <1>3, SeqMonotonic
    <2>4. Len(seqs[b]) = Cardinality(B(b))
        BY <2>1, <2>2, LenProperties
    <2> QED BY <2>3, <2>4
<1>6. seqs \in [1..3 -> Seq(W)]
    BY <1>5
<1> HIDE DEF seqs
<1> DEFINE q == Tried(pool, used, prior)
<1>7. q \in Seq(W) /\ \E off : Flattened(q, seqs, 3, off)
    <2>1. 3 \in Nat
        OBVIOUS
    <2>2. FlattenSeq(seqs) \in Seq(W) /\ \E off : Flattened(FlattenSeq(seqs), seqs, 3, off)
        BY <2>1, <1>6, FlattenPositions
    <2> QED BY <2>2, <1>2
<1>8. PICK off : Flattened(q, seqs, 3, off)
    BY <1>7
<1> HIDE DEF q
<1>9. ASSUME NEW c \in W PROVE \E i \in 1..Len(q) : q[i] = c
    <2>1. PICK b \in 1..3 : c \in B(b)
        BY <1>4
    <2>2. PICK i \in 1..Len(seqs[b]) : seqs[b][i] = c
        <3>1. Lists(seqs[b], B(b), Better(prior, B(b))) /\ Len(seqs[b]) = Cardinality(B(b))
            BY <1>3, <1>5
        <3> QED BY <3>1, <2>1 DEF Lists
    <2>3. off[b - 1] + i \in 1..Len(q) /\ q[off[b - 1] + i] = c
        BY <2>2, <1>8 DEF Flattened
    <2> QED BY <2>3
<1>10. ASSUME NEW i \in 1..Len(q), NEW j \in 1..Len(q), i < j
       PROVE  /\ q[i] # q[j]
              /\ digestBucketOfGrade(q[i].grade) = digestBucketOfGrade(q[j].grade)
                 => compareDigestCandidates(prior, q[i], q[j])
    <2>8. PICK b \in 1..3 : \E x \in 1..Len(seqs[b]) : i = off[b - 1] + x
        BY <1>8 DEF Flattened
    <2>1. PICK x \in 1..Len(seqs[b]) : i = off[b - 1] + x
        BY <2>8
    <2>9. PICK c \in 1..3 : \E y \in 1..Len(seqs[c]) : j = off[c - 1] + y
        BY <1>8 DEF Flattened
    <2>2. PICK y \in 1..Len(seqs[c]) : j = off[c - 1] + y
        BY <2>9
    <2>3. q[i] = seqs[b][x] /\ q[j] = seqs[c][y]
        BY <2>1, <2>2, <1>8 DEF Flattened
    <2>4. q[i] \in B(b) /\ q[j] \in B(c)
        BY <2>3, <1>3, <1>5, ZenonT(60) DEF Lists
    <2>5. digestBucketOfGrade(q[i].grade) = Buckets[b] /\ digestBucketOfGrade(q[j].grade) = Buckets[c]
        BY <2>4, <1>3
    <2>6. CASE b = c
        <3>1. off[b - 1] \in Nat /\ x \in Int /\ y \in Int
            <4>1. b - 1 \in 0..3
                OBVIOUS
            <4> QED BY <4>1, <1>8, SMTT(30) DEF Ends, Flattened
        <3>2. x < y
            BY <3>1, <2>1, <2>2, <2>6, <1>10
        <3>3. <<q[i], q[j]>> \in Better(prior, B(b))
            <4>1. Lists(seqs[b], B(b), Better(prior, B(b))) /\ Len(seqs[b]) = Cardinality(B(b))
                BY <1>3, <1>5
            <4>2. \A k, l \in 1..Len(seqs[b]) :
                    k < l => <<seqs[b][k], seqs[b][l]>> \in Better(prior, B(b))
                BY <4>1 DEF Lists
            <4> QED BY <4>2, <3>2, <2>3, <2>6
        <3>4. StrictOrder(B(b), Better(prior, B(b)))
              /\ compareDigestCandidates(prior, q[i], q[j])
            <4>1. Candidates(B(b))
                <5>1. B(b) \subseteq pool
                    BY DEF B, Takable
                <5> QED BY <5>1, SubsetOfCandidates
            <4> QED BY <4>1, <3>3, <2>4, <2>6, CandidatesAreOrdered
        <3>5. q[i] # q[j]
            BY <3>3, <3>4, <2>4 DEF StrictOrder
        <3> QED BY <3>4, <3>5
    <2>7. CASE b # c
        <3>1. Buckets[b] # Buckets[c]
            BY <2>7, <1>1
        <3> QED BY <3>1, <2>5
    <2> QED BY <2>6, <2>7
<1> QED BY <1>7, <1>9, <1>10 DEF W, q

\* The fold of take is what is chosen after each candidate.
LEMMA TakeByPrefix ==
    ASSUME NEW W, NEW q \in Seq(W)
    PROVE  \E f \in [0..Len(q) -> Seq(W)] :
              /\ f[0] = <<>>
              /\ \A k \in 1..Len(q) : f[k] = take(f[k - 1], q[k])
              /\ f[Len(q)] = FoldLeft(take, <<>>, q)
<1> DEFINE N == Len(q)
           step == [p \in Seq(W) \X (1..N) |-> take(p[1], q[p[2]])]
           V(h) == h = [s \in SUBSET (1..N) |->
                          IF s = {} THEN <<>> ELSE take(h[s \ {Max(s)}], q[Max(s)])]
           h == CHOOSE h : V(h)
<1>1. N \in Nat /\ DOMAIN q = 1..N /\ \A k \in 1..N : q[k] \in W
    BY LenProperties, ElementOfSeq
<1>2. \A s \in Seq(W), c \in W : take(s, c) \in Seq(W)
    <2>1. \A s \in Seq(W), c \in W : Append(s, c) \in Seq(W)
        BY AppendProperties
    <2> QED BY <2>1 DEF take
<1>3. step \in [Seq(W) \X (1..N) -> Seq(W)]
    BY <1>1, <1>2
<1>4. <<>> \in Seq(W)
    BY EmptySeq
<1>5. FoldLeft(take, <<>>, q) = h[1..N]
    BY <1>1 DEF FoldLeft, MapThenFoldSet
<1>6. \A s \in Seq(W), k \in 1..N : step[<<s, k>>] = take(s, q[k])
    OBVIOUS
<1>7. PICK g : Folding(g, Seq(W), <<>>, N, step)
    <2> HIDE DEF step, N
    <2> QED BY <1>1, <1>3, <1>4, FoldingExists
<1> HIDE DEF step, N
<1>8. V(g)
    <2>1. ASSUME NEW s \in SUBSET (1..N)
          PROVE  g[s] = IF s = {} THEN <<>> ELSE take(g[s \ {Max(s)}], q[Max(s)])
        <3>1. CASE s = {}
            BY <3>1, <1>7 DEF Folding
        <3>2. CASE s # {}
            <4>1. Max(s) \in 1..N
                BY <3>2, <1>1, MaxOfPositions
            <4>2. g[s] = step[<<g[s \ {Max(s)}], Max(s)>>] /\ g[s \ {Max(s)}] \in Seq(W)
                BY <3>2, <1>7 DEF Folding
            <4> QED BY <3>2, <4>1, <4>2, <1>6
        <3> QED BY <3>1, <3>2
    <2>2. g \in [SUBSET (1..N) -> Seq(W)]
        BY <1>7 DEF Folding
    <2> QED BY <2>1, <2>2
<1>9. V(h)
    <2> HIDE DEF V
    <2> QED BY <1>8
<1>10. /\ h[{}] = <<>>
       /\ \A s \in SUBSET (1..N) : s # {} => h[s] = take(h[s \ {Max(s)}], q[Max(s)])
    <2> HIDE DEF h
    <2> QED BY <1>9
<1> HIDE DEF h, V
<1>11. ASSUME NEW s \in SUBSET (1..N), s # {}, h[s \ {Max(s)}] \in Seq(W)
       PROVE  h[s] = step[<<h[s \ {Max(s)}], Max(s)>>]
    <2>1. Max(s) \in 1..N
        BY <1>11, <1>1, MaxOfPositions
    <2> QED BY <2>1, <1>6, <1>10, <1>11
<1>12. PICK f : Stages(f, Seq(W), <<>>, N, step) /\ f[N] = h[1..N]
    <2>1. Unfolds(h, Seq(W), <<>>, N, step)
        BY <1>1, <1>3, <1>4, <1>10, <1>11 DEF Unfolds
    <2> QED BY <2>1, FoldByPrefix
<1>13. ASSUME NEW k \in 1..N PROVE f[k] = take(f[k - 1], q[k])
    <2>1. k - 1 \in 0..N
        BY <1>1
    <2> QED BY <2>1, <1>6, <1>12 DEF Stages
<1> QED BY <1>5, <1>12, <1>13 DEF N, Stages

\* How many elements of s are in M.
CountIn(s, M) == Cardinality({i \in DOMAIN s : s[i] \in M})

\* An element more counts once, where it counts.
LEMMA CountAppend ==
    ASSUME NEW W, NEW s \in Seq(W), NEW c \in W, NEW M
    PROVE  /\ CountIn(s, M) \in Nat
           /\ CountIn(Append(s, c), M) = IF c \in M THEN CountIn(s, M) + 1 ELSE CountIn(s, M)
<1> DEFINE A == {i \in DOMAIN s : s[i] \in M}
           B == {i \in DOMAIN Append(s, c) : Append(s, c)[i] \in M}
<1>1. /\ Len(s) \in Nat /\ DOMAIN s = 1..Len(s)
      /\ DOMAIN Append(s, c) = 1..(Len(s) + 1)
      /\ \A i \in 1..Len(s) : Append(s, c)[i] = s[i]
      /\ Append(s, c)[Len(s) + 1] = c
    BY LenProperties, AppendProperties
<1>2. IsFiniteSet(A)
    <2>1. A \in SUBSET (1..Len(s)) /\ IsFiniteSet(1..Len(s))
        BY <1>1, FS_Interval
    <2> QED BY <2>1, FS_Subset
<1>3. B = IF c \in M THEN A \union {Len(s) + 1} ELSE A
    BY <1>1
<1>4. Len(s) + 1 \notin A
    BY <1>1
<1> HIDE DEF A, B
<1>5. Cardinality(A) \in Nat
    BY <1>2, FS_CardinalityType
<1>6. Cardinality(B) = IF c \in M THEN Cardinality(A) + 1 ELSE Cardinality(A)
    BY <1>2, <1>3, <1>4, FS_AddElement
<1> QED BY <1>5, <1>6 DEF A, B, CountIn

\* One more counts in its bucket and for its site.
LEMMA BucketsAndSourcesCount ==
    ASSUME NEW W, NEW s \in Seq(W), NEW c \in W, NEW bucket, NEW key
    PROVE  /\ OfBucket(s, bucket) \in Nat /\ OfSource(s, key) \in Nat
           /\ OfBucket(Append(s, c), bucket) =
                IF digestBucketOfGrade(c.grade) = bucket
                THEN OfBucket(s, bucket) + 1 ELSE OfBucket(s, bucket)
           /\ OfSource(Append(s, c), key) =
                IF digestSourceKey(c) = key THEN OfSource(s, key) + 1 ELSE OfSource(s, key)
<1> DEFINE M == {d \in W : digestBucketOfGrade(d.grade) = bucket}
           K == {d \in W : digestSourceKey(d) = key}
<1>1. ASSUME NEW t \in Seq(W)
      PROVE  OfBucket(t, bucket) = CountIn(t, M) /\ OfSource(t, key) = CountIn(t, K)
    <2>1. \A i \in DOMAIN t : t[i] \in W
        BY LenProperties, ElementOfSeq
    <2>2. {i \in DOMAIN t : digestBucketOfGrade(t[i].grade) = bucket} = {i \in DOMAIN t : t[i] \in M}
        BY <2>1
    <2>3. {i \in DOMAIN t : digestSourceKey(t[i]) = key} = {i \in DOMAIN t : t[i] \in K}
        BY <2>1
    <2> HIDE DEF M, K
    <2> QED BY <2>2, <2>3 DEF OfBucket, OfSource, CountIn
<1>2. Append(s, c) \in Seq(W)
    BY AppendProperties
<1>3. (c \in M <=> digestBucketOfGrade(c.grade) = bucket) /\ (c \in K <=> digestSourceKey(c) = key)
    OBVIOUS
<1> HIDE DEF M, K
<1>4. /\ CountIn(s, M) \in Nat /\ CountIn(s, K) \in Nat
      /\ CountIn(Append(s, c), M) = IF c \in M THEN CountIn(s, M) + 1 ELSE CountIn(s, M)
      /\ CountIn(Append(s, c), K) = IF c \in K THEN CountIn(s, K) + 1 ELSE CountIn(s, K)
    BY CountAppend
<1> QED BY <1>1, <1>2, <1>3, <1>4

\* What is chosen when the first k have been tried.
ChosenSoFar(s, q, k, prior) ==
    /\ \A i \in DOMAIN s : \E j \in 1..k : s[i] = q[j]
    /\ \A i, j \in DOMAIN s : i # j => s[i] # s[j]
    /\ \A bucket \in DOMAIN Quotas : OfBucket(s, bucket) <= Quotas[bucket]
    /\ \A key : OfSource(s, key) <= MaxPerSource
    /\ \A j \in 1..k : q[j] \in ToSet(s) \/ LeftOutRightly(q[j], s, prior)

\* The order q is in.
BestFirst(q, prior) ==
    \A i, j \in 1..Len(q) :
        i < j => /\ q[i] # q[j]
                 /\ digestBucketOfGrade(q[i].grade) = digestBucketOfGrade(q[j].grade)
                    => compareDigestCandidates(prior, q[i], q[j])

\* What holds of the choice so far holds after one more was tried.
LEMMA TakeOneMore ==
    ASSUME NEW W, NEW q \in Seq(W), NEW prior, BestFirst(q, prior),
           \A c \in W : digestBucketOfGrade(c.grade) \in DOMAIN Quotas,
           NEW k \in Nat, k + 1 <= Len(q), NEW s \in Seq(W), ChosenSoFar(s, q, k, prior)
    PROVE  ChosenSoFar(take(s, q[k + 1]), q, k + 1, prior)
<1> DEFINE c == q[k + 1]
           b == digestBucketOfGrade(c.grade)
<1>1. /\ Len(q) \in Nat /\ k + 1 \in 1..Len(q) /\ c \in W
      /\ \A j \in 1..k : j \in 1..Len(q) /\ q[j] \in W /\ j < k + 1
      /\ \A j \in 1..(k + 1) : j = k + 1 \/ j \in 1..k
      /\ \A j \in 1..k : j \in 1..(k + 1)
      /\ k + 1 \in 1..(k + 1)
    BY LenProperties, ElementOfSeq
<1>2. \A j \in 1..k : q[j] # c /\ (digestBucketOfGrade(q[j].grade) = b
                                  => compareDigestCandidates(prior, q[j], c))
    BY <1>1 DEF BestFirst
<1>3. b \in DOMAIN Quotas /\ Quotas[b] \in Nat /\ MaxPerSource \in Nat
      /\ \A bucket \in DOMAIN Quotas : Quotas[bucket] \in Nat
    BY <1>1, LimitsAssumption
<1>4. \A d \in ToSet(s) : \E j \in 1..k : d = q[j]
    BY DEF ToSet, ChosenSoFar
<1>5. \A bucket, key : OfBucket(s, bucket) \in Nat /\ OfSource(s, key) \in Nat
    BY <1>1, BucketsAndSourcesCount
<1>6. CASE take(s, c) = s /\ (OfBucket(s, b) >= Quotas[b] \/ OfSource(s, digestSourceKey(c)) >= MaxPerSource)
    <2>1. LeftOutRightly(c, s, prior)
        <3>1. CASE OfSource(s, digestSourceKey(c)) >= MaxPerSource
            <4>1. OfSource(s, digestSourceKey(c)) <= MaxPerSource
                BY DEF ChosenSoFar
            <4>2. OfSource(s, digestSourceKey(c)) = MaxPerSource
                <5>1. OfSource(s, digestSourceKey(c)) \in Nat /\ MaxPerSource \in Nat
                    BY <1>3, <1>5
                <5> HIDE DEF c
                <5> QED BY <5>1, <3>1, <4>1
            <4> QED BY <4>2 DEF LeftOutRightly
        <3>2. CASE OfBucket(s, b) >= Quotas[b]
            <4>1. OfBucket(s, b) <= Quotas[b]
                BY <1>3 DEF ChosenSoFar
            <4>2. OfBucket(s, b) = Quotas[b]
                <5>1. OfBucket(s, b) \in Nat /\ Quotas[b] \in Nat
                    BY <1>3, <1>5
                <5> HIDE DEF b
                <5> QED BY <5>1, <3>2, <4>1
            <4>3. \A d \in ToSet(s) : digestBucketOfGrade(d.grade) = b =>
                    compareDigestCandidates(prior, d, c)
                BY <1>2, <1>4
            <4> QED BY <4>2, <4>3 DEF LeftOutRightly
        <3> QED BY <3>1, <3>2, <1>6
    <2> HIDE DEF c
    <2>2. \A i \in DOMAIN s : \E j \in 1..(k + 1) : s[i] = q[j]
        BY <1>1 DEF ChosenSoFar
    <2>3. \A j \in 1..(k + 1) : q[j] \in ToSet(s) \/ LeftOutRightly(q[j], s, prior)
        BY <1>1, <2>1 DEF ChosenSoFar, c
    <2>4. ChosenSoFar(s, q, k + 1, prior)
        BY <2>2, <2>3 DEF ChosenSoFar
    <2> QED BY <2>4, <1>6 DEF c
<1>7. CASE /\ take(s, c) = Append(s, c)
           /\ ~ (OfBucket(s, b) >= Quotas[b]) /\ ~ (OfSource(s, digestSourceKey(c)) >= MaxPerSource)
    <2> DEFINE t == Append(s, c)
    <2>1. /\ Len(s) \in Nat /\ DOMAIN s = 1..Len(s) /\ DOMAIN t = 1..(Len(s) + 1)
          /\ \A i \in 1..Len(s) : t[i] = s[i]
          /\ t[Len(s) + 1] = c
        BY <1>1, LenProperties, AppendProperties
    <2>2. \A i \in DOMAIN t : i \in DOMAIN s \/ i = Len(s) + 1
        BY <2>1
    <2>3. \A bucket, key :
             /\ OfBucket(t, bucket) = IF b = bucket THEN OfBucket(s, bucket) + 1
                                      ELSE OfBucket(s, bucket)
             /\ OfSource(t, key) = IF digestSourceKey(c) = key THEN OfSource(s, key) + 1
                                   ELSE OfSource(s, key)
        <3>1. c \in W
            BY <1>1
        <3> HIDE DEF c
        <3> QED BY <3>1, BucketsAndSourcesCount
    <2> HIDE DEF t, c, b
    <2>4. \A i \in DOMAIN t : \E j \in 1..(k + 1) : t[i] = q[j]
        BY <1>1, <2>1, <2>2 DEF ChosenSoFar, c
    <2>5. \A i, j \in DOMAIN t : i # j => t[i] # t[j]
        <3>1. \A i \in DOMAIN s : t[i] = s[i] /\ s[i] # c
            BY <1>2, <2>1 DEF ChosenSoFar
        <3>2. \A i, j \in DOMAIN s : i # j => s[i] # s[j]
            BY DEF ChosenSoFar
        <3> QED BY <3>1, <3>2, <2>1, <2>2
    <2>6. \A bucket \in DOMAIN Quotas : OfBucket(t, bucket) <= Quotas[bucket]
        <3> SUFFICES ASSUME NEW bucket \in DOMAIN Quotas
                     PROVE  OfBucket(t, bucket) <= Quotas[bucket]
            OBVIOUS
        <3>1. OfBucket(s, bucket) <= Quotas[bucket] /\ OfBucket(s, bucket) \in Nat
              /\ Quotas[bucket] \in Nat
            BY <1>3, <1>5 DEF ChosenSoFar
        <3>2. CASE b = bucket
            BY <3>1, <3>2, <2>3, <1>7
        <3>3. CASE b # bucket
            BY <3>1, <3>3, <2>3
        <3> QED BY <3>2, <3>3
    <2>7. \A key : OfSource(t, key) <= MaxPerSource
        <3> SUFFICES ASSUME NEW key PROVE OfSource(t, key) <= MaxPerSource
            OBVIOUS
        <3>1. OfSource(s, key) <= MaxPerSource /\ OfSource(s, key) \in Nat /\ MaxPerSource \in Nat
            BY <1>3, <1>5 DEF ChosenSoFar
        <3>2. CASE digestSourceKey(c) = key
            BY <3>1, <3>2, <2>3, <1>7
        <3>3. CASE digestSourceKey(c) # key
            BY <3>1, <3>3, <2>3
        <3> QED BY <3>2, <3>3
    <2>8. c \in ToSet(t) /\ \A d : d \in ToSet(s) => d \in ToSet(t)
        BY <2>1 DEF ToSet
    <2>9. \A d \in ToSet(t) : d = c \/ d \in ToSet(s)
        BY <2>1, <2>2 DEF ToSet
    <2>10. ASSUME NEW j \in 1..k PROVE q[j] \in ToSet(t) \/ LeftOutRightly(q[j], t, prior)
        <3> DEFINE e == q[j]
                   key == digestSourceKey(e)
                   bucket == digestBucketOfGrade(e.grade)
        <3>1. e \in ToSet(s) \/ LeftOutRightly(e, s, prior)
            BY DEF ChosenSoFar
        <3>2. CASE e \in ToSet(s)
            BY <3>2, <2>8
        <3>3. CASE OfSource(s, key) = MaxPerSource
            <4>1. OfSource(t, key) = MaxPerSource
                <5>1. digestSourceKey(c) # key
                    BY <3>3, <1>7, <1>3
                <5> QED BY <5>1, <3>3, <2>3
            <4> QED BY <4>1 DEF LeftOutRightly
        <3>4. CASE /\ OfBucket(s, bucket) = Quotas[bucket]
                   /\ \A d \in ToSet(s) : digestBucketOfGrade(d.grade) = bucket =>
                        compareDigestCandidates(prior, d, e)
            <4>1. b # bucket
                BY <3>4, <1>7, <1>3
            <4>2. OfBucket(t, bucket) = Quotas[bucket]
                BY <4>1, <3>4, <2>3
            <4>3. \A d \in ToSet(t) : digestBucketOfGrade(d.grade) = bucket =>
                    compareDigestCandidates(prior, d, e)
                <5>1. digestBucketOfGrade(c.grade) # bucket
                    BY <4>1 DEF b
                <5> HIDE DEF e, bucket
                <5> QED BY <5>1, <2>9, <3>4
            <4> QED BY <4>2, <4>3 DEF LeftOutRightly
        <3> QED BY <3>1, <3>2, <3>3, <3>4 DEF LeftOutRightly
    <2>11. \A j \in 1..(k + 1) : q[j] \in ToSet(t) \/ LeftOutRightly(q[j], t, prior)
        BY <1>1, <2>8, <2>10 DEF c
    <2>12. ChosenSoFar(t, q, k + 1, prior)
        BY <2>4, <2>5, <2>6, <2>7, <2>11 DEF ChosenSoFar
    <2> QED BY <2>12, <1>7 DEF t, c
<1> QED BY <1>6, <1>7 DEF take

\* The candidates left out are those a limit keeps out.
LEMMA SelectionRightly ==
    ASSUME NEW pool, Candidates(pool), NEW prior, Weights(prior), NEW used
    PROVE  LET chosen == selectDigestCandidates(pool, used, prior)
           IN  /\ ToSet(chosen) \subseteq Wanted(pool, used)
               /\ Cardinality(ToSet(chosen)) = Len(chosen)
               /\ WithinLimits(chosen, pool)
               /\ \A c \in Wanted(pool, used) \ ToSet(chosen) : LeftOutRightly(c, chosen, prior)
<1> DEFINE W == Wanted(pool, used)
           q == Tried(pool, used, prior)
           chosen == selectDigestCandidates(pool, used, prior)
<1>1. q \in Seq(W) /\ BestFirst(q, prior) /\ \A c \in W : \E i \in 1..Len(q) : q[i] = c
    BY TriedInOrder DEF BestFirst
<1>2. \A c \in W : digestBucketOfGrade(c.grade) \in DOMAIN Quotas
    <2> SUFFICES ASSUME NEW c \in W PROVE digestBucketOfGrade(c.grade) \in DOMAIN Quotas
        OBVIOUS
    <2>1. c.grade \in {"recommended", "related", "low_priority"}
        BY DEF Wanted, Candidates, Scored, digestHasSubstance
    <2>2. digestBucketOfGrade(c.grade) \in {"deep", "tech", "general"}
        BY <2>1 DEF digestBucketOfGrade
    <2> QED BY <2>2, LimitsAssumption
<1>3. chosen = FoldLeft(take, <<>>, q)
    BY DEF selectDigestCandidates, Tried
<1> HIDE DEF W, q, chosen
<1>4. PICK f \in [0..Len(q) -> Seq(W)] :
         /\ f[0] = <<>>
         /\ \A k \in 1..Len(q) : f[k] = take(f[k - 1], q[k])
         /\ f[Len(q)] = FoldLeft(take, <<>>, q)
    BY <1>1, TakeByPrefix
<1>5. Len(q) \in Nat
    BY <1>1, LenProperties
<1> DEFINE T == {k \in Nat : k <= Len(q) => ChosenSoFar(f[k], q, k, prior)}
<1>6. 0 \in T
    <2>1. DOMAIN <<>> = {} /\ ToSet(<<>>) = {}
        BY DEF ToSet
    <2>2. \A bucket, key : OfBucket(<<>>, bucket) = 0 /\ OfSource(<<>>, key) = 0
        BY <2>1, FS_EmptySet DEF OfBucket, OfSource
    <2>3. \A bucket \in DOMAIN Quotas : 0 <= Quotas[bucket]
        BY LimitsAssumption
    <2>4. 0 <= MaxPerSource
        BY LimitsAssumption
    <2>5. ChosenSoFar(<<>>, q, 0, prior)
        BY <2>1, <2>2, <2>3, <2>4 DEF ChosenSoFar
    <2> QED BY <2>5, <1>4
<1>7. ASSUME NEW k \in Nat, k \in T PROVE k + 1 \in T
    <2> SUFFICES ASSUME k + 1 <= Len(q) PROVE ChosenSoFar(f[k + 1], q, k + 1, prior)
        OBVIOUS
    <2>1. /\ k + 1 \in 1..Len(q) /\ (k + 1) - 1 = k /\ k \in 0..Len(q)
        BY <1>5
    <2>2. f[k] \in Seq(W) /\ f[k + 1] = take(f[k], q[k + 1])
        BY <2>1, <1>4
    <2>3. ChosenSoFar(f[k], q, k, prior)
        BY <2>1, <1>5, <1>7
    <2> HIDE DEF T
    <2>4. ChosenSoFar(take(f[k], q[k + 1]), q, k + 1, prior)
        BY <2>2, <2>3, <1>1, <1>2, TakeOneMore
    <2> QED BY <2>2, <2>4
<1>8. Nat \subseteq T
    <2> HIDE DEF T
    <2> QED BY <1>6, <1>7, SetInduction
<1>9. chosen \in Seq(W) /\ ChosenSoFar(chosen, q, Len(q), prior)
    <2>1. Len(q) \in 0..Len(q) /\ Len(q) \in T
        BY <1>5, <1>8
    <2>2. f[Len(q)] \in Seq(W) /\ ChosenSoFar(f[Len(q)], q, Len(q), prior)
        BY <2>1, <1>4, <1>5
    <2> QED BY <2>2, <1>3, <1>4
<1> HIDE DEF T
<1>10. ToSet(chosen) \subseteq W
    BY <1>9, LenProperties, ElementOfSeq DEF ToSet
<1>11. Cardinality(ToSet(chosen)) = Len(chosen)
    <2>1. DOMAIN chosen = 1..Len(chosen) /\ Len(chosen) \in Nat
        BY <1>9, LenProperties
    <2>2. chosen \in [1..Len(chosen) -> ToSet(chosen)]
        BY <1>9, <2>1, LenProperties DEF ToSet
    <2>3. \A i, j \in 1..Len(chosen) : chosen[i] = chosen[j] => i = j
        BY <1>9, <2>1 DEF ChosenSoFar
    <2>4. \A c \in ToSet(chosen) : \E i \in 1..Len(chosen) : chosen[i] = c
        BY <2>1 DEF ToSet
    <2>5. chosen \in Bijection(1..Len(chosen), ToSet(chosen))
        BY <2>1, <2>2, <2>3, <2>4 DEF Bijection, Injection, Surjection, IsInjective
    <2>6. ExistsBijection(1..Len(chosen), ToSet(chosen))
        BY <2>5 DEF ExistsBijection
    <2> QED BY <2>1, <2>6, FS_CountingElements
<1>12. WithinLimits(chosen, pool)
    BY <1>9 DEF ChosenSoFar, WithinLimits
<1>13. \A c \in W \ ToSet(chosen) : LeftOutRightly(c, chosen, prior)
    BY <1>1, <1>9 DEF ChosenSoFar
<1> QED BY <1>10, <1>11, <1>12, <1>13 DEF W, chosen

Newer(S) == {p \in S \X S : compareNewest(p[1], p[2])}

\* compareNewest orders the candidates strictly.
LEMMA NewestAreOrdered ==
    ASSUME NEW pool, Candidates(pool)
    PROVE  /\ StrictOrder(pool, Newer(pool))
           /\ \A c, d \in pool : <<c, d>> \in Newer(pool) <=> compareNewest(c, d)
<1> DEFINE Score(c) == <<c.found, c.id>>
<1>1. \A c \in pool : Score(c) \in [1..2 -> Int]
    BY DEF Candidates, Scored
<1>2. \A c, d \in pool : c # d => Score(c) # Score(d)
    BY DEF Candidates
<1>3. \A c, d \in pool : compareNewest(c, d) <=> Before(Score(c), Score(d))
    BY DEF compareNewest
<1>4. \A c, d \in pool : <<c, d>> \in Newer(pool) <=> Before(Score(c), Score(d))
    BY <1>3 DEF Newer
<1> HIDE DEF Score
<1>5. \A c, d, e \in pool :
        /\ ~Before(Score(c), Score(c))
        /\ Before(Score(c), Score(d)) /\ Before(Score(d), Score(e)) => Before(Score(c), Score(e))
        /\ c # d => Before(Score(c), Score(d)) \/ Before(Score(d), Score(c))
    BY <1>1, <1>2, BeforeIsStrict
<1>6. StrictOrder(pool, Newer(pool))
    BY <1>4, <1>5 DEF StrictOrder
<1> QED BY <1>3, <1>4, <1>6

\* The rounds of one site, and its newest.
LEMMA RoundsOfSource ==
    ASSUME NEW pool, Candidates(pool), NEW c \in pool
    PROVE  /\ Round(pool, c) \in Nat
           /\ NewestOf(pool, c) \in pool
           /\ digestSourceKey(NewestOf(pool, c)) = digestSourceKey(c)
           /\ \A d \in pool : digestSourceKey(d) = digestSourceKey(c)
                             => (Round(pool, d) = Round(pool, c) => d = c)
<1> DEFINE S == SameSource(pool, c)
           R == Newer(S)
<1>1. S \in SUBSET pool /\ c \in S
    BY DEF SameSource
<1>2. Candidates(S) /\ IsFiniteSet(S) /\ Cardinality(S) \in Nat
    BY <1>1, SubsetOfCandidates, FS_CardinalityType DEF Candidates
<1>3. StrictOrder(S, R) /\ \A d, e \in S : <<d, e>> \in R <=> compareNewest(d, e)
    BY <1>2, NewestAreOrdered
<1>4. \A d \in S : SameSource(pool, d) = S
    BY DEF SameSource
<1> HIDE DEF S, R
<1>5. \A d \in S : {e \in S : compareNewest(e, d)} = Under(S, R, d)
    BY <1>3 DEF Under
<1>6. \A d \in S : Round(pool, d) = Cardinality(Under(S, R, d))
    BY <1>4, <1>5 DEF Round
<1>7. /\ \A d \in S : Cardinality(Under(S, R, d)) \in 0..(Cardinality(S) - 1)
      /\ \A d, e \in S : Cardinality(Under(S, R, d)) = Cardinality(Under(S, R, e)) => d = e
      /\ \A k \in 0..(Cardinality(S) - 1) : \E d \in S : Cardinality(Under(S, R, d)) = k
    BY <1>2, <1>3, RanksCount
<1>8. Cardinality(S) # 0
    BY <1>1, <1>2, FS_EmptySet
<1>9. \E d \in S : \A e \in S \ {d} : compareNewest(d, e)
    <2>1. 0 \in 0..(Cardinality(S) - 1)
        BY <1>2, <1>8
    <2>2. PICK d \in S : Cardinality(Under(S, R, d)) = 0
        BY <2>1, <1>7
    <2>3. IsFiniteSet(Under(S, R, d))
        BY <1>2, FS_Subset DEF Under
    <2>4. Under(S, R, d) = {}
        BY <2>2, <2>3, FS_EmptySet
    <2>5. \A e \in S \ {d} : <<d, e>> \in R
        BY <2>4, <1>3 DEF Under, StrictOrder
    <2> QED BY <2>5, <1>3
<1>10. NewestOf(pool, c) \in S
    BY <1>9 DEF NewestOf, S
<1>11. \A d \in pool : digestSourceKey(d) = digestSourceKey(c) => d \in S
    BY DEF S, SameSource
<1>12. digestSourceKey(NewestOf(pool, c)) = digestSourceKey(c)
    BY <1>10 DEF S, SameSource
<1>13. Round(pool, c) \in Nat
    BY <1>1, <1>2, <1>6, <1>7
<1>14. \A d \in S : Round(pool, d) = Round(pool, c) => d = c
    BY <1>1, <1>6, <1>7
<1>15. NewestOf(pool, c) \in pool
    BY <1>1, <1>10
<1>16. \A d \in pool : digestSourceKey(d) = digestSourceKey(c)
                             => (Round(pool, d) = Round(pool, c) => d = c)
    BY <1>11, <1>14
<1> QED BY <1>12, <1>13, <1>15, <1>16, Zenon

\* Judged in rounds: nobody's second before everybody's first.
LEMMA EvaluatedInRounds ==
    ASSUME NEW pool, Candidates(pool)
    PROVE  LET order == orderDigestEvaluations(pool)
           IN  /\ \A c \in pool : \E i \in DOMAIN order : order[i] = c
               /\ \A i, j \in DOMAIN order :
                    i < j => Round(pool, order[i]) <= Round(pool, order[j])
<1> DEFINE Op(l, r) == \/ Round(pool, l) < Round(pool, r)
                       \/ /\ Round(pool, l) = Round(pool, r)
                          /\ compareNewest(NewestOf(pool, l), NewestOf(pool, r))
           R == {p \in pool \X pool : Op(p[1], p[2])}
           order == orderDigestEvaluations(pool)
<1>1. IsFiniteSet(pool) /\ Cardinality(pool) \in Nat
    BY FS_CardinalityType DEF Candidates
<1>2. \A c \in pool :
         /\ Round(pool, c) \in Nat
         /\ NewestOf(pool, c) \in pool
         /\ digestSourceKey(NewestOf(pool, c)) = digestSourceKey(c)
         /\ \A d \in pool : digestSourceKey(d) = digestSourceKey(c)
                             => (Round(pool, d) = Round(pool, c) => d = c)
    BY RoundsOfSource
<1>3. \A c, d, e \in pool :
         /\ ~compareNewest(c, c)
         /\ compareNewest(c, d) /\ compareNewest(d, e) => compareNewest(c, e)
         /\ c # d => compareNewest(c, d) \/ compareNewest(d, c)
    BY NewestAreOrdered DEF StrictOrder
<1>4. \A c, d \in pool : <<c, d>> \in R <=> Op(c, d)
    OBVIOUS
<1>5. StrictOrder(pool, R)
    <2>1. \A c \in pool : ~Op(c, c)
        BY <1>2, <1>3
    <2>2. \A c, d, e \in pool : Op(c, d) /\ Op(d, e) => Op(c, e)
        <3> SUFFICES ASSUME NEW c \in pool, NEW d \in pool, NEW e \in pool, Op(c, d), Op(d, e)
                     PROVE  Op(c, e)
            OBVIOUS
        <3>1. Round(pool, c) \in Nat /\ Round(pool, d) \in Nat /\ Round(pool, e) \in Nat
            BY <1>2
        <3>2. CASE Round(pool, c) = Round(pool, d) /\ Round(pool, d) = Round(pool, e)
            BY <3>1, <3>2, <1>2, <1>3
        <3>3. CASE Round(pool, c) # Round(pool, d) \/ Round(pool, d) # Round(pool, e)
            BY <3>1, <3>3
        <3> QED BY <3>2, <3>3
    <2>3. \A c, d \in pool : c # d => Op(c, d) \/ Op(d, c)
        <3> SUFFICES ASSUME NEW c \in pool, NEW d \in pool, c # d PROVE Op(c, d) \/ Op(d, c)
            OBVIOUS
        <3>1. Round(pool, c) \in Nat /\ Round(pool, d) \in Nat
            BY <1>2
        <3>2. CASE Round(pool, c) = Round(pool, d)
            <4>1. digestSourceKey(c) # digestSourceKey(d)
                BY <3>2, <1>2
            <4>2. NewestOf(pool, c) # NewestOf(pool, d)
                BY <4>1, <1>2
            <4> QED BY <3>2, <4>2, <1>2, <1>3
        <3>3. CASE Round(pool, c) # Round(pool, d)
            BY <3>1, <3>3
        <3> QED BY <3>2, <3>3
    <2> HIDE DEF R, Op
    <2> QED BY <2>1, <2>2, <2>3, <1>4 DEF StrictOrder
<1>6. \A c \in pool : {d \in pool : Op(d, c)} = Under(pool, R, c)
    <2> HIDE DEF R, Op
    <2> QED BY <1>4 DEF Under
<1>7. order = [i \in 1..Cardinality(pool) |->
                 CHOOSE c \in pool : Cardinality({d \in pool : Op(d, c)}) = i - 1]
    BY DEF orderDigestEvaluations, InOrder
<1> HIDE DEF R, order, Op
<1>8. \A i : (CHOOSE c \in pool : Cardinality({d \in pool : Op(d, c)}) = i - 1)
             = (CHOOSE c \in pool : Cardinality(Under(pool, R, c)) = i - 1)
    <2> SUFFICES ASSUME NEW i
                 PROVE  (CHOOSE c \in pool : Cardinality({d \in pool : Op(d, c)}) = i - 1)
                        = (CHOOSE c \in pool : Cardinality(Under(pool, R, c)) = i - 1)
        OBVIOUS
    <2>1. \A c : (c \in pool /\ Cardinality({d \in pool : Op(d, c)}) = i - 1)
                  <=> (c \in pool /\ Cardinality(Under(pool, R, c)) = i - 1)
        BY <1>6
    <2> QED BY <2>1
<1>9. order = [i \in 1..Cardinality(pool) |->
                 CHOOSE c \in pool : Cardinality(Under(pool, R, c)) = i - 1]
    <2> DEFINE A(i) == CHOOSE c \in pool : Cardinality({d \in pool : Op(d, c)}) = i - 1
               B(i) == CHOOSE c \in pool : Cardinality(Under(pool, R, c)) = i - 1
    <2>1. order = [i \in 1..Cardinality(pool) |-> A(i)] /\ \A i : A(i) = B(i)
        BY <1>7, <1>8, Zenon
    <2> HIDE DEF A, B
    <2>2. order = [i \in 1..Cardinality(pool) |-> B(i)]
        BY <2>1
    <2> QED BY <2>2 DEF B
<1>10. Lists(order, pool, R)
    BY <1>1, <1>5, <1>9, RankedLists
<1>11. DOMAIN order = 1..Cardinality(pool)
    BY <1>10 DEF Lists
<1>12. ASSUME NEW i \in DOMAIN order, NEW j \in DOMAIN order, i < j
       PROVE  Round(pool, order[i]) <= Round(pool, order[j])
    <2>1. order[i] \in pool /\ order[j] \in pool /\ Op(order[i], order[j])
        BY <1>4, <1>10, <1>11, <1>12 DEF Lists
    <2>2. Round(pool, order[i]) \in Nat /\ Round(pool, order[j]) \in Nat
        BY <2>1, <1>2
    <2> QED BY <2>1, <2>2 DEF Op
<1>13. \A c \in pool : \E i \in DOMAIN order : order[i] = c
    BY <1>10, <1>11 DEF Lists
<1> QED BY <1>12, <1>13 DEF order

-----------------------------------------------------------------------------
(***************************************************************************)
(* The report on a pull request (DiffReport): numbers in their order, the  *)
(* ranges they make, and the percentage.                                   *)
(***************************************************************************)
Smaller(S) == {p \in S \X S : p[1] < p[2]}

\* A set of numbers in order.
LEMMA NumbersInOrder ==
    ASSUME NEW S, IsFiniteSet(S), S \subseteq Int
    PROVE  /\ Lists(InOrder(S, <), S, Smaller(S))
           /\ \A a, b \in S : <<a, b>> \in Smaller(S) <=> a < b
<1> DEFINE R == Smaller(S)
           q == InOrder(S, <)
<1>1. \A a, b \in S : <<a, b>> \in R <=> a < b
    BY DEF Smaller
<1>2. \A a, b, c \in S : /\ ~ (a < a)
                         /\ a < b /\ b < c => a < c
                         /\ a # b => a < b \/ b < a
    OBVIOUS
<1> HIDE DEF R
<1>3. StrictOrder(S, R)
    BY <1>1, <1>2 DEF StrictOrder
<1>4. \A c \in S : {d \in S : d < c} = Under(S, R, c)
    BY <1>1 DEF Under
<1>5. q = [i \in 1..Cardinality(S) |-> CHOOSE c \in S : Cardinality({d \in S : d < c}) = i - 1]
    BY DEF InOrder
<1> HIDE DEF q
<1>6. \A i : (CHOOSE c \in S : Cardinality({d \in S : d < c}) = i - 1)
             = (CHOOSE c \in S : Cardinality(Under(S, R, c)) = i - 1)
    <2> SUFFICES ASSUME NEW i
                 PROVE  (CHOOSE c \in S : Cardinality({d \in S : d < c}) = i - 1)
                        = (CHOOSE c \in S : Cardinality(Under(S, R, c)) = i - 1)
        OBVIOUS
    <2>1. \A c : (c \in S /\ Cardinality({d \in S : d < c}) = i - 1)
                  <=> (c \in S /\ Cardinality(Under(S, R, c)) = i - 1)
        BY <1>4
    <2> QED BY <2>1
<1>7. q = [i \in 1..Cardinality(S) |-> CHOOSE c \in S : Cardinality(Under(S, R, c)) = i - 1]
    <2> DEFINE A(i) == CHOOSE c \in S : Cardinality({d \in S : d < c}) = i - 1
               B(i) == CHOOSE c \in S : Cardinality(Under(S, R, c)) = i - 1
    <2>1. q = [i \in 1..Cardinality(S) |-> A(i)] /\ \A i : A(i) = B(i)
        BY <1>5, <1>6, Zenon
    <2> HIDE DEF A, B
    <2>2. q = [i \in 1..Cardinality(S) |-> B(i)]
        BY <2>1
    <2> QED BY <2>2 DEF B
<1>8. Lists(q, S, R)
    BY <1>3, <1>7, RankedLists
<1> QED BY <1>1, <1>8 DEF q, R

\* A finite set of numbers has a greatest one, and Max is it.
LEMMA GreatestOfFinite ==
    ASSUME NEW S, IsFiniteSet(S), S \subseteq Int, S # {}
    PROVE  /\ Max(S) \in S /\ \A x \in S : x <= Max(S)
           /\ Greatest(S) \in S /\ \A x \in S : x <= Greatest(S)
<1> DEFINE q == InOrder(S, <)
           n == Cardinality(S)
<1>1. Lists(q, S, Smaller(S)) /\ \A a, b \in S : <<a, b>> \in Smaller(S) <=> a < b
    BY NumbersInOrder
<1>2. n \in Nat /\ n # 0
    BY FS_CardinalityType, FS_EmptySet
<1> HIDE DEF q, n
<1>3. /\ q \in [1..n -> S]
      /\ \A c \in S : \E i \in 1..n : q[i] = c
      /\ \A i, j \in 1..n : i < j => q[i] < q[j]
    <2>1. /\ q \in [1..n -> S]
          /\ \A c \in S : \E i \in 1..n : q[i] = c
          /\ \A i, j \in 1..n : i < j => <<q[i], q[j]>> \in Smaller(S)
        BY <1>1 DEF Lists, n
    <2> QED BY <2>1, <1>1
<1>4. n \in 1..n /\ q[n] \in S
    BY <1>2, <1>3
<1>5. ASSUME NEW x \in S PROVE x <= q[n]
    <2>1. PICK i \in 1..n : q[i] = x
        BY <1>3
    <2>2. i = n \/ i < n
        BY <1>2
    <2>3. q[i] \in Int /\ q[n] \in Int
        BY <2>1, <1>4
    <2>4. CASE i = n
        BY <2>1, <2>3, <2>4
    <2>5. CASE i < n
        <3>1. q[i] < q[n]
            BY <2>5, <1>3, <1>4
        <3> QED BY <3>1, <2>1, <2>3
    <2> QED BY <2>2, <2>4, <2>5
<1>6. \E m \in S : \A x \in S : x <= m
    BY <1>4, <1>5
<1>7. \E m \in S : \A x \in S : m >= x
    BY <1>4, <1>5
<1>8. Greatest(S) \in S /\ \A x \in S : x <= Greatest(S)
    BY <1>6 DEF Greatest
<1>9. Max(S) \in S /\ \A x \in S : Max(S) >= x
    BY <1>7 DEF Max
<1> QED BY <1>8, <1>9

Ranges == [start: Nat, end: Nat]

\* The fold of growRanges is what the ranges are after each line.
LEMMA GrowByPrefix ==
    ASSUME NEW q \in Seq(Nat)
    PROVE  \E f \in [0..Len(q) -> Seq(Ranges)] :
              /\ f[0] = <<>>
              /\ \A k \in 1..Len(q) : f[k] = growRanges(f[k - 1], q[k])
              /\ f[Len(q)] = FoldLeft(growRanges, <<>>, q)
<1> DEFINE N == Len(q)
           W == Ranges
           step == [p \in Seq(W) \X (1..N) |-> growRanges(p[1], q[p[2]])]
           V(h) == h = [s \in SUBSET (1..N) |->
                          IF s = {} THEN <<>> ELSE growRanges(h[s \ {Max(s)}], q[Max(s)])]
           h == CHOOSE h : V(h)
<1>1. N \in Nat /\ DOMAIN q = 1..N /\ \A k \in 1..N : q[k] \in Nat
    BY LenProperties, ElementOfSeq
<1>2. \A s \in Seq(W), c \in Nat : growRanges(s, c) \in Seq(W)
    <2> SUFFICES ASSUME NEW s \in Seq(W), NEW c \in Nat PROVE growRanges(s, c) \in Seq(W)
        OBVIOUS
    <2>1. [start |-> c, end |-> c] \in W
        BY DEF Ranges
    <2>2. CASE s # <<>>
        <3>1. Len(s) \in Nat \ {0} /\ \A i \in 1..(Len(s) - 1) : s[i] \in W
            BY <2>2, EmptySeq, ElementOfSeq
        <3>2. Front(s) \in Seq(W)
            BY <3>1, SubSeqProperties DEF Front
        <3>3. Last(s) \in W
            BY <3>1, ElementOfSeq DEF Last
        <3>4. [Last(s) EXCEPT !.end = c] \in W
            BY <3>3 DEF Ranges
        <3> HIDE DEF W
        <3> QED BY <2>1, <3>2, <3>4, AppendProperties DEF growRanges
    <2>3. CASE s = <<>>
        <3> HIDE DEF W
        <3> QED BY <2>1, <2>3, AppendProperties DEF growRanges
    <2> QED BY <2>2, <2>3
<1> HIDE DEF W
<1>3. step \in [Seq(W) \X (1..N) -> Seq(W)]
    BY <1>1, <1>2
<1>4. <<>> \in Seq(W)
    BY EmptySeq
<1>5. FoldLeft(growRanges, <<>>, q) = h[1..N]
    BY <1>1 DEF FoldLeft, MapThenFoldSet
<1>6. \A s \in Seq(W), k \in 1..N : step[<<s, k>>] = growRanges(s, q[k])
    OBVIOUS
<1>7. PICK g : Folding(g, Seq(W), <<>>, N, step)
    <2> HIDE DEF step, N
    <2> QED BY <1>1, <1>3, <1>4, FoldingExists
<1> HIDE DEF step, N
<1>8. V(g)
    <2>1. ASSUME NEW s \in SUBSET (1..N)
          PROVE  g[s] = IF s = {} THEN <<>> ELSE growRanges(g[s \ {Max(s)}], q[Max(s)])
        <3>1. CASE s = {}
            BY <3>1, <1>7 DEF Folding
        <3>2. CASE s # {}
            <4>1. Max(s) \in 1..N
                BY <3>2, <1>1, MaxOfPositions
            <4>2. g[s] = step[<<g[s \ {Max(s)}], Max(s)>>] /\ g[s \ {Max(s)}] \in Seq(W)
                BY <3>2, <1>7 DEF Folding
            <4> QED BY <3>2, <4>1, <4>2, <1>6
        <3> QED BY <3>1, <3>2
    <2>2. g \in [SUBSET (1..N) -> Seq(W)]
        BY <1>7 DEF Folding
    <2> QED BY <2>1, <2>2
<1>9. V(h)
    <2> HIDE DEF V
    <2> QED BY <1>8
<1>10. /\ h[{}] = <<>>
       /\ \A s \in SUBSET (1..N) : s # {} => h[s] = growRanges(h[s \ {Max(s)}], q[Max(s)])
    <2> HIDE DEF h
    <2> QED BY <1>9
<1> HIDE DEF h, V
<1>11. ASSUME NEW s \in SUBSET (1..N), s # {}, h[s \ {Max(s)}] \in Seq(W)
       PROVE  h[s] = step[<<h[s \ {Max(s)}], Max(s)>>]
    <2>1. Max(s) \in 1..N
        BY <1>11, <1>1, MaxOfPositions
    <2> QED BY <2>1, <1>6, <1>10, <1>11
<1>12. PICK f : Stages(f, Seq(W), <<>>, N, step) /\ f[N] = h[1..N]
    <2>1. Unfolds(h, Seq(W), <<>>, N, step)
        BY <1>1, <1>3, <1>4, <1>10, <1>11 DEF Unfolds
    <2> QED BY <2>1, FoldByPrefix
<1>13. ASSUME NEW k \in 1..N PROVE f[k] = growRanges(f[k - 1], q[k])
    <2>1. k - 1 \in 0..N
        BY <1>1
    <2> QED BY <2>1, <1>6, <1>12 DEF Stages
<1> QED BY <1>5, <1>12, <1>13 DEF N, Stages, W

\* The ranges of the lines up to the last one of them.
RangesUpTo(ranges, last) ==
    /\ ranges \in Seq(Ranges)
    /\ Ascending(ranges)
    /\ ranges # <<>> => Last(ranges).end = last

\* A later line makes the last range longer or begins a new one.
LEMMA GrowOneMore ==
    ASSUME NEW ranges, NEW last \in Nat, RangesUpTo(ranges, last),
           NEW line \in Nat, ranges # <<>> => last < line
    PROVE  /\ RangesUpTo(growRanges(ranges, line), line)
           /\ growRanges(ranges, line) # <<>>
           /\ LinesIn(growRanges(ranges, line)) = LinesIn(ranges) \union {line}
<1> DEFINE n == Len(ranges)
           t == growRanges(ranges, line)
<1>1. n \in Nat /\ ranges \in [1..n -> Ranges] /\ DOMAIN ranges = 1..n
    BY LenProperties DEF RangesUpTo
<1>2. ranges = <<>> <=> n = 0
    BY EmptySeq DEF RangesUpTo
<1>3. \A i \in 1..n : /\ ranges[i].start \in Nat /\ ranges[i].end \in Nat
                      /\ ranges[i].start <= ranges[i].end
                      /\ i > 1 => ranges[i - 1].end + 1 < ranges[i].start
    BY <1>1 DEF Ranges, RangesUpTo, Ascending
<1>4. CASE ranges # <<>> /\ Last(ranges).end + 1 = line
    <2> DEFINE new == [Last(ranges) EXCEPT !.end = line]
    <2>1. n \in Nat \ {0} /\ Last(ranges) = ranges[n] /\ ranges[n] \in Ranges
        BY <1>1, <1>2, <1>4 DEF Last
    <2>2. new \in Ranges /\ new.start = ranges[n].start /\ new.end = line
        BY <2>1 DEF Ranges
    <2>3. /\ Front(ranges) \in Seq(Ranges) /\ Len(Front(ranges)) = n - 1
          /\ \A i \in 1..(n - 1) : Front(ranges)[i] = ranges[i]
        <3>1. \A i \in 1..(n - 1) : ranges[i] \in Ranges
            BY <1>1, <2>1
        <3>2. n - 1 \in Int /\ 1 \in Int
            BY <1>1
        <3>3. /\ SubSeq(ranges, 1, n - 1) \in Seq(Ranges)
              /\ Len(SubSeq(ranges, 1, n - 1)) = IF 1 <= n - 1 THEN (n - 1) - 1 + 1 ELSE 0
              /\ \A i \in 1..((n - 1) - 1 + 1) : SubSeq(ranges, 1, n - 1)[i] = ranges[1 + i - 1]
            <4> HIDE DEF n
            <4> QED BY <3>1, <3>2, SubSeqProperties
        <3>4. Front(ranges) = SubSeq(ranges, 1, n - 1)
            BY DEF Front
        <3>9. n \in Nat /\ n # 0
            BY <2>1
        <3> HIDE DEF n
        <3>5. (n - 1) - 1 + 1 = n - 1 /\ (1 <= n - 1 \/ n - 1 = 0)
            BY <3>9
        <3>6. \A i \in 1..(n - 1) : 1 + i - 1 = i
            BY <3>9
        <3>7. Len(Front(ranges)) = n - 1
            BY <3>3, <3>4, <3>5
        <3>8. \A i \in 1..(n - 1) : Front(ranges)[i] = ranges[i]
            BY <3>3, <3>4, <3>5, <3>6
        <3> QED BY <3>3, <3>4, <3>7, <3>8
    <2>4. t = Append(Front(ranges), new)
        BY <1>4 DEF growRanges
    <2> HIDE DEF new
    <2>5. /\ t \in Seq(Ranges) /\ Len(t) = n /\ t # <<>>
          /\ \A i \in 1..(n - 1) : t[i] = ranges[i]
          /\ t[n] = new
        <3>1. /\ Append(Front(ranges), new) \in Seq(Ranges)
              /\ Append(Front(ranges), new) # <<>>
              /\ Len(Append(Front(ranges), new)) = (n - 1) + 1
              /\ \A i \in 1..(n - 1) : Append(Front(ranges), new)[i] = Front(ranges)[i]
              /\ Append(Front(ranges), new)[(n - 1) + 1] = new
            BY <2>2, <2>3, AppendProperties
        <3> QED BY <3>1, <2>1, <2>3, <2>4
    <2> HIDE DEF t
    <2>6. Last(t).end = line
        BY <2>2, <2>5 DEF Last
    <2>7. DOMAIN t = 1..n
        BY <2>5, LenProperties
    <2>8. line = ranges[n].end + 1 /\ ranges[n].start <= line
        BY <1>3, <1>4, <2>1
    <2>9. \A i \in 1..n : /\ t[i].start = ranges[i].start
                          /\ i # n => t[i].end = ranges[i].end
                          /\ i = n => t[i].end = line
        BY <2>1, <2>2, <2>5
    <2>10. Ascending(t)
        <3> SUFFICES ASSUME NEW i \in 1..n
                     PROVE  /\ t[i].start <= t[i].end
                            /\ i > 1 => t[i - 1].end + 1 < t[i].start
            BY <2>7 DEF Ascending
        <3>1. t[i].start <= t[i].end
            BY <1>3, <2>8, <2>9
        <3>2. ASSUME i > 1 PROVE t[i - 1].end + 1 < t[i].start
            <4>1. i - 1 \in 1..n /\ i - 1 # n
                BY <3>2, <2>1
            <4> QED BY <4>1, <3>2, <1>3, <2>9
        <3> QED BY <3>1, <3>2
    <2>11. LinesIn(t) = LinesIn(ranges) \union {line}
        <3>1. \A i \in 1..n : t[i].start..t[i].end = IF i = n THEN ranges[i].start..ranges[i].end \union {line}
                                                    ELSE ranges[i].start..ranges[i].end
            <4> SUFFICES ASSUME NEW i \in 1..n
                         PROVE  t[i].start..t[i].end = IF i = n THEN ranges[i].start..ranges[i].end \union {line}
                                                       ELSE ranges[i].start..ranges[i].end
                OBVIOUS
            <4>1. CASE i = n
                <5>1. ranges[n].start \in Nat /\ ranges[n].end \in Nat
                    BY <1>3, <2>1
                <5>2. ranges[n].start..line = ranges[n].start..ranges[n].end \union {line}
                    BY <5>1, <2>8
                <5> QED BY <5>2, <4>1, <2>9
            <4>2. CASE i # n
                BY <4>2, <2>9
            <4> QED BY <4>1, <4>2
        <3>2. n \in 1..n
            BY <2>1
        <3>3. \A l : l \in LinesIn(t) <=> \E i \in 1..n : l \in t[i].start..t[i].end
            BY <2>7 DEF LinesIn
        <3>4. \A l : l \in LinesIn(ranges) <=> \E i \in 1..n : l \in ranges[i].start..ranges[i].end
            BY <1>1 DEF LinesIn
        <3>5. \A l : l \in LinesIn(t) <=> l \in LinesIn(ranges) \/ l = line
            BY <3>1, <3>2, <3>3, <3>4
        <3> QED BY <3>5
    <2> QED BY <2>5, <2>6, <2>10, <2>11 DEF RangesUpTo, t
<1>5. CASE ~ (ranges # <<>> /\ Last(ranges).end + 1 = line)
    <2> DEFINE new == [start |-> line, end |-> line]
    <2>1. t = Append(ranges, new)
        BY <1>5 DEF growRanges
    <2>2. new \in Ranges /\ new.start = line /\ new.end = line
        BY DEF Ranges
    <2> HIDE DEF new
    <2>3. /\ t \in Seq(Ranges) /\ Len(t) = n + 1 /\ t # <<>>
          /\ \A i \in 1..n : t[i] = ranges[i]
          /\ t[n + 1] = new
        BY <2>1, <2>2, AppendProperties DEF RangesUpTo
    <2> HIDE DEF t
    <2>4. Last(t).end = line
        BY <2>2, <2>3 DEF Last
    <2>5. DOMAIN t = 1..(n + 1)
        BY <2>3, LenProperties
    <2>6. n # 0 => ranges[n].end = last /\ last + 1 # line /\ last < line
        BY <1>2, <1>5 DEF RangesUpTo, Last
    <2>7. \A i \in 1..(n + 1) : i \in 1..n \/ i = n + 1
        BY <1>1
    <2>8. Ascending(t)
        <3> SUFFICES ASSUME NEW i \in 1..(n + 1)
                     PROVE  /\ t[i].start <= t[i].end
                            /\ i > 1 => t[i - 1].end + 1 < t[i].start
            BY <2>5 DEF Ascending
        <3>1. CASE i \in 1..n
            <4>1. i > 1 => i - 1 \in 1..n
                BY <1>1, <3>1
            <4> QED BY <4>1, <3>1, <1>3, <2>3
        <3>2. CASE i = n + 1
            <4>1. t[i].start = line /\ t[i].end = line
                BY <3>2, <2>2, <2>3
            <4>2. ASSUME i > 1 PROVE t[i - 1].end + 1 < line
                <5>1. i - 1 = n /\ n # 0 /\ n \in 1..n
                    BY <1>1, <3>2, <4>2
                <5>2. t[n].end = last /\ last + 1 # line /\ last < line
                    BY <5>1, <2>3, <2>6
                <5> QED BY <5>1, <5>2
            <4> QED BY <4>1, <4>2
        <3> QED BY <2>7, <3>1, <3>2
    <2>9. LinesIn(t) = LinesIn(ranges) \union {line}
        <3>1. t[n + 1].start..t[n + 1].end = {line}
            BY <2>2, <2>3
        <3>2. \A i \in 1..n : t[i].start..t[i].end = ranges[i].start..ranges[i].end
            BY <2>3
        <3>3. \A l : l \in LinesIn(t) <=> \E i \in 1..(n + 1) : l \in t[i].start..t[i].end
            BY <2>5 DEF LinesIn
        <3>4. \A l : l \in LinesIn(ranges) <=> \E i \in 1..n : l \in ranges[i].start..ranges[i].end
            BY <1>1 DEF LinesIn
        <3>6. \A i \in 1..n : i \in 1..(n + 1)
            BY <1>1
        <3>7. n + 1 \in 1..(n + 1)
            BY <1>1
        <3>5. \A l : l \in LinesIn(t) <=> l \in LinesIn(ranges) \/ l = line
            BY <3>1, <3>2, <3>3, <3>4, <3>6, <3>7, <2>7
        <3> QED BY <3>5
    <2> QED BY <2>3, <2>4, <2>8, <2>9 DEF RangesUpTo, t
<1> QED BY <1>4, <1>5

\* The ranges after the first k lines of q.
RangesOfFirst(ranges, q, k) ==
    /\ RangesUpTo(ranges, IF k = 0 THEN 0 ELSE q[k])
    /\ ranges = <<>> <=> k = 0
    /\ \A l : l \in LinesIn(ranges) <=> \E i \in 1..k : l = q[i]

\* The ranges of a set of lines hold each of them once, in order.
LEMMA RangesHoldTheLines ==
    ASSUME NEW lines, lines \subseteq Nat, IsFiniteSet(lines)
    PROVE  /\ Ascending(lineRanges(lines))
           /\ LinesIn(lineRanges(lines)) = lines
           /\ lineRanges(lines) = <<>> <=> lines = {}
<1> DEFINE q == InOrder(lines, <)
           n == Cardinality(lines)
<1>1. Lists(q, lines, Smaller(lines)) /\ \A a, b \in lines : <<a, b>> \in Smaller(lines) <=> a < b
    <2>1. lines \subseteq Int
        OBVIOUS
    <2> QED BY <2>1, NumbersInOrder
<1>2. n \in Nat /\ (n = 0 <=> lines = {})
    BY FS_CardinalityType, FS_EmptySet
<1>3. lineRanges(lines) = FoldLeft(growRanges, <<>>, q)
    BY DEF lineRanges
<1> HIDE DEF q, n
<1>4. /\ q \in [1..n -> lines]
      /\ \A c \in lines : \E i \in 1..n : q[i] = c
      /\ \A i, j \in 1..n : i < j => q[i] < q[j]
    <2>1. /\ q \in [1..n -> lines]
          /\ \A c \in lines : \E i \in 1..n : q[i] = c
          /\ \A i, j \in 1..n : i < j => <<q[i], q[j]>> \in Smaller(lines)
        BY <1>1 DEF Lists, n
    <2> QED BY <2>1, <1>1
<1>5. q \in Seq(Nat) /\ Len(q) = n
    <2>1. q \in [1..n -> Nat]
        BY <1>4
    <2>2. q \in Seq(Nat)
        BY <2>1, <1>2, SeqDef
    <2> QED BY <2>1, <2>2, <1>2, LenProperties
<1>6. PICK f \in [0..n -> Seq(Ranges)] :
         /\ f[0] = <<>>
         /\ \A k \in 1..n : f[k] = growRanges(f[k - 1], q[k])
         /\ f[n] = FoldLeft(growRanges, <<>>, q)
    BY <1>5, GrowByPrefix
<1> DEFINE T == {k \in Nat : k <= n => RangesOfFirst(f[k], q, k)}
<1>7. 0 \in T
    <2>1. DOMAIN <<>> = {} /\ <<>> \in Seq(Ranges)
        BY EmptySeq
    <2>2. Ascending(<<>>) /\ \A l : l \notin LinesIn(<<>>)
        BY <2>1 DEF Ascending, LinesIn
    <2>3. RangesOfFirst(<<>>, q, 0)
        BY <2>1, <2>2 DEF RangesOfFirst, RangesUpTo
    <2> QED BY <2>3, <1>6
<1>8. ASSUME NEW k \in Nat, k \in T PROVE k + 1 \in T
    <2> SUFFICES ASSUME k + 1 <= n PROVE RangesOfFirst(f[k + 1], q, k + 1)
        OBVIOUS
    <2> DEFINE last == IF k = 0 THEN 0 ELSE q[k]
    <2>1. k + 1 \in 1..n /\ (k + 1) - 1 = k /\ k \in 0..n /\ (k # 0 => k \in 1..n)
        BY <1>2
    <2>2. RangesOfFirst(f[k], q, k)
        BY <1>2, <1>8
    <2>3. f[k + 1] = growRanges(f[k], q[k + 1])
        BY <2>1, <1>6
    <2>4. q[k + 1] \in Nat /\ last \in Nat
        BY <2>1, <1>4
    <2>5. k # 0 => last < q[k + 1]
        BY <2>1, <1>4
    <2> HIDE DEF T
    <2>6. /\ RangesUpTo(f[k], last)
          /\ f[k] = <<>> <=> k = 0
          /\ \A l : l \in LinesIn(f[k]) <=> \E i \in 1..k : l = q[i]
        BY <2>2 DEF RangesOfFirst
    <2> HIDE DEF last
    <2>7. /\ RangesUpTo(f[k + 1], q[k + 1])
          /\ f[k + 1] # <<>>
          /\ LinesIn(f[k + 1]) = LinesIn(f[k]) \union {q[k + 1]}
        BY <2>3, <2>4, <2>5, <2>6, GrowOneMore
    <2>8. \A i : i \in 1..(k + 1) <=> i \in 1..k \/ i = k + 1
        OBVIOUS
    <2>9. \A l : l \in LinesIn(f[k + 1]) <=> \E i \in 1..(k + 1) : l = q[i]
        BY <2>6, <2>7, <2>8
    <2>10. k + 1 # 0
        OBVIOUS
    <2> QED BY <2>7, <2>9, <2>10 DEF RangesOfFirst
<1>9. Nat \subseteq T
    <2> HIDE DEF T
    <2> QED BY <1>7, <1>8, SetInduction
<1>10. RangesOfFirst(lineRanges(lines), q, n)
    BY <1>2, <1>3, <1>6, <1>9
<1> HIDE DEF T
<1>11. \A l : l \in LinesIn(lineRanges(lines)) <=> l \in lines
    <2>1. \A l : l \in LinesIn(lineRanges(lines)) <=> \E i \in 1..n : l = q[i]
        BY <1>10 DEF RangesOfFirst
    <2>2. \A i \in 1..n : q[i] \in lines
        BY <1>4
    <2>3. \A c \in lines : \E i \in 1..n : q[i] = c
        BY <1>4
    <2>4. \A l : (\E i \in 1..n : l = q[i]) <=> l \in lines
        BY <2>2, <2>3, ZenonT(60)
    <2> QED BY <2>1, <2>4, Zenon
<1> QED BY <1>2, <1>10, <1>11 DEF RangesOfFirst, RangesUpTo

\* Per hundred, cut off: 100 only when all are covered.
LEMMA PercentIsExact ==
    ASSUME NEW c \in Nat, NEW t \in Nat, c <= t
    PROVE  /\ istanbulPercent(c, t) \in -1..10000
           /\ istanbulPercent(c, t) = -1 <=> t = 0
           /\ istanbulPercent(c, t) = 10000 <=> t > 0 /\ c = t
<1> DEFINE Exact == /\ istanbulPercent(c, t) \in -1..10000
                    /\ istanbulPercent(c, t) = -1 <=> t = 0
                    /\ istanbulPercent(c, t) = 10000 <=> t > 0 /\ c = t
<1>1. ASSUME t = 0 PROVE Exact
    BY <1>1, SMTT(30) DEF istanbulPercent
<1>2. ASSUME t # 0 PROVE Exact
    <2> DEFINE x == (100000 * c) \div t
               y == x \div 10
    <2>1. istanbulPercent(c, t) = y
        BY <1>2 DEF istanbulPercent
    <2>2. x \in Int /\ t * x <= 100000 * c /\ 100000 * c < t * x + t
        BY <1>2
    <2> HIDE DEF x
    <2>3. x >= 0
        BY <2>2, <1>2
    <2>4. x <= 100000
        BY <2>2, <1>2
    <2>5. c = t => x = 100000
        BY <2>2, <1>2
    <2>6. x = 100000 => c = t
        BY <2>2, <1>2
    <2>7. y \in 0..10000 /\ (y = 10000 <=> x = 100000)
        BY <2>2, <2>3, <2>4
    <2> HIDE DEF y
    <2>13. y \in -1..10000
        BY <2>7
    <2>14. y # -1
        BY <2>7
    <2>15. y = 10000 <=> c = t
        BY <2>5, <2>6, <2>7, SMTT(30)
    <2>8. y \in -1..10000 /\ y # -1 /\ (y = 10000 <=> c = t)
        BY <2>13, <2>14, <2>15
    <2>9. t > 0
        BY <1>2
    <2>10. istanbulPercent(c, t) \in -1..10000
        BY <2>1, <2>8
    <2>11. istanbulPercent(c, t) = -1 <=> t = 0
        BY <2>1, <2>8, <1>2
    <2>12. istanbulPercent(c, t) = 10000 <=> t > 0 /\ c = t
        BY <2>1, <2>8, <2>9
    <2> QED BY <2>10, <2>11, <2>12
<1>3. Exact
    <2> HIDE DEF Exact
    <2> QED BY <1>1, <1>2
<1> QED BY <1>3

(***************************************************************************)
(* What is said of a file and of all of them.                              *)
(***************************************************************************)
\* The values of a function over a finite set are finitely many.
LEMMA FiniteValues ==
    ASSUME NEW S, IsFiniteSet(S), NEW F, S \subseteq DOMAIN F
    PROVE  IsFiniteSet({F[x] : x \in S})
<1> DEFINE T == {F[x] : x \in S}
           G == [x \in S |-> F[x]]
<1>1. G \in Surjection(S, T)
    BY DEF Surjection
<1> HIDE DEF G, T
<1>2. IsFiniteSet(T)
    BY <1>1, FS_Surjection
<1> QED BY <1>2 DEF T

\* What each file has, with its name.
Tagged(files, A) == UNION {{f} \X A[f] : f \in files}

\* The shares of the files add up to all only if each is whole.
LEMMA FullOnlyIfEachIs ==
    ASSUME NEW files, IsFiniteSet(files), NEW A, NEW B,
           \A f \in files : A[f] \subseteq B[f] /\ IsFiniteSet(B[f]),
           NEW missed, missed <=> \E f \in files : A[f] # B[f]
    PROVE  FullOnlyIfAllRan(metric(Cardinality(Tagged(files, A)), Cardinality(Tagged(files, B))),
                            missed)
<1> DEFINE U == Tagged(files, A)
           V == Tagged(files, B)
<1>1. U \subseteq V
    BY DEF Tagged
<1>2. IsFiniteSet(V)
    <2> DEFINE Op(f) == {f} \X B[f]
               F == [f \in files |-> Op(f)]
    <2>1. IsFiniteSet({Op(f) : f \in files})
        <3>1. DOMAIN F = files /\ {Op(f) : f \in files} = {F[f] : f \in files}
            <4> HIDE DEF Op
            <4> QED OBVIOUS
        <3> HIDE DEF F, Op
        <3> QED BY <3>1, FiniteValues
    <2>2. \A f \in files : IsFiniteSet(Op(f))
        <3> SUFFICES ASSUME NEW f \in files PROVE IsFiniteSet(Op(f))
            OBVIOUS
        <3>1. IsFiniteSet({f}) /\ IsFiniteSet(B[f])
            BY FS_Singleton
        <3> QED BY <3>1, FS_Product
    <2>3. \A T \in {Op(f) : f \in files} : IsFiniteSet(T)
        <3> HIDE DEF Op
        <3> QED BY <2>2
    <2>4. IsFiniteSet(UNION {Op(f) : f \in files})
        <3> HIDE DEF Op
        <3> QED BY <2>1, <2>3, FS_UNION
    <2> QED BY <2>4 DEF Tagged
<1>3. U = V <=> ~missed
    <2>1. \A f \in files : \A x : (<<f, x>> \in U <=> x \in A[f]) /\ (<<f, x>> \in V <=> x \in B[f])
        BY DEF Tagged
    <2>2. U = V => \A f \in files : A[f] = B[f]
        <3> HIDE DEF U, V
        <3> QED BY <2>1
    <2>3. (\A f \in files : A[f] = B[f]) => U = V
        BY DEF Tagged
    <2> QED BY <2>2, <2>3
<1> HIDE DEF U, V
<1>4. IsFiniteSet(U) /\ Cardinality(U) <= Cardinality(V) /\ (Cardinality(U) = Cardinality(V) <=> U = V)
    BY <1>1, <1>2, FS_Subset
<1> DEFINE c == Cardinality(U)
           t == Cardinality(V)
<1>5. c \in Nat /\ t \in Nat /\ c <= t
    BY <1>2, <1>4, FS_CardinalityType
<1>6. c = t <=> ~missed
    BY <1>3, <1>4, SMTT(30)
<1> HIDE DEF c, t
<1>7. /\ istanbulPercent(c, t) \in -1..10000
      /\ istanbulPercent(c, t) = -1 <=> t = 0
      /\ istanbulPercent(c, t) = 10000 <=> t > 0 /\ c = t
    BY <1>5, PercentIsExact, SMTT(30)
<1>8. metric(c, t).pct = istanbulPercent(c, t) /\ metric(c, t).total = t
    BY DEF metric
<1>9. FullOnlyIfAllRan(metric(c, t), missed)
    BY <1>6, <1>7, <1>8 DEF FullOnlyIfAllRan
<1> QED BY <1>9 DEF c, t, U, V

Changed(changed) == changed \in SUBSET (Nat \ {0}) /\ IsFiniteSet(changed)

ByPath == indexCoverage(parseCoverageFinal(SampleFiles))

Known(f) == f \in DOMAIN SampleFiles /\ SampleFiles[f].readable

\* What the report knows of the files is what could be read of those of the Worker.
LEMMA WhatIsKnown ==
    ASSUME NEW f \in WorkerSources
    PROVE  /\ f \in DOMAIN ByPath <=> Known(f)
           /\ Known(f) => ByPath[f] = parseFileCoverage(SampleFiles[f])
    BY DEF ByPath, Known, indexCoverage, parseCoverageFinal

\* A line ran if a statement that begins there did.
LEMMA LinesThatRan ==
    ASSUME NEW f \in WorkerSources, Known(f)
    PROVE  LET hits == lineHits(ByPath[f])
               Stated(l) == {s \in SampleFiles[f].statements : s.readable /\ s.line = l}
           IN  \A l : /\ l \in DOMAIN hits <=> Stated(l) # {}
                      /\ l \in DOMAIN hits => (hits[l] > 0 <=> \E s \in Stated(l) : s.count > 0)
                      /\ (\A s \in Stated(l) : s.count = 0) <=> ~ (\E s \in Stated(l) : s.count > 0)
<1> DEFINE file == ByPath[f]
           hits == lineHits(file)
           Stated(l) == {s \in SampleFiles[f].statements : s.readable /\ s.line = l}
           Counts(l) == {s.count : s \in {t \in file.statements : t.line = l}}
<1>1. file.statements = {s \in SampleFiles[f].statements : s.readable}
    <2>1. file = parseFileCoverage(SampleFiles[f])
        BY WhatIsKnown
    <2> HIDE DEF file
    <2> QED BY <2>1 DEF parseFileCoverage
<1>2. /\ IsFiniteSet(SampleFiles[f].statements)
      /\ \A s \in SampleFiles[f].statements : s.count \in Nat
    BY ReportAssumption DEF ReportInputOK, Known
<1>3. DOMAIN hits = {s.line : s \in file.statements}
      /\ \A l \in DOMAIN hits : hits[l] = Max(Counts(l))
    BY DEF lineHits
<1>4. \A l : Counts(l) = {s.count : s \in Stated(l)}
    BY <1>1
<1> HIDE DEF file, hits, Counts
<1>5. ASSUME NEW l
      PROVE  /\ l \in DOMAIN hits <=> Stated(l) # {}
             /\ l \in DOMAIN hits => (hits[l] > 0 <=> \E s \in Stated(l) : s.count > 0)
             /\ (\A s \in Stated(l) : s.count = 0) <=> ~ (\E s \in Stated(l) : s.count > 0)
    <2>1. l \in DOMAIN hits <=> Stated(l) # {}
        BY <1>1, <1>3
    <2>2. \A s \in Stated(l) : s.count \in Nat
        BY <1>2
    <2>3. IsFiniteSet(Stated(l))
        BY <1>2, FS_Subset
    <2> HIDE DEF Stated
    <2>4. ASSUME l \in DOMAIN hits
          PROVE  hits[l] > 0 <=> \E s \in Stated(l) : s.count > 0
        <3> DEFINE F == [s \in Stated(l) |-> s.count]
                   C == {s.count : s \in Stated(l)}
        <3>1. IsFiniteSet(C)
            <4>1. DOMAIN F = Stated(l) /\ C = {F[s] : s \in Stated(l)}
                OBVIOUS
            <4> HIDE DEF F, C
            <4> QED BY <4>1, <2>3, FiniteValues
        <3>2. C \subseteq Int /\ C # {}
            BY <2>1, <2>2, <2>4
        <3>3. hits[l] = Max(C)
            BY <1>3, <1>4, <2>4
        <3>4. \A n : n \in C <=> \E s \in Stated(l) : n = s.count
            OBVIOUS
        <3> HIDE DEF C
        <3>5. Max(C) \in C /\ \A x \in C : x <= Max(C)
            BY <3>1, <3>2, GreatestOfFinite
        <3>6. hits[l] \in Int
            BY <3>2, <3>3, <3>5
        <3>7. hits[l] > 0 => \E s \in Stated(l) : s.count > 0
            BY <3>3, <3>4, <3>5
        <3>8. ASSUME NEW s \in Stated(l), s.count > 0 PROVE hits[l] > 0
            <4>1. s.count <= hits[l] /\ s.count \in Nat
                BY <2>2, <3>3, <3>4, <3>5
            <4> QED BY <4>1, <3>6, <3>8
        <3> QED BY <3>7, <3>8
    <2>5. (\A s \in Stated(l) : s.count = 0) <=> ~ (\E s \in Stated(l) : s.count > 0)
        <3>1. \A s \in Stated(l) : s.count = 0 <=> ~ (s.count > 0)
            BY <2>2
        <3> QED BY <3>1
    <2> QED BY <2>1, <2>4, <2>5
<1> QED BY <1>5 DEF hits, file

\* A path of a branch is missed if its change never took it.
LEMMA PathsThatRan ==
    ASSUME NEW f \in WorkerSources, Known(f), NEW changed, Changed(changed)
    PROVE  LET branches == branchesInChange(ByPath[f], changed)
           IN  /\ IsFiniteSet(branches)
               /\ (\E b \in branches : ~b.covered) <=> MissedPath(SampleFiles[f], changed)
<1> DEFINE file == SampleFiles[f]
           bs == {b \in file.branches : b.readable}
           Near(b) == {k \in DOMAIN b.paths : {pathLine(b, k), b.line} \intersect changed # {}}
           Path(b, i) == [branch |-> b, path |-> i, covered |-> b.paths[i].count > 0]
           Of(b) == {Path(b, i) : i \in Near(b)}
           branches == branchesInChange(ByPath[f], changed)
<1>1. /\ IsFiniteSet(file.branches)
      /\ \A b \in file.branches : /\ b.line \in Nat /\ b.readable \in BOOLEAN
                                  /\ b.paths \in Seq([line: Nat, count: Nat])
    BY ReportAssumption DEF ReportInputOK, Known
<1>2. branches = UNION {Of(b) : b \in bs}
    <2>1. ByPath[f] = parseFileCoverage(SampleFiles[f])
        BY WhatIsKnown
    <2>2. ByPath[f].branches = bs
        BY <2>1 DEF parseFileCoverage
    <2> QED BY <2>2 DEF branchesInChange
<1>3. IsFiniteSet(bs)
    BY <1>1, FS_Subset
<1>4. ASSUME NEW b \in bs PROVE IsFiniteSet(Of(b))
    <2> DEFINE F == [i \in DOMAIN b.paths |-> Path(b, i)]
    <2>1. Len(b.paths) \in Nat /\ DOMAIN b.paths = 1..Len(b.paths)
        BY <1>1, LenProperties
    <2>2. IsFiniteSet(Near(b)) /\ Near(b) \subseteq DOMAIN F
        <3>1. IsFiniteSet(1..Len(b.paths))
            BY <2>1, FS_Interval
        <3>2. Near(b) \in SUBSET (1..Len(b.paths))
            BY <2>1
        <3> QED BY <2>1, <3>1, <3>2, FS_Subset
    <2>3. Of(b) = {F[i] : i \in Near(b)}
        <3> HIDE DEF Path
        <3> QED OBVIOUS
    <2> HIDE DEF F, Of, Near
    <2> QED BY <2>2, <2>3, FiniteValues
<1>5. IsFiniteSet(branches)
    <2> DEFINE F == [b \in bs |-> Of(b)]
    <2>1. {Of(b) : b \in bs} = {F[b] : b \in bs} /\ DOMAIN F = bs
        <3> HIDE DEF Of, bs
        <3> QED OBVIOUS
    <2> HIDE DEF F
    <2>2. IsFiniteSet({Of(b) : b \in bs})
        <3> HIDE DEF Of, bs
        <3> QED BY <1>3, <2>1, FiniteValues
    <2>3. \A T \in {Of(b) : b \in bs} : IsFiniteSet(T)
        <3> HIDE DEF Of, bs
        <3> QED BY <1>4
    <2> HIDE DEF Of, bs, branches
    <2> QED BY <1>2, <2>2, <2>3, FS_UNION
<1>6. \A b \in bs : \A i \in DOMAIN b.paths :
        b.paths[i].line \in Nat /\ b.paths[i].count \in Nat
    <2> SUFFICES ASSUME NEW b \in bs, NEW i \in DOMAIN b.paths
                 PROVE  b.paths[i].line \in Nat /\ b.paths[i].count \in Nat
        OBVIOUS
    <2>1. b.paths \in Seq([line: Nat, count: Nat])
        BY <1>1
    <2>2. b.paths[i] \in [line: Nat, count: Nat]
        BY <2>1, LenProperties, ElementOfSeq
    <2> QED BY <2>2
<1>7. \A b \in bs : \A i \in DOMAIN b.paths :
        i \in Near(b) <=> b.line \in changed \/ b.paths[i].line \in changed
    <2> SUFFICES ASSUME NEW b \in bs, NEW i \in DOMAIN b.paths
                 PROVE  i \in Near(b) <=> b.line \in changed \/ b.paths[i].line \in changed
        OBVIOUS
    <2>1. b.paths[i].line \in Nat
        BY <1>6
    <2>2. b.paths[i].line \in changed => b.paths[i].line > 0
        BY <2>1 DEF Changed
    <2>3. i \in Near(b) <=> b.line \in changed \/ pathLine(b, i) \in changed
        OBVIOUS
    <2> QED BY <2>2, <2>3 DEF pathLine
<1>8. \A x : x \in branches <=> \E b \in bs : \E i \in Near(b) : x = Path(b, i)
    <2> HIDE DEF bs, Near, Path, branches
    <2> QED BY <1>2
<1>9. \A b, i : Path(b, i).covered <=> b.paths[i].count > 0
    OBVIOUS
<1>10. (\E x \in branches : ~x.covered) <=> \E b \in bs : \E i \in Near(b) : ~ (b.paths[i].count > 0)
    <2> HIDE DEF bs, Near, Path, branches
    <2> QED BY <1>8, <1>9
<1>11. MissedPath(file, changed) <=>
          \E b \in bs : \E i \in DOMAIN b.paths :
            b.paths[i].count = 0 /\ (b.line \in changed \/ b.paths[i].line \in changed)
    BY DEF MissedPath, Known
<1>12. \A b \in bs : \A i \in DOMAIN b.paths : ~ (b.paths[i].count > 0) <=> b.paths[i].count = 0
    BY <1>6
<1>13. \A b \in bs : Near(b) \subseteq DOMAIN b.paths
    OBVIOUS
<1>14. (\E x \in branches : ~x.covered) <=> MissedPath(file, changed)
    <2> HIDE DEF bs, Near, Path, branches, file
    <2> QED BY <1>7, <1>10, <1>11, <1>12, <1>13
<1> QED BY <1>5, <1>14

\* What is said of one changed file.
LEMMA FileIsAccounted ==
    ASSUME NEW f \in WorkerSources, NEW changed, Changed(changed)
    PROVE  LET said == fileReport(changed, ByPath, f)
           IN  /\ Accounted(said, changed, f)
               /\ said.ran \subseteq said.measured /\ IsFiniteSet(said.measured)
               /\ said.uncovered # <<>> <=> said.ran # said.measured
               /\ IsFiniteSet(said.branches)
               /\ {b \in said.branches : b.covered} # said.branches
                     <=> f \in DOMAIN SampleFiles /\ MissedPath(SampleFiles[f], changed)
<1> DEFINE said == fileReport(changed, ByPath, f)
           Stated(l) == {s \in SampleFiles[f].statements : s.readable /\ s.line = l}
           unrun == {l \in changed : Known(f) /\ Stated(l) # {} /\ \A s \in Stated(l) : s.count = 0}
           ran  == {l \in changed : Known(f) /\ \E s \in Stated(l) : s.count > 0}
<1>0. changed \subseteq Nat /\ IsFiniteSet(changed)
    BY DEF Changed
<1>1. CASE ~Known(f)
    <2>1. said = [missing |-> lineRanges(changed), measured |-> {}, uncovered |-> <<>>, ran |-> {},
                  branches |-> {}]
        BY <1>1, WhatIsKnown DEF fileReport
    <2> HIDE DEF said
    <2>2. Ascending(said.missing) /\ LinesIn(said.missing) = changed
        BY <1>0, <2>1, RangesHoldTheLines
    <2>3. Ascending(said.uncovered) /\ LinesIn(said.uncovered) = {}
        BY <2>1 DEF Ascending, LinesIn
    <2>4. Accounted(said, changed, f)
        BY <1>1, <2>1, <2>2, <2>3 DEF Accounted, Known
    <2>5. ~ (f \in DOMAIN SampleFiles /\ MissedPath(SampleFiles[f], changed))
        BY <1>1 DEF MissedPath, Known
    <2>6. IsFiniteSet({})
        BY FS_EmptySet
    <2> QED BY <2>1, <2>4, <2>5, <2>6 DEF said
<1>2. CASE Known(f)
    <2> DEFINE hits == lineHits(ByPath[f])
               measured == changed \intersect DOMAIN hits
               ranHere  == {l \in measured : hits[l] > 0}
    <2>1. said = [missing |-> <<>>, measured |-> measured, ran |-> ranHere,
                  uncovered |-> lineRanges(measured \ ranHere),
                  branches |-> branchesInChange(ByPath[f], changed)]
        BY <1>2, WhatIsKnown DEF fileReport
    <2>2. \A l : /\ l \in DOMAIN hits <=> Stated(l) # {}
                 /\ l \in DOMAIN hits => (hits[l] > 0 <=> \E s \in Stated(l) : s.count > 0)
                 /\ (\A s \in Stated(l) : s.count = 0) <=> ~ (\E s \in Stated(l) : s.count > 0)
        BY <1>2, LinesThatRan
    <2> HIDE DEF hits, Stated
    <2>3. ranHere = ran
        BY <1>2, <2>2
    <2>4. measured \ ranHere = unrun
        BY <1>2, <2>2
    <2>5. measured = ran \union unrun /\ ranHere \subseteq measured
        BY <2>3, <2>4
    <2>6. IsFiniteSet(measured) /\ IsFiniteSet(unrun)
        BY <1>0, FS_Subset
    <2>7. unrun \subseteq Nat
        BY <1>0
    <2> HIDE DEF measured, ranHere, said, unrun, ran
    <2>8. /\ Ascending(lineRanges(unrun)) /\ LinesIn(lineRanges(unrun)) = unrun
          /\ lineRanges(unrun) = <<>> <=> unrun = {}
        BY <2>6, <2>7, RangesHoldTheLines
    <2>9. /\ said.missing = <<>> /\ said.measured = measured /\ said.ran = ran
          /\ said.uncovered = lineRanges(unrun)
          /\ said.branches = branchesInChange(ByPath[f], changed)
        BY <2>1, <2>3, <2>4
    <2>10. Ascending(said.missing) /\ LinesIn(said.missing) = {}
        BY <2>9 DEF Ascending, LinesIn
    <2>11. Accounted(said, changed, f)
        <3>1. f \in DOMAIN SampleFiles /\ SampleFiles[f].readable
            BY <1>2 DEF Known
        <3>2. said.uncovered = lineRanges(unrun) /\ said.ran = ran /\ said.measured = ran \union unrun
            BY <2>5, <2>9
        <3>3. Accounted(said, changed, f) <=>
                /\ Ascending(said.missing) /\ Ascending(said.uncovered)
                /\ LinesIn(said.missing) = {}
                /\ LinesIn(said.uncovered) = unrun
                /\ said.ran = ran
                /\ said.measured = ran \union unrun
            BY <3>1 DEF Accounted, unrun, ran, Stated, Known
        <3> QED BY <2>8, <2>10, <3>2, <3>3
    <2>12. said.uncovered # <<>> <=> said.ran # said.measured
        <3>1. ran = measured <=> unrun = {}
            BY <2>3, <2>4, <2>5
        <3> QED BY <2>8, <2>9, <3>1
    <2>13. /\ IsFiniteSet(said.branches)
           /\ (\E b \in said.branches : ~b.covered) <=> MissedPath(SampleFiles[f], changed)
        BY <1>2, <2>9, PathsThatRan
    <2>14. f \in DOMAIN SampleFiles
        BY <1>2 DEF Known
    <2>15. {b \in said.branches : b.covered} # said.branches <=> \E b \in said.branches : ~b.covered
        OBVIOUS
    <2> QED BY <2>3, <2>5, <2>6, <2>9, <2>11, <2>12, <2>13, <2>14, <2>15 DEF said
<1> QED BY <1>1, <1>2

\* The lines read of a diff.
LinesRead(read) ==
    /\ read \in [WorkerSources -> SUBSET (Nat \ {0})]
    /\ \A f \in WorkerSources : IsFiniteSet(read[f])

\* The report says of every line read what the tests did with it.
LEMMA ReportSaysAll ==
    ASSUME NEW read, LinesRead(read)
    PROVE  SaidOfAll(diffCoverage(read, parseCoverageFinal(SampleFiles)), read)
<1> DEFINE files == {f \in WorkerSources : read[f] # {}}
           rep == [f \in files |-> fileReport(read[f], ByPath, f)]
           report == diffCoverage(read, parseCoverageFinal(SampleFiles))
           ran == [f \in files |-> rep[f].ran]
           measured == [f \in files |-> rep[f].measured]
           covered == [f \in files |-> {b \in rep[f].branches : b.covered}]
           branches == [f \in files |-> rep[f].branches]
           lineMissed == \E f \in files : report.files[f].uncovered # <<>>
           branchMissed == \E f \in files \intersect DOMAIN SampleFiles :
                                MissedPath(SampleFiles[f], read[f])
<1>1. IsFiniteSet(files)
    BY NoPathIsNoSource, FS_Subset
<1>2. /\ report.files = rep
      /\ report.line = metric(Cardinality(UNION {{f} \X rep[f].ran : f \in files}),
                              Cardinality(UNION {{f} \X rep[f].measured : f \in files}))
      /\ report.branch = metric(Cardinality(UNION {{f} \X {b \in rep[f].branches : b.covered} : f \in files}),
                                Cardinality(UNION {{f} \X rep[f].branches : f \in files}))
    BY DEF diffCoverage, OfAllFiles, ByPath, LinesRead
<1>3. /\ UNION {{f} \X rep[f].ran : f \in files} = Tagged(files, ran)
      /\ UNION {{f} \X rep[f].measured : f \in files} = Tagged(files, measured)
      /\ UNION {{f} \X {b \in rep[f].branches : b.covered} : f \in files} = Tagged(files, covered)
      /\ UNION {{f} \X rep[f].branches : f \in files} = Tagged(files, branches)
    <2> HIDE DEF rep, files
    <2> QED BY DEF Tagged
<1>4. ASSUME NEW f \in files
      PROVE  /\ Accounted(rep[f], read[f], f)
             /\ ran[f] \subseteq measured[f] /\ IsFiniteSet(measured[f])
             /\ rep[f].uncovered # <<>> <=> ran[f] # measured[f]
             /\ covered[f] \subseteq branches[f] /\ IsFiniteSet(branches[f])
             /\ covered[f] # branches[f] <=> f \in DOMAIN SampleFiles /\ MissedPath(SampleFiles[f], read[f])
    <2>1. f \in WorkerSources /\ Changed(read[f])
        BY DEF LinesRead, Changed
    <2>2. rep[f] = fileReport(read[f], ByPath, f)
        OBVIOUS
    <2> HIDE DEF rep
    <2>3. /\ Accounted(rep[f], read[f], f)
          /\ rep[f].ran \subseteq rep[f].measured /\ IsFiniteSet(rep[f].measured)
          /\ rep[f].uncovered # <<>> <=> rep[f].ran # rep[f].measured
          /\ IsFiniteSet(rep[f].branches)
          /\ {b \in rep[f].branches : b.covered} # rep[f].branches
                     <=> f \in DOMAIN SampleFiles /\ MissedPath(SampleFiles[f], read[f])
        BY <2>1, <2>2, FileIsAccounted
    <2>4. ran[f] = rep[f].ran /\ measured[f] = rep[f].measured
          /\ covered[f] = {b \in rep[f].branches : b.covered} /\ branches[f] = rep[f].branches
        OBVIOUS
    <2> QED BY <2>3, <2>4
<1> HIDE DEF ran, measured, covered, branches
<1>5. FullOnlyIfAllRan(report.line, lineMissed)
    <2>1. lineMissed <=> \E f \in files : ran[f] # measured[f]
        <3> HIDE DEF rep, report
        <3> QED BY <1>2, <1>4
    <2>2. \A f \in files : ran[f] \subseteq measured[f] /\ IsFiniteSet(measured[f])
        BY <1>4
    <2> HIDE DEF files, rep, report, lineMissed
    <2>3. FullOnlyIfAllRan(metric(Cardinality(Tagged(files, ran)), Cardinality(Tagged(files, measured))), lineMissed)
        BY <1>1, <2>1, <2>2, FullOnlyIfEachIs
    <2> QED BY <2>3, <1>2, <1>3
<1>6. FullOnlyIfAllRan(report.branch, branchMissed)
    <2>1. branchMissed <=> \E f \in files : covered[f] # branches[f]
        BY <1>4
    <2>2. \A f \in files : covered[f] \subseteq branches[f] /\ IsFiniteSet(branches[f])
        BY <1>4
    <2> HIDE DEF files, rep, report, branchMissed
    <2>3. FullOnlyIfAllRan(metric(Cardinality(Tagged(files, covered)), Cardinality(Tagged(files, branches))), branchMissed)
        BY <1>1, <2>1, <2>2, FullOnlyIfEachIs
    <2> QED BY <2>3, <1>2, <1>3
<1>7. DOMAIN report.files = files
    BY <1>2
<1>8. \A f \in files : Accounted(report.files[f], read[f], f)
    BY <1>2, <1>4
<1> HIDE DEF report, rep, lineMissed, branchMissed
<1>10. FullOnlyIfAllRan(report.line, \E f \in files : report.files[f].uncovered # <<>>)
    BY <1>5 DEF lineMissed
<1>11. FullOnlyIfAllRan(report.branch, \E f \in files \intersect DOMAIN SampleFiles : MissedPath(SampleFiles[f], read[f]))
    BY <1>6 DEF branchMissed
<1>12. SaidOfAll(report, read)
    BY <1>7, <1>8, <1>10, <1>11 DEF SaidOfAll
<1> QED BY <1>12 DEF report

\* A summary without a note is the report.
LEMMA SummaryHidesNothing ==
    ASSUME NEW diff, NEW ci
    PROVE  NothingHidden(buildCoverageSummary(ci, diff, SampleFiles),
                         diffCoverage(parseUnifiedDiff(diff), parseCoverageFinal(SampleFiles)))
<1> DEFINE loaded == loadChangedLines(ci, diff)
           coverage == IF ci.coverage = "ok" THEN parseCoverageFinal(SampleFiles) ELSE <<>>
           summary == buildCoverageSummary(ci, diff, SampleFiles)
<1>1. /\ summary.diff = diffCoverage(loaded.lines, coverage)
      /\ summary.notes = loaded.notes
                       \union (IF ci.coverage = "ok" THEN {} ELSE {"no coverage"})
                       \union (IF ci.totals = "ok" THEN {} ELSE {"no totals"})
    BY DEF buildCoverageSummary
<1>2. \A lines, mode, notes : Loaded(lines, mode, notes).lines = lines
                              /\ Loaded(lines, mode, notes).notes = notes
    BY DEF Loaded
<1>3. resolveDiffBase(ci).mode = "none" => resolveDiffBase(ci).notes # {}
    BY DEF resolveDiffBase, Resolved
<1>4. loaded.notes = {} => loaded.lines = parseUnifiedDiff(diff)
    <2>1. \/ loaded = Loaded(parseUnifiedDiff(diff), "two-dot", {})
          \/ loaded = Loaded(NoLines, "none", {"bad diff"})
          \/ loaded = changedSourceLines(ci, diff)
        BY DEF loadChangedLines
    <2> DEFINE here == changedSourceLines(ci, diff)
               mode == resolveDiffBase(ci).mode
    <2>2. \/ /\ mode = "none"
             /\ here = Loaded(NoLines, "none", resolveDiffBase(ci).notes)
          \/ here = Loaded(NoLines, "none", {"bad head"})
          \/ here = Loaded(NoLines, "none", {"no commit"})
          \/ here = Loaded(NoLines, mode, {"git diff failed"})
          \/ here = Loaded(parseUnifiedDiff(diff), mode, {})
        BY Zenon DEF changedSourceLines
    <2> DEFINE P(l) == l.notes = {} => l.lines = parseUnifiedDiff(diff)
    <2>3. \A n : n # {} => \A lines, m : P(Loaded(lines, m, n))
        BY <1>2
    <2>4. \A m, n : P(Loaded(parseUnifiedDiff(diff), m, n))
        BY <1>2
    <2>5. {"bad diff"} # {} /\ {"bad head"} # {} /\ {"no commit"} # {} /\ {"git diff failed"} # {}
        OBVIOUS
    <2>6. mode = "none" => resolveDiffBase(ci).notes # {}
        BY <1>3
    <2> HIDE DEF loaded, here, mode, P
    <2>7. P(here)
        BY <2>2, <2>3, <2>4, <2>5, <2>6
    <2>8. P(loaded)
        <3>1. CASE loaded = here
            BY <3>1, <2>7
        <3>2. CASE loaded # here
            BY <3>2, <2>1, <2>3, <2>4, <2>5 DEF here
        <3> QED BY <3>1, <3>2
    <2> QED BY <2>8 DEF P
<1> HIDE DEF loaded, summary
<1>5. summary.notes = {} => loaded.notes = {} /\ ci.coverage = "ok"
    BY <1>1
<1>6. summary.notes = {} =>
        summary.diff = diffCoverage(parseUnifiedDiff(diff), parseCoverageFinal(SampleFiles))
    BY <1>1, <1>4, <1>5
<1> QED BY <1>6 DEF NothingHidden, summary

-----------------------------------------------------------------------------
(***************************************************************************)
(* The reading of a diff: line by line, what was read agrees with where    *)
(* the diff itself says that it is.                                        *)
(***************************************************************************)
DiffLines == [kind: DiffKinds, path: WorkerSources \union {NoPath}, at: Nat]

ReadStates == [changed: [WorkerSources -> SUBSET Nat], path: WorkerSources \union {NoPath},
               at: Nat, inHunk: BOOLEAN]

NothingRead == [changed |-> [f \in WorkerSources |-> {}], path |-> NoPath, at |-> 0,
                inHunk |-> FALSE]

\* What is read of a diff.
StateRead(diff) == FoldLeft(readLine, NothingRead, diff)

\* A line leaves the reader in a state of its kind.
LEMMA ReadLineIsTyped ==
    ASSUME NEW r \in ReadStates, NEW line \in DiffLines
    PROVE  readLine(r, line) \in ReadStates
<1>1. line.path \in WorkerSources \union {NoPath} /\ line.at \in Nat /\ line.kind \in DiffKinds
    BY DEF DiffLines
<1>2. workerPath(line.path) \in WorkerSources \union {NoPath}
    BY <1>1 DEF workerPath
<1>3. /\ r.changed \in [WorkerSources -> SUBSET Nat] /\ r.path \in WorkerSources \union {NoPath}
      /\ r.at \in Nat /\ r.inHunk \in BOOLEAN
    BY DEF ReadStates
<1>4. [r EXCEPT !.path = NoPath, !.inHunk = FALSE] \in ReadStates
    BY DEF ReadStates
<1>5. [r EXCEPT !.path = workerPath(line.path)] \in ReadStates
    BY <1>2 DEF ReadStates
<1>6. [r EXCEPT !.at = line.at, !.inHunk = r.path # NoPath] \in ReadStates
    BY <1>1 DEF ReadStates
<1>7. addLine(r) \in ReadStates
    <2> DEFINE c == [r.changed EXCEPT ![r.path] = @ \union {r.at}]
    <2>1. c \in [WorkerSources -> SUBSET Nat]
        BY <1>3
    <2>2. addLine(r) = [r EXCEPT !.changed = c, !.at = r.at + 1]
        BY DEF addLine, ReadStates
    <2>3. r.at + 1 \in Nat
        BY <1>3
    <2> HIDE DEF c
    <2> QED BY <2>1, <2>2, <2>3 DEF ReadStates
<1>8. [r EXCEPT !.at = @ + 1] \in ReadStates
    BY <1>3 DEF ReadStates
<1> QED BY <1>4, <1>5, <1>6, <1>7, <1>8 DEF readLine

\* The fold of readLine is what is read after each line.
LEMMA ReadByPrefix ==
    ASSUME NEW q \in Seq(DiffLines)
    PROVE  \E f \in [0..Len(q) -> ReadStates] :
              /\ f[0] = NothingRead
              /\ \A k \in 1..Len(q) : f[k] = readLine(f[k - 1], q[k])
              /\ f[Len(q)] = StateRead(q)
<1> DEFINE N == Len(q)
           W == ReadStates
           base == NothingRead
           step == [p \in W \X (1..N) |-> readLine(p[1], q[p[2]])]
           V(h) == h = [s \in SUBSET (1..N) |->
                          IF s = {} THEN base ELSE readLine(h[s \ {Max(s)}], q[Max(s)])]
           h == CHOOSE h : V(h)
<1>1. N \in Nat /\ DOMAIN q = 1..N /\ \A k \in 1..N : q[k] \in DiffLines
    BY LenProperties, ElementOfSeq
<1>2. \A s \in W, c \in DiffLines : readLine(s, c) \in W
    BY ReadLineIsTyped
<1>4. base \in W
    BY DEF NothingRead, ReadStates
<1>5. StateRead(q) = h[1..N]
    BY <1>1 DEF FoldLeft, MapThenFoldSet, StateRead
<1> HIDE DEF W, base
<1>3. step \in [W \X (1..N) -> W]
    BY <1>1, <1>2
<1>6. \A s \in W, k \in 1..N : step[<<s, k>>] = readLine(s, q[k])
    OBVIOUS
<1>7. PICK g : Folding(g, W, base, N, step)
    <2> HIDE DEF step, N
    <2> QED BY <1>1, <1>3, <1>4, FoldingExists
<1> HIDE DEF step, N
<1>8. V(g)
    <2>1. ASSUME NEW s \in SUBSET (1..N)
          PROVE  g[s] = IF s = {} THEN base ELSE readLine(g[s \ {Max(s)}], q[Max(s)])
        <3>1. CASE s = {}
            BY <3>1, <1>7 DEF Folding
        <3>2. CASE s # {}
            <4>1. Max(s) \in 1..N
                BY <3>2, <1>1, MaxOfPositions
            <4>2. g[s] = step[<<g[s \ {Max(s)}], Max(s)>>] /\ g[s \ {Max(s)}] \in W
                BY <3>2, <1>7 DEF Folding
            <4> QED BY <3>2, <4>1, <4>2, <1>6
        <3> QED BY <3>1, <3>2
    <2>2. g \in [SUBSET (1..N) -> W]
        BY <1>7 DEF Folding
    <2> QED BY <2>1, <2>2
<1>9. V(h)
    <2> HIDE DEF V
    <2> QED BY <1>8
<1>10. /\ h[{}] = base
       /\ \A s \in SUBSET (1..N) : s # {} => h[s] = readLine(h[s \ {Max(s)}], q[Max(s)])
    <2> HIDE DEF h
    <2> QED BY <1>9
<1> HIDE DEF h, V
<1>11. ASSUME NEW s \in SUBSET (1..N), s # {}, h[s \ {Max(s)}] \in W
       PROVE  h[s] = step[<<h[s \ {Max(s)}], Max(s)>>]
    <2>1. Max(s) \in 1..N
        BY <1>11, <1>1, MaxOfPositions
    <2> QED BY <2>1, <1>6, <1>10, <1>11
<1>12. PICK f : Stages(f, W, base, N, step) /\ f[N] = h[1..N]
    <2>1. Unfolds(h, W, base, N, step)
        BY <1>1, <1>3, <1>4, <1>10, <1>11 DEF Unfolds
    <2> QED BY <2>1, FoldByPrefix
<1>13. ASSUME NEW k \in 1..N PROVE f[k] = readLine(f[k - 1], q[k])
    <2>1. k - 1 \in 0..N
        BY <1>1
    <2> QED BY <2>1, <1>6, <1>12 DEF Stages
<1> QED BY <1>5, <1>12, <1>13 DEF N, Stages, W, base

\* One more line is read after the others.
LEMMA ReadOneMore ==
    ASSUME NEW q \in Seq(DiffLines), NEW line \in DiffLines
    PROVE  /\ StateRead(Append(q, line)) = readLine(StateRead(q), line)
           /\ StateRead(q) \in ReadStates
<1> DEFINE t == Append(q, line)
           n == Len(q)
<1>1. /\ n \in Nat /\ t \in Seq(DiffLines) /\ Len(t) = n + 1
      /\ \A i \in 1..n : t[i] = q[i]
      /\ t[n + 1] = line
    BY AppendProperties, LenProperties
<1>2. PICK f \in [0..n -> ReadStates] :
              /\ f[0] = NothingRead
              /\ \A k \in 1..n : f[k] = readLine(f[k - 1], q[k])
              /\ f[n] = StateRead(q)
    BY ReadByPrefix
<1> HIDE DEF t, n
<1>3. PICK g \in [0..(n + 1) -> ReadStates] :
              /\ g[0] = NothingRead
              /\ \A k \in 1..(n + 1) : g[k] = readLine(g[k - 1], t[k])
              /\ g[n + 1] = StateRead(t)
    <2>1. \E g \in [0..Len(t) -> ReadStates] :
              /\ g[0] = NothingRead
              /\ \A k \in 1..Len(t) : g[k] = readLine(g[k - 1], t[k])
              /\ g[Len(t)] = StateRead(t)
        BY <1>1, ReadByPrefix
    <2> QED BY <2>1, <1>1
<1>4. ASSUME \E k \in Nat : k <= n /\ f[k] # g[k]
      PROVE  FALSE
    <2> DEFINE S == {k \in Nat : k <= n /\ f[k] # g[k]}
    <2>1. S \subseteq Nat /\ S # {}
        BY <1>4
    <2>2. PICK k \in S : \A j \in S : k <= j
        <3> HIDE DEF S
        <3> QED BY <2>1, LeastNat
    <2>3. k \in Nat /\ k # 0 /\ k <= n
        BY <1>2, <1>3
    <2>4. k - 1 \in Nat /\ k - 1 <= n /\ k \in 1..n /\ k \in 1..(n + 1)
        BY <2>3, <1>1
    <2>5. k - 1 \notin S
        <3> HIDE DEF S
        <3> QED BY <2>2, <2>3, <2>4
    <2>6. f[k - 1] = g[k - 1]
        BY <2>4, <2>5
    <2>7. f[k] = g[k]
        BY <2>4, <2>6, <1>1, <1>2, <1>3
    <2> QED BY <2>7, <2>2
<1>5. f[n] = g[n]
    BY <1>1, <1>4
<1>6. n + 1 \in 1..(n + 1) /\ (n + 1) - 1 = n /\ n \in 0..n
    BY <1>1
<1>7. StateRead(t) = readLine(g[n], t[n + 1])
    <2>1. g[n + 1] = readLine(g[(n + 1) - 1], t[n + 1])
        BY <1>3, <1>6
    <2> QED BY <2>1, <1>3, <1>6
<1> QED BY <1>1, <1>2, <1>5, <1>6, <1>7 DEF t

\* What an empty diff says, and which part of the reading counts.
LEMMA NothingReadYet ==
    /\ StateRead(<<>>) = NothingRead
    /\ \A diff : parseUnifiedDiff(diff) = StateRead(diff).changed
<1>1. <<>> \in Seq(DiffLines) /\ Len(<<>>) = 0
    BY EmptySeq
<1>2. StateRead(<<>>) = NothingRead
    BY <1>1, ReadByPrefix
<1> QED BY <1>2 DEF parseUnifiedDiff, StateRead, NothingRead

\* The last line of a kind is one of the lines.
LEMMA LastIsALine ==
    ASSUME NEW diff \in Seq(DiffLines), NEW kind
    PROVE  /\ LastOf(kind, diff) \in 0..Len(diff)
           /\ LastOf(kind, diff) # 0 => diff[LastOf(kind, diff)].kind = kind
           /\ \A i \in 1..Len(diff) : diff[i].kind = kind => i <= LastOf(kind, diff)
<1> DEFINE n == Len(diff)
           S == {0} \union {i \in DOMAIN diff : diff[i].kind = kind}
<1>1. n \in Nat /\ DOMAIN diff = 1..n
    BY LenProperties
<1>2. S \subseteq 0..n /\ S # {}
    BY <1>1
<1>3. IsFiniteSet(S)
    <2>1. IsFiniteSet(0..n)
        BY <1>1, FS_Interval
    <2> HIDE DEF S, n
    <2> QED BY <2>1, <1>2, FS_Subset
<1>4. S \subseteq Int
    BY <1>1, <1>2
<1>5. Max(S) \in S /\ \A x \in S : x <= Max(S)
    <2> HIDE DEF S
    <2> QED BY <1>2, <1>3, <1>4, GreatestOfFinite
<1>6. LastOf(kind, diff) = Max(S)
    BY DEF LastOf
<1> HIDE DEF n
<1>7. LastOf(kind, diff) \in 0..n
    BY <1>2, <1>5, <1>6
<1>8. \A i \in 1..n : diff[i].kind = kind => i \in S
    BY <1>1
<1>9. \A i \in 1..n : diff[i].kind = kind => i <= LastOf(kind, diff)
    BY <1>5, <1>6, <1>8
<1> QED BY <1>5, <1>6, <1>7, <1>9 DEF n

\* A line more is the last of its kind.
LEMMA LastOfOneMore ==
    ASSUME NEW diff \in Seq(DiffLines), NEW x \in DiffLines, NEW kind
    PROVE  LastOf(kind, Append(diff, x)) = IF x.kind = kind THEN Len(diff) + 1 ELSE LastOf(kind, diff)
<1> DEFINE t == Append(diff, x)
           n == Len(diff)
<1>1. /\ n \in Nat /\ t \in Seq(DiffLines) /\ Len(t) = n + 1
      /\ \A i \in 1..n : t[i] = diff[i]
      /\ t[n + 1] = x
    BY AppendProperties, LenProperties
<1> HIDE DEF t
<1>2. /\ LastOf(kind, t) \in 0..(n + 1)
      /\ LastOf(kind, t) # 0 => t[LastOf(kind, t)].kind = kind
      /\ \A i \in 1..(n + 1) : t[i].kind = kind => i <= LastOf(kind, t)
    BY <1>1, LastIsALine
<1>3. /\ LastOf(kind, diff) \in 0..n
      /\ LastOf(kind, diff) # 0 => diff[LastOf(kind, diff)].kind = kind
      /\ \A i \in 1..n : diff[i].kind = kind => i <= LastOf(kind, diff)
    BY LastIsALine
<1> DEFINE a == LastOf(kind, t)
           b == LastOf(kind, diff)
<1> HIDE DEF n
<1>4. CASE x.kind = kind
    <2>1. n + 1 <= a
        BY <1>1, <1>2, <1>4
    <2> QED BY <2>1, <1>1, <1>2, <1>4 DEF n, t
<1>5. CASE x.kind # kind
    <2>1. a # n + 1
        BY <1>1, <1>2, <1>5
    <2> HIDE DEF a, b
    <2>2. a \in Int /\ b \in Int /\ a <= n /\ 0 <= a /\ b <= n /\ 0 <= b
        BY <2>1, <1>1, <1>2, <1>3 DEF a, b
    <2>3. a # 0 => a \in 1..n /\ a \in 1..(n + 1)
        BY <2>2, <1>1
    <2>4. b # 0 => b \in 1..n /\ b \in 1..(n + 1)
        BY <2>2, <1>1
    <2>5. a <= b
        BY <2>2, <2>3, <1>1, <1>2, <1>3 DEF a, b
    <2>6. b <= a
        BY <2>2, <2>4, <1>1, <1>2, <1>3 DEF a, b
    <2>7. a = b
        BY <2>2, <2>5, <2>6
    <2> QED BY <2>7, <1>5 DEF a, b, t
<1> QED BY <1>4, <1>5

\* A header names the file, any other line leaves it.
LEMMA FileOfOneMore ==
    ASSUME NEW diff \in Seq(DiffLines), NEW x \in DiffLines
    PROVE  /\ x.kind = "header" => FileOf(Append(diff, x)) = x.path
           /\ x.kind # "header" /\ LastOf("header", diff) # 0 => FileOf(Append(diff, x)) = FileOf(diff)
           /\ LastOf("header", diff) # 0 => FileOf(diff) \in WorkerSources \union {NoPath}
<1> DEFINE h == LastOf("header", diff)
           n == Len(diff)
<1>1. n \in Nat /\ h \in 0..n /\ Append(diff, x)[n + 1] = x
      /\ \A i \in 1..n : Append(diff, x)[i] = diff[i]
    BY LastIsALine, AppendProperties, LenProperties
<1>2. LastOf("header", Append(diff, x)) = IF x.kind = "header" THEN n + 1 ELSE h
    BY LastOfOneMore
<1>3. ASSUME h # 0 PROVE FileOf(diff) \in WorkerSources \union {NoPath}
    <2>1. h \in 1..n
        BY <1>1, <1>3
    <2>2. diff[h] \in DiffLines
        BY <2>1, ElementOfSeq
    <2> QED BY <2>2 DEF FileOf, DiffLines
<1>4. h # 0 => h \in 1..n
    BY <1>1
<1>5. x.kind # "header" /\ h # 0 => FileOf(Append(diff, x)) = FileOf(diff)
    BY <1>1, <1>2, <1>4 DEF FileOf
<1>6. x.kind = "header" => FileOf(Append(diff, x)) = x.path
    BY <1>1, <1>2 DEF FileOf
<1> QED BY <1>3, <1>5, <1>6

\* A hunk says the number; an added line and one of the context count on.
LEMMA NextNumberOneMore ==
    ASSUME NEW diff \in Seq(DiffLines), NEW x \in DiffLines
    PROVE  /\ x.kind = "hunk" => NextNumber(Append(diff, x)) = x.at
           /\ x.kind # "hunk" /\ LastOf("hunk", diff) # 0 =>
                NextNumber(Append(diff, x)) =
                    NextNumber(diff) + (IF x.kind \in {"add", "context"} THEN 1 ELSE 0)
           /\ LastOf("hunk", diff) # 0 => NextNumber(diff) \in Nat
<1> DEFINE h == LastOf("hunk", diff)
           n == Len(diff)
           t == Append(diff, x)
           C == {i \in (h + 1)..n : diff[i].kind \in {"add", "context"}}
<1>1. /\ n \in Nat /\ h \in 0..n /\ t[n + 1] = x /\ Len(t) = n + 1
      /\ \A i \in 1..n : t[i] = diff[i]
    BY LastIsALine, AppendProperties, LenProperties
<1>2. LastOf("hunk", t) = IF x.kind = "hunk" THEN n + 1 ELSE h
    BY LastOfOneMore
<1>0. NextNumber(diff) = diff[h].at + Cardinality(C)
    BY DEF NextNumber
<1> HIDE DEF h, n, t
<1>3. IsFiniteSet(C) /\ Cardinality(C) \in Nat /\ n + 1 \notin C
    <2>1. IsFiniteSet((h + 1)..n)
        BY <1>1, FS_Interval
    <2>2. C \subseteq (h + 1)..n
        OBVIOUS
    <2>3. n + 1 \notin C
        BY <1>1
    <2> HIDE DEF C
    <2> QED BY <2>1, <2>2, <2>3, FS_Subset, FS_CardinalityType
<1>4. ASSUME h # 0 PROVE diff[h].at \in Nat /\ h \in 1..n
    <2>1. h \in 1..n
        BY <1>1, <1>4
    <2>2. diff[h] \in DiffLines
        BY <2>1, ElementOfSeq DEF n
    <2> QED BY <2>1, <2>2 DEF DiffLines
<1>5. h # 0 => NextNumber(diff) \in Nat
    <2> HIDE DEF C
    <2> QED BY <1>0, <1>3, <1>4
<1>6. ASSUME x.kind = "hunk" PROVE NextNumber(t) = x.at
    <2>1. NextNumber(t) = t[n + 1].at + Cardinality({i \in ((n + 1) + 1)..(n + 1) : t[i].kind \in {"add", "context"}})
        BY <1>1, <1>2, <1>6 DEF NextNumber
    <2>2. ((n + 1) + 1)..(n + 1) = {}
        BY <1>1
    <2>3. {i \in ((n + 1) + 1)..(n + 1) : t[i].kind \in {"add", "context"}} = {}
        BY <2>2
    <2>4. Cardinality({}) = 0
        BY FS_EmptySet
    <2>5. x.at \in Nat
        BY DEF DiffLines
    <2>6. NextNumber(t) = t[n + 1].at + 0
        BY <2>1, <2>3, <2>4
    <2> QED BY <2>5, <2>6, <1>1
<1>7. ASSUME x.kind # "hunk", h # 0
      PROVE  NextNumber(t) = NextNumber(diff) + (IF x.kind \in {"add", "context"} THEN 1 ELSE 0)
    <2> DEFINE D == {i \in (h + 1)..(n + 1) : t[i].kind \in {"add", "context"}}
    <2>1. NextNumber(t) = t[h].at + Cardinality(D)
        BY <1>1, <1>2, <1>7 DEF NextNumber
    <2>2. t[h] = diff[h]
        BY <1>1, <1>4, <1>7
    <2>3. D = IF x.kind \in {"add", "context"} THEN C \union {n + 1} ELSE C
        <3>1. \A i \in (h + 1)..(n + 1) : i = n + 1 \/ (i \in (h + 1)..n /\ i \in 1..n)
            BY <1>1
        <3>2. \A i \in (h + 1)..n : i \in (h + 1)..(n + 1) /\ i \in 1..n
            BY <1>1
        <3>3. n + 1 \in (h + 1)..(n + 1)
            BY <1>1
        <3>4. \A i : i \in D <=> i \in C \/ (i = n + 1 /\ x.kind \in {"add", "context"})
            BY <3>1, <3>2, <3>3, <1>1
        <3> HIDE DEF C, D
        <3>5. CASE x.kind \in {"add", "context"}
            BY <3>4, <3>5
        <3>6. CASE ~ (x.kind \in {"add", "context"})
            BY <3>4, <3>6
        <3> QED BY <3>5, <3>6
    <2> HIDE DEF C, D
    <2>4. Cardinality(D) = Cardinality(C) + (IF x.kind \in {"add", "context"} THEN 1 ELSE 0)
        <3>1. Cardinality(C \union {n + 1}) = Cardinality(C) + 1
            BY <1>3, FS_AddElement
        <3> QED BY <2>3, <3>1, <1>3
    <2>5. diff[h].at \in Nat
        BY <1>4, <1>7
    <2> QED BY <2>1, <2>2, <2>4, <2>5, <1>0, <1>3
<1> QED BY <1>5, <1>6, <1>7 DEF h, t

\* One line more leaves the beginnings as they are.
LEMMA Beginnings ==
    ASSUME NEW diff \in Seq(DiffLines), NEW x \in DiffLines
    PROVE  /\ \A i \in 0..Len(diff) : SubSeq(Append(diff, x), 1, i) = SubSeq(diff, 1, i)
           /\ SubSeq(diff, 1, Len(diff)) = diff
           /\ SubSeq(Append(diff, x), 1, Len(diff) + 1) = Append(diff, x)
<1> DEFINE t == Append(diff, x)
           n == Len(diff)
<1>1. /\ n \in Nat /\ t \in Seq(DiffLines) /\ Len(t) = n + 1
      /\ \A i \in 1..n : t[i] = diff[i]
      /\ \A i \in 1..n : diff[i] \in DiffLines
    BY AppendProperties, LenProperties, ElementOfSeq
<1>2. SubSeq(diff, 1, n) = diff /\ SubSeq(t, 1, n + 1) = t
    <2>1. SubSeq(t, 1, Len(t)) = t /\ SubSeq(diff, 1, Len(diff)) = diff
        BY <1>1, SubSeqFull
    <2> HIDE DEF t
    <2> QED BY <1>1, <2>1
<1> HIDE DEF t, n
<1>3. ASSUME NEW i \in 0..n
      PROVE  SubSeq(t, 1, i) = SubSeq(diff, 1, i)
    <2>1. i \in Int /\ 1 \in Int /\ \A j \in 1..i : j \in 1..n
        BY <1>1
    <2>2. \A j \in 1..i : t[j] \in DiffLines /\ diff[j] \in DiffLines /\ t[j] = diff[j]
        BY <1>1, <2>1
    <2>3. /\ SubSeq(t, 1, i) \in Seq(DiffLines)
          /\ Len(SubSeq(t, 1, i)) = IF 1 <= i THEN i - 1 + 1 ELSE 0
          /\ \A j \in 1..(i - 1 + 1) : SubSeq(t, 1, i)[j] = t[1 + j - 1]
        BY <2>1, <2>2, SubSeqProperties
    <2>4. /\ SubSeq(diff, 1, i) \in Seq(DiffLines)
          /\ Len(SubSeq(diff, 1, i)) = IF 1 <= i THEN i - 1 + 1 ELSE 0
          /\ \A j \in 1..(i - 1 + 1) : SubSeq(diff, 1, i)[j] = diff[1 + j - 1]
        BY <2>1, <2>2, SubSeqProperties
    <2>5. i \in Nat
        BY <1>1
    <2>6. Len(SubSeq(t, 1, i)) = i /\ Len(SubSeq(diff, 1, i)) = i
        BY <2>3, <2>4, <2>5
    <2>7. \A j \in 1..i : j \in 1..(i - 1 + 1) /\ 1 + j - 1 = j
        BY <2>5
    <2>8. \A j \in 1..i : SubSeq(t, 1, i)[j] = SubSeq(diff, 1, i)[j]
        BY <2>2, <2>3, <2>4, <2>7
    <2> QED BY <2>3, <2>4, <2>6, <2>8, SeqEqual
<1> QED BY <1>2, <1>3 DEF t, n

\* One more line adds at most itself.
LEMMA AddedOneMore ==
    ASSUME NEW diff \in Seq(DiffLines), NEW x \in DiffLines, NEW f \in WorkerSources
    PROVE  AddedLines(Append(diff, x))[f] =
              AddedLines(diff)[f] \union
                (IF x.kind = "add" /\ FileOf(Append(diff, x)) = f THEN {NextNumber(diff)} ELSE {})
<1> DEFINE t == Append(diff, x)
           n == Len(diff)
           N(s, i) == NextNumber(SubSeq(s, 1, i - 1))
           Adds(s, i) == s[i].kind = "add" /\ FileOf(SubSeq(s, 1, i)) = f
<1>1. /\ n \in Nat /\ t \in Seq(DiffLines) /\ Len(t) = n + 1
      /\ \A i \in 1..n : t[i] = diff[i]
      /\ t[n + 1] = x
    BY AppendProperties, LenProperties
<1>2. /\ \A i \in 0..n : SubSeq(t, 1, i) = SubSeq(diff, 1, i)
      /\ SubSeq(diff, 1, n) = diff /\ SubSeq(t, 1, n + 1) = t
    BY Beginnings
<1>3. DOMAIN t = 1..(n + 1) /\ DOMAIN diff = 1..n
    BY <1>1, LenProperties
<1>4. /\ AddedLines(t)[f] = {N(t, i) : i \in {k \in 1..(n + 1) : Adds(t, k)}}
      /\ AddedLines(diff)[f] = {N(diff, i) : i \in {k \in 1..n : Adds(diff, k)}}
    BY <1>3 DEF AddedLines
<1> HIDE DEF t, n
<1>5. \A i \in 1..n : i \in 0..n /\ i - 1 \in 0..n /\ i \in 1..(n + 1)
    BY <1>1
<1>6. \A i \in 1..n : N(t, i) = N(diff, i) /\ (Adds(t, i) <=> Adds(diff, i))
    BY <1>1, <1>2, <1>5
<1>7. (n + 1) - 1 = n /\ n + 1 \in 1..(n + 1) /\ n \in 0..n
    BY <1>1
<1>8. N(t, n + 1) = NextNumber(diff) /\ (Adds(t, n + 1) <=> x.kind = "add" /\ FileOf(t) = f)
    BY <1>1, <1>2, <1>7
<1>9. \A i \in 1..(n + 1) : i = n + 1 \/ i \in 1..n
    BY <1>1
<1> HIDE DEF N, Adds
<1>10. \A l : /\ l \in AddedLines(t)[f] <=> \E i \in 1..(n + 1) : Adds(t, i) /\ l = N(t, i)
              /\ l \in AddedLines(diff)[f] <=> \E i \in 1..n : Adds(diff, i) /\ l = N(diff, i)
    BY <1>4
<1>11. \A l : l \in AddedLines(t)[f] <=>
                \/ l \in AddedLines(diff)[f]
                \/ x.kind = "add" /\ FileOf(t) = f /\ l = NextNumber(diff)
    BY <1>5, <1>6, <1>7, <1>8, <1>9, <1>10
<1> QED BY <1>11 DEF t

\* One more line misleads if it reads like a header in a file that is no source.
LEMMA MisleadingOneMore ==
    ASSUME NEW diff \in Seq(DiffLines), NEW x \in DiffLines
    PROVE  Misleading(Append(diff, x)) <=>
              \/ Misleading(diff)
              \/ x.kind = "add" /\ x.path # NoPath /\ FileOf(Append(diff, x)) = NoPath
<1> DEFINE t == Append(diff, x)
           n == Len(diff)
           Is(s, i) == s[i].kind = "add" /\ s[i].path # NoPath /\ FileOf(SubSeq(s, 1, i)) = NoPath
<1>1. /\ n \in Nat /\ t \in Seq(DiffLines) /\ Len(t) = n + 1
      /\ \A i \in 1..n : t[i] = diff[i]
      /\ t[n + 1] = x
    BY AppendProperties, LenProperties
<1>2. /\ \A i \in 0..n : SubSeq(t, 1, i) = SubSeq(diff, 1, i)
      /\ SubSeq(diff, 1, n) = diff /\ SubSeq(t, 1, n + 1) = t
    BY Beginnings
<1>3. DOMAIN t = 1..(n + 1) /\ DOMAIN diff = 1..n
    BY <1>1, LenProperties
<1>4. /\ Misleading(t) <=> \E i \in 1..(n + 1) : Is(t, i)
      /\ Misleading(diff) <=> \E i \in 1..n : Is(diff, i)
    BY <1>3 DEF Misleading
<1> HIDE DEF t, n
<1>5. \A i \in 1..n : i \in 0..n /\ i \in 1..(n + 1)
    BY <1>1
<1>6. \A i \in 1..n : Is(t, i) <=> Is(diff, i)
    BY <1>1, <1>2, <1>5
<1>7. n + 1 \in 1..(n + 1)
    BY <1>1
<1>8. Is(t, n + 1) <=> x.kind = "add" /\ x.path # NoPath /\ FileOf(t) = NoPath
    BY <1>1, <1>2
<1>9. \A i \in 1..(n + 1) : i = n + 1 \/ i \in 1..n
    BY <1>1
<1> HIDE DEF Is
<1>10. Misleading(t) <=>
              \/ Misleading(diff)
              \/ x.kind = "add" /\ x.path # NoPath /\ FileOf(t) = NoPath
    BY <1>4, <1>5, <1>6, <1>7, <1>8, <1>9
<1> QED BY <1>10 DEF t

\* The reader of the diff is where the diff is, unless a line misled it.
InStep(r, diff) ==
    /\ r.inHunk => InHunk(diff) /\ r.path # NoPath /\ r.at = NextNumber(diff)
    /\ FileOf(diff) # NoPath /\ InHunk(diff) => r.inHunk
    /\ r.path # FileOf(diff) => FileOf(diff) = NoPath /\ Misleading(diff)

NumbersRead(r) ==
    \A f \in WorkerSources : IsFiniteSet(r.changed[f]) /\ 0 \notin r.changed[f]

RightlyRead(diff) ==
    LET r == StateRead(diff) IN
    /\ diff \in Seq(DiffLines) /\ r \in ReadStates
    /\ LastOf("header", diff) # 0
    /\ InHunk(diff) => LastOf("hunk", diff) # 0 /\ NextNumber(diff) # 0
    /\ NumbersRead(r)
    /\ FoundChanges(r.changed, diff)
    /\ InStep(r, diff)

\* A line that is added or not stays read when others follow.
LEMMA FoundStays ==
    ASSUME NEW diff \in Seq(DiffLines), NEW x \in DiffLines, NEW read,
           FoundChanges(read, diff), x.kind # "add"
    PROVE  /\ FoundChanges(read, Append(diff, x))
           /\ Misleading(Append(diff, x)) <=> Misleading(diff)
<1>1. \A f \in WorkerSources : AddedLines(Append(diff, x))[f] = AddedLines(diff)[f]
    <2> SUFFICES ASSUME NEW f \in WorkerSources
                 PROVE  AddedLines(Append(diff, x))[f] = AddedLines(diff)[f]
        OBVIOUS
    <2>1. AddedLines(Append(diff, x))[f] = AddedLines(diff)[f] \union {}
        BY AddedOneMore
    <2> QED BY <2>1
<1>2. Misleading(Append(diff, x)) <=> Misleading(diff)
    BY MisleadingOneMore
<1> QED BY <1>1, <1>2 DEF FoundChanges

\* Where a new line of the diff is.
LEMMA WhereOneMore ==
    ASSUME NEW diff \in Seq(DiffLines), NEW x \in DiffLines, LastOf("header", diff) # 0
    PROVE  /\ Append(diff, x) \in Seq(DiffLines)
           /\ LastOf("header", Append(diff, x)) # 0
           /\ x.kind = "hunk" => InHunk(Append(diff, x)) /\ LastOf("hunk", Append(diff, x)) # 0
           /\ x.kind \notin {"hunk", "git"} =>
                /\ InHunk(Append(diff, x)) <=> InHunk(diff)
                /\ LastOf("hunk", Append(diff, x)) = LastOf("hunk", diff)
           /\ x.kind = "git" => ~InHunk(Append(diff, x))
<1>1. Append(diff, x) \in Seq(DiffLines) /\ Len(diff) \in Nat
    BY AppendProperties, LenProperties
<1>2. \A kind : LastOf(kind, diff) \in 0..Len(diff)
    BY LastIsALine
<1>3. \A kind : LastOf(kind, Append(diff, x)) = IF x.kind = kind THEN Len(diff) + 1 ELSE LastOf(kind, diff)
    BY LastOfOneMore
<1>4. /\ LastOf("hunk", diff) \in Nat /\ LastOf("git", diff) \in Nat /\ LastOf("header", diff) \in Nat
      /\ LastOf("hunk", diff) <= Len(diff) /\ LastOf("git", diff) <= Len(diff)
    BY <1>1, <1>2
<1> QED BY <1>1, <1>3, <1>4 DEF InHunk

\* A line of a hunk that adds nothing.
LEMMA OtherLineRead ==
    ASSUME NEW diff, RightlyRead(diff), InHunk(diff),
           NEW x \in DiffLines, x.kind \in {"del", "context", "note"}
    PROVE  RightlyRead(Append(diff, x))
<1> DEFINE t == Append(diff, x)
           r == StateRead(diff)
           u == readLine(r, x)
<1>1. /\ diff \in Seq(DiffLines) /\ r \in ReadStates /\ LastOf("header", diff) # 0
      /\ LastOf("hunk", diff) # 0 /\ NextNumber(diff) # 0
      /\ NumbersRead(r) /\ FoundChanges(r.changed, diff) /\ InStep(r, diff)
    BY DEF RightlyRead
<1>2. StateRead(t) = u /\ u \in ReadStates
    BY <1>1, ReadOneMore, ReadLineIsTyped
<1>3. x.kind \notin {"hunk", "git", "header", "add"}
    OBVIOUS
<1>4. u = IF r.inHunk /\ x.kind = "context" THEN [r EXCEPT !.at = @ + 1] ELSE r
    <2>1. ~ReadsAsHeader(x) /\ ~ReadsAsAdded(x)
        BY <1>3 DEF ReadsAsHeader, ReadsAsAdded
    <2> QED BY <2>1, <1>3 DEF readLine
<1>5. /\ u.changed = r.changed /\ u.path = r.path /\ u.inHunk = r.inHunk
      /\ u.at = IF r.inHunk /\ x.kind = "context" THEN r.at + 1 ELSE r.at
    BY <1>1, <1>4 DEF ReadStates
<1>6. /\ t \in Seq(DiffLines) /\ LastOf("header", t) # 0
      /\ InHunk(t) /\ LastOf("hunk", t) # 0
    BY <1>1, <1>3, WhereOneMore
<1>7. /\ NextNumber(t) = NextNumber(diff) + (IF x.kind = "context" THEN 1 ELSE 0)
      /\ NextNumber(diff) \in Nat
    <2>1. x.kind \in {"add", "context"} <=> x.kind = "context"
        BY <1>3
    <2> QED BY <2>1, <1>1, <1>3, NextNumberOneMore
<1>8. FileOf(t) = FileOf(diff)
    BY <1>1, <1>3, FileOfOneMore
<1>9. FoundChanges(u.changed, t) /\ (Misleading(t) <=> Misleading(diff))
    BY <1>1, <1>3, <1>5, FoundStays
<1> HIDE DEF t, r, u
<1>10. NumbersRead(u)
    BY <1>1, <1>5 DEF NumbersRead
<1>11. InStep(u, t)
    BY <1>1, <1>5, <1>6, <1>7, <1>8, <1>9 DEF InStep
<1>12. NextNumber(t) # 0
    BY <1>1, <1>7
<1>13. RightlyRead(t)
    BY <1>2, <1>6, <1>9, <1>10, <1>11, <1>12 DEF RightlyRead
<1> QED BY <1>13 DEF t

\* A line that is added, whatever it reads like.
LEMMA AddedLineRead ==
    ASSUME NEW diff, RightlyRead(diff), InHunk(diff),
           NEW x \in DiffLines, x.kind = "add"
    PROVE  RightlyRead(Append(diff, x))
<1> DEFINE t == Append(diff, x)
           r == StateRead(diff)
           u == readLine(r, x)
           next == NextNumber(diff)
<1>1. /\ diff \in Seq(DiffLines) /\ r \in ReadStates /\ LastOf("header", diff) # 0
      /\ LastOf("hunk", diff) # 0 /\ next # 0
      /\ NumbersRead(r) /\ FoundChanges(r.changed, diff) /\ InStep(r, diff)
    BY DEF RightlyRead
<1>2. StateRead(t) = u /\ u \in ReadStates
    BY <1>1, ReadOneMore, ReadLineIsTyped
<1>3. /\ r.changed \in [WorkerSources -> SUBSET Nat] /\ r.path \in WorkerSources \union {NoPath}
      /\ r.at \in Nat /\ r.inHunk \in BOOLEAN
      /\ x.path \in WorkerSources \union {NoPath}
    BY <1>1 DEF ReadStates, DiffLines
<1>4. /\ t \in Seq(DiffLines) /\ LastOf("header", t) # 0
      /\ InHunk(t) /\ LastOf("hunk", t) # 0
    BY <1>1, WhereOneMore
<1>5. NextNumber(t) = next + 1 /\ next \in Nat
    BY <1>1, NextNumberOneMore
<1>6. FileOf(t) = FileOf(diff)
    BY <1>1, FileOfOneMore
<1>7. /\ \A f \in WorkerSources : AddedLines(t)[f] =
              AddedLines(diff)[f] \union (IF FileOf(diff) = f THEN {next} ELSE {})
      /\ Misleading(t) <=> Misleading(diff) \/ (x.path # NoPath /\ FileOf(diff) = NoPath)
    BY <1>1, <1>6, AddedOneMore, MisleadingOneMore
<1>8. CASE r.inHunk
    <2>1. u = addLine(r)
        BY <1>8 DEF readLine, ReadsAsAdded
    <2>2. /\ u.changed = [r.changed EXCEPT ![r.path] = @ \union {r.at}]
          /\ u.path = r.path /\ u.inHunk = r.inHunk /\ u.at = r.at + 1
        BY <1>1, <2>1 DEF addLine, ReadStates
    <2>3. /\ r.path # NoPath /\ r.at = next
          /\ r.path # FileOf(diff) => FileOf(diff) = NoPath /\ Misleading(diff)
        BY <1>1, <1>8 DEF InStep
    <2>4. r.path \in WorkerSources
        BY <1>3, <2>3
    <2> HIDE DEF t, r, u, next
    <2>5. \A f \in WorkerSources :
             u.changed[f] = IF f = r.path THEN r.changed[f] \union {next} ELSE r.changed[f]
        BY <1>3, <2>2, <2>3, <2>4
    <2>6. NumbersRead(u)
        <3> SUFFICES ASSUME NEW f \in WorkerSources
                     PROVE  IsFiniteSet(u.changed[f]) /\ 0 \notin u.changed[f]
            BY DEF NumbersRead
        <3>1. IsFiniteSet(r.changed[f]) /\ 0 \notin r.changed[f]
            BY <1>1 DEF NumbersRead
        <3>2. IsFiniteSet(r.changed[f] \union {next})
            BY <3>1, FS_AddElement
        <3> QED BY <1>1, <2>5, <3>1, <3>2
    <2>7. FoundChanges(u.changed, t)
        <3> SUFFICES ASSUME NEW f \in WorkerSources
                     PROVE  /\ AddedLines(t)[f] \subseteq u.changed[f]
                            /\ u.changed[f] # AddedLines(t)[f] => Misleading(t)
            BY DEF FoundChanges
        <3>1. AddedLines(diff)[f] \subseteq r.changed[f] /\ (r.changed[f] # AddedLines(diff)[f] => Misleading(diff))
            BY <1>1 DEF FoundChanges
        <3>2. CASE r.path = FileOf(diff)
            <4>1. Misleading(diff) => Misleading(t)
                BY <1>7
            <4>2. CASE f = r.path
                <5>1. /\ AddedLines(t)[f] = AddedLines(diff)[f] \union {next}
                      /\ u.changed[f] = r.changed[f] \union {next}
                    BY <3>2, <4>2, <1>7, <2>5
                <5> QED BY <3>1, <4>1, <5>1
            <4>3. CASE f # r.path
                <5>1. /\ AddedLines(t)[f] = AddedLines(diff)[f]
                      /\ u.changed[f] = r.changed[f]
                    <6>1. AddedLines(t)[f] = AddedLines(diff)[f] \union {}
                        BY <3>2, <4>3, <1>7
                    <6> QED BY <6>1, <4>3, <2>5
                <5> QED BY <3>1, <4>1, <5>1
            <4> QED BY <4>2, <4>3
        <3>3. CASE r.path # FileOf(diff)
            <4>1. FileOf(diff) = NoPath /\ Misleading(diff) /\ FileOf(diff) # f
                BY <3>3, <2>3, NoPathIsNoSource
            <4> QED BY <3>1, <4>1, <1>7, <2>5
        <3> QED BY <3>2, <3>3
    <2>8. InStep(u, t)
        BY <1>1, <1>4, <1>5, <1>6, <1>7, <1>8, <2>2, <2>3 DEF InStep
    <2>9. NextNumber(t) # 0
        BY <1>5
    <2>10. RightlyRead(t)
        BY <1>2, <1>4, <2>6, <2>7, <2>8, <2>9 DEF RightlyRead
    <2> QED BY <2>10 DEF t
<1>9. CASE ~r.inHunk
    <2>1. FileOf(diff) = NoPath
        BY <1>1, <1>9 DEF InStep
    <2>2. u = IF x.path # NoPath THEN [r EXCEPT !.path = workerPath(x.path)] ELSE r
        BY <1>9 DEF readLine, ReadsAsHeader, ReadsAsAdded
    <2>3. u.changed = r.changed /\ u.inHunk = FALSE /\ (x.path = NoPath => u.path = r.path)
        BY <1>1, <1>9, <2>2 DEF ReadStates
    <2> HIDE DEF t, r, u, next
    <2>4. NumbersRead(u)
        BY <1>1, <2>3 DEF NumbersRead
    <2>5. \A f \in WorkerSources : AddedLines(t)[f] = AddedLines(diff)[f]
        BY <1>7, <2>1, NoPathIsNoSource
    <2>6. FoundChanges(u.changed, t)
        BY <1>1, <1>7, <2>3, <2>5 DEF FoundChanges
    <2>7. InStep(u, t)
        <3>1. u.path # FileOf(t) => Misleading(t)
            BY <1>1, <1>6, <1>7, <2>1, <2>3 DEF InStep
        <3> QED BY <3>1, <1>6, <2>1, <2>3 DEF InStep
    <2>8. NextNumber(t) # 0
        BY <1>5
    <2>9. RightlyRead(t)
        BY <1>2, <1>4, <2>4, <2>6, <2>7, <2>8 DEF RightlyRead
    <2> QED BY <2>9 DEF t
<1>10. r.inHunk \/ ~r.inHunk
    OBVIOUS
<1> QED BY <1>8, <1>9, <1>10

\* A hunk begins.
LEMMA HunkRead ==
    ASSUME NEW diff, RightlyRead(diff),
           NEW x \in DiffLines, x.kind = "hunk", x.at # 0
    PROVE  RightlyRead(Append(diff, x))
<1> DEFINE t == Append(diff, x)
           r == StateRead(diff)
           u == readLine(r, x)
<1>1. /\ diff \in Seq(DiffLines) /\ r \in ReadStates /\ LastOf("header", diff) # 0
      /\ NumbersRead(r) /\ FoundChanges(r.changed, diff) /\ InStep(r, diff)
    BY DEF RightlyRead
<1>2. StateRead(t) = u /\ u \in ReadStates
    BY <1>1, ReadOneMore, ReadLineIsTyped
<1>3. u = [r EXCEPT !.at = x.at, !.inHunk = r.path # NoPath]
    BY DEF readLine, ReadsAsHeader, ReadsAsAdded
<1>4. /\ u.changed = r.changed /\ u.path = r.path /\ u.at = x.at
      /\ u.inHunk <=> r.path # NoPath
    BY <1>1, <1>3 DEF ReadStates
<1>5. /\ t \in Seq(DiffLines) /\ LastOf("header", t) # 0
      /\ InHunk(t) /\ LastOf("hunk", t) # 0
    BY <1>1, WhereOneMore
<1>6. NextNumber(t) = x.at
    BY <1>1, NextNumberOneMore
<1>7. FileOf(t) = FileOf(diff)
    BY <1>1, FileOfOneMore
<1>8. FoundChanges(u.changed, t) /\ (Misleading(t) <=> Misleading(diff))
    BY <1>1, <1>4, FoundStays
<1> HIDE DEF t, r, u
<1>9. NumbersRead(u)
    BY <1>1, <1>4 DEF NumbersRead
<1>10. InStep(u, t)
    BY <1>1, <1>4, <1>5, <1>6, <1>7, <1>8 DEF InStep
<1>11. RightlyRead(t)
    BY <1>2, <1>5, <1>6, <1>8, <1>9, <1>10 DEF RightlyRead
<1> QED BY <1>11 DEF t

\* The first lines of a file, after all of the others or none.
LEMMA HeaderRead ==
    ASSUME NEW diff, diff = <<>> \/ RightlyRead(diff),
           NEW g \in DiffLines, g.kind = "git", NEW x \in DiffLines, x.kind = "header"
    PROVE  RightlyRead(Append(Append(diff, g), x))
<1> DEFINE s == Append(diff, g)
           t == Append(s, x)
           r == StateRead(diff)
           u == readLine(r, g)
           v == readLine(u, x)
<1>1. diff \in Seq(DiffLines) /\ r \in ReadStates /\ NumbersRead(r) /\ FoundChanges(r.changed, diff)
    <2>1. CASE RightlyRead(diff)
        BY <2>1 DEF RightlyRead
    <2>2. CASE diff = <<>>
        <3>1. <<>> \in Seq(DiffLines) /\ DOMAIN <<>> = {}
            BY EmptySeq
        <3>2. r = NothingRead
            BY <2>2, NothingReadYet
        <3>3. r.changed = [f \in WorkerSources |-> {}] /\ r \in ReadStates
            BY <3>2 DEF NothingRead, ReadStates
        <3>4. IsFiniteSet({})
            BY FS_EmptySet
        <3>5. \A f \in WorkerSources : AddedLines(<<>>)[f] = {}
            BY <3>1 DEF AddedLines
        <3> HIDE DEF r
        <3> QED BY <2>2, <3>1, <3>3, <3>4, <3>5 DEF NumbersRead, FoundChanges
    <2> QED BY <2>1, <2>2
<1>2. /\ s \in Seq(DiffLines) /\ t \in Seq(DiffLines)
      /\ StateRead(s) = u /\ u \in ReadStates
      /\ StateRead(t) = v /\ v \in ReadStates
    <2>1. s \in Seq(DiffLines) /\ StateRead(s) = u /\ u \in ReadStates
        BY <1>1, AppendProperties, ReadOneMore, ReadLineIsTyped
    <2> HIDE DEF s, u
    <2> QED BY <2>1, AppendProperties, ReadOneMore, ReadLineIsTyped
<1>3. u = [r EXCEPT !.path = NoPath, !.inHunk = FALSE]
    BY DEF readLine, ReadsAsHeader, ReadsAsAdded
<1>4. u.changed = r.changed /\ u.inHunk = FALSE
    BY <1>1, <1>3 DEF ReadStates
<1>5. x.path \in WorkerSources \union {NoPath} /\ workerPath(x.path) = x.path
    BY DEF DiffLines, workerPath
<1>6. v = [u EXCEPT !.path = workerPath(x.path)]
    <2> HIDE DEF u
    <2> QED BY <1>4 DEF readLine, ReadsAsHeader
<1>7. v.changed = r.changed /\ v.inHunk = FALSE /\ v.path = x.path
    <2> HIDE DEF u
    <2> QED BY <1>2, <1>4, <1>5, <1>6 DEF ReadStates
<1>8. FoundChanges(v.changed, t)
    <2>1. FoundChanges(r.changed, s)
        BY <1>1, FoundStays
    <2> HIDE DEF s, r, u, v
    <2>2. FoundChanges(r.changed, t)
        BY <2>1, <1>2, FoundStays
    <2> QED BY <2>2, <1>7
<1>9. LastOf("header", t) # 0 /\ ~InHunk(t) /\ FileOf(t) = x.path
    <2>1. Len(s) = Len(diff) + 1 /\ Len(diff) \in Nat
        BY <1>1, AppendProperties, LenProperties
    <2>2. /\ LastOf("git", s) = Len(diff) + 1 /\ LastOf("hunk", s) = LastOf("hunk", diff)
          /\ LastOf("hunk", diff) \in 0..Len(diff)
        BY <1>1, LastOfOneMore, LastIsALine
    <2> HIDE DEF s
    <2>3. /\ LastOf("git", t) = LastOf("git", s) /\ LastOf("hunk", t) = LastOf("hunk", s)
          /\ LastOf("header", t) = Len(s) + 1
        BY <1>2, LastOfOneMore
    <2>4. FileOf(t) = x.path
        BY <1>2, FileOfOneMore
    <2> HIDE DEF t
    <2> QED BY <2>1, <2>2, <2>3, <2>4 DEF InHunk
<1> HIDE DEF s, t, r, u, v
<1>10. NumbersRead(v)
    BY <1>1, <1>7 DEF NumbersRead
<1>11. InStep(v, t)
    BY <1>7, <1>9 DEF InStep
<1>12. RightlyRead(t)
    BY <1>2, <1>8, <1>9, <1>10, <1>11 DEF RightlyRead
<1> QED BY <1>12 DEF s, t

-----------------------------------------------------------------------------
(***************************************************************************)
(* The lists a reader sees (ReadingLists): sets in the order of keys, cut  *)
(* and put one after another, and the recent clips.                        *)
(***************************************************************************)
\* A strict order by keys of integers.
ByKeys(S, key) == {p \in S \X S : Before(key[p[1]], key[p[2]])}

Keys(S, key, n) ==
    /\ n \in Nat /\ key \in [S -> [1..n -> Int]]
    /\ \A c, d \in S : key[c] = key[d] => c = d

\* A finite set by such keys is listed.
LEMMA KeysList ==
    ASSUME NEW S, IsFiniteSet(S), NEW key, NEW n, Keys(S, key, n)
    PROVE  /\ Lists(ByKey(S, key), S, ByKeys(S, key))
           /\ StrictOrder(S, ByKeys(S, key))
           /\ \A c, d \in S : <<c, d>> \in ByKeys(S, key) <=> Before(key[c], key[d])
<1> DEFINE R == ByKeys(S, key)
           q == ByKey(S, key)
<1>1. \A c, d \in S : <<c, d>> \in R <=> Before(key[c], key[d])
    BY DEF ByKeys
<1>2. /\ n \in Nat /\ \A c \in S : key[c] \in [1..n -> Int]
      /\ \A c, d \in S : c # d => key[c] # key[d]
    BY DEF Keys
<1>3. \A c, d, e \in S :
        /\ ~Before(key[c], key[c])
        /\ Before(key[c], key[d]) /\ Before(key[d], key[e]) => Before(key[c], key[e])
        /\ c # d => Before(key[c], key[d]) \/ Before(key[d], key[c])
    BY <1>2, BeforeIsStrict
<1> HIDE DEF R
<1>4. StrictOrder(S, R)
    BY <1>1, <1>3 DEF StrictOrder
<1>5. \A c \in S : {d \in S : Before(key[d], key[c])} = Under(S, R, c)
    BY <1>1 DEF Under
<1> DEFINE A(i) == CHOOSE c \in S : Cardinality({d \in S : Before(key[d], key[c])}) = i - 1
           B(i) == CHOOSE c \in S : Cardinality(Under(S, R, c)) = i - 1
<1>6. \A i : A(i) = B(i)
    <2> SUFFICES ASSUME NEW i PROVE A(i) = B(i)
        OBVIOUS
    <2>1. \A c : (c \in S /\ Cardinality({d \in S : Before(key[d], key[c])}) = i - 1)
                  <=> (c \in S /\ Cardinality(Under(S, R, c)) = i - 1)
        BY <1>5
    <2> QED BY <2>1
<1>7. q = [i \in 1..Cardinality(S) |-> A(i)]
    BY DEF ByKey, InOrder
<1>8. q = [i \in 1..Cardinality(S) |-> B(i)]
    <2> HIDE DEF A, B, q
    <2> QED BY <1>6, <1>7
<1> HIDE DEF q
<1>9. Lists(q, S, R)
    BY <1>4, <1>8, RankedLists
<1> QED BY <1>1, <1>4, <1>9 DEF q, R

\* What lists a set is a sequence of its elements, each once.
LEMMA ListsEach ==
    ASSUME NEW S, IsFiniteSet(S), NEW R, StrictOrder(S, R), NEW q, Lists(q, S, R)
    PROVE  /\ q \in Seq(S) /\ Len(q) = Cardinality(S) /\ DOMAIN q = 1..Cardinality(S)
           /\ Cardinality(S) \in Nat
           /\ ToSet(q) = S
           /\ \A i, j \in 1..Cardinality(S) : i # j => q[i] # q[j]
           /\ \A i, j \in 1..Cardinality(S) : <<q[i], q[j]>> \in R => i < j
<1> DEFINE n == Cardinality(S)
<1>1. n \in Nat
    BY FS_CardinalityType
<1>2. /\ q \in [1..n -> S] /\ \A c \in S : \E i \in 1..n : q[i] = c
      /\ \A i, j \in 1..n : i < j => <<q[i], q[j]>> \in R
    BY DEF Lists
<1> HIDE DEF n
<1>3. q \in Seq(S) /\ Len(q) = n /\ DOMAIN q = 1..n
    BY <1>1, <1>2
<1>4. ToSet(q) = S
    BY <1>2, <1>3 DEF ToSet
<1>5. \A a, b \in S : <<a, b>> \in R => a # b /\ <<b, a>> \notin R
    BY DEF StrictOrder
<1>6. ASSUME NEW i \in 1..n, NEW j \in 1..n, i # j PROVE q[i] # q[j]
    <2>1. i < j \/ j < i
        BY <1>1, <1>6
    <2> QED BY <2>1, <1>2, <1>5
<1>7. ASSUME NEW i \in 1..n, NEW j \in 1..n, <<q[i], q[j]>> \in R PROVE i < j
    <2>1. i < j \/ i = j \/ j < i
        BY <1>1
    <2> QED BY <2>1, <1>2, <1>5, <1>7
<1> QED BY <1>1, <1>3, <1>4, <1>6, <1>7 DEF n

\* A sequence that has every element of a set once is as long as the set.
LEMMA EachOnce ==
    ASSUME NEW S, IsFiniteSet(S), NEW q \in Seq(S),
           \A c \in S : \E i \in 1..Len(q) : q[i] = c,
           \A i, j \in 1..Len(q) : i < j => q[i] # q[j]
    PROVE  Len(q) = Cardinality(S) /\ ToSet(q) = S
<1>1. Len(q) \in Nat /\ q \in [1..Len(q) -> S] /\ DOMAIN q = 1..Len(q)
    BY LenProperties
<1>2. \A i, j \in 1..Len(q) : q[i] = q[j] => i = j
    <2> SUFFICES ASSUME NEW i \in 1..Len(q), NEW j \in 1..Len(q), i # j
                 PROVE  q[i] # q[j]
        OBVIOUS
    <2>1. i < j \/ j < i
        BY <1>1
    <2> QED BY <2>1
<1>3. q \in Surjection(1..Len(q), S) /\ q \in Injection(1..Len(q), S)
    BY <1>1, <1>2 DEF Injection, IsInjective, Surjection
<1>4. IsFiniteSet(1..Len(q)) /\ Cardinality(1..Len(q)) = Len(q)
    <2>1. IsFiniteSet(1..Len(q)) /\ Cardinality(1..Len(q)) = IF 1 > Len(q) THEN 0 ELSE Len(q) - 1 + 1
        BY <1>1, FS_Interval, SMTT(30)
    <2> QED BY <2>1, <1>1
<1>5. Cardinality(S) = Len(q)
    BY <1>3, <1>4, FS_Surjection
<1>6. ToSet(q) = S
    BY <1>1 DEF ToSet
<1> QED BY <1>5, <1>6

\* Of two keys in order, the first number of the first is no smaller.
LEMMA FirstKeyDecides ==
    ASSUME NEW n \in Nat \ {0}, NEW s \in [1..n -> Int], NEW t \in [1..n -> Int], Before(s, t)
    PROVE  s[1] >= t[1]
<1>1. PICK i \in 1..n : s[i] > t[i] /\ \A j \in 1..(i - 1) : s[j] = t[j]
    BY DEF Before
<1>2. CASE i = 1
    <2>1. s[1] \in Int /\ t[1] \in Int
        OBVIOUS
    <2> QED BY <1>1, <1>2, <2>1
<1>3. CASE i # 1
    <2>1. 1 \in 1..(i - 1)
        BY <1>3
    <2>2. s[1] \in Int /\ s[1] = t[1]
        BY <2>1, <1>1
    <2> QED BY <2>2
<1> QED BY <1>2, <1>3

\* The elements from one position to another.
Stretch(q, from, to) == {q[i] : i \in (from + 1)..to}

\* The elements in a row of a sequence that has each once.
LEMMA CutOfList ==
    ASSUME NEW S, NEW q \in Seq(S), \A i, j \in 1..Len(q) : i # j => q[i] # q[j],
           NEW from \in Nat, NEW to \in Nat, from <= to, to <= Len(q)
    PROVE  LET cut == SubSeq(q, from + 1, to)
           IN  /\ ToSet(cut) = Stretch(q, from, to)
               /\ IsFiniteSet(ToSet(cut)) /\ Cardinality(ToSet(cut)) = to - from
               /\ ToSet(cut) \subseteq S
<1> DEFINE cut == SubSeq(q, from + 1, to)
           n == to - from
<1>1. /\ Len(q) \in Nat /\ n \in Nat /\ from + 1 \in Int /\ to \in Int
      /\ \A i \in (from + 1)..to : i \in 1..Len(q)
    BY LenProperties
<1>2. \A i \in 1..Len(q) : q[i] \in S
    BY ElementOfSeq
<1>3. /\ cut \in Seq(S)
      /\ Len(cut) = IF from + 1 <= to THEN to - (from + 1) + 1 ELSE 0
      /\ \A i \in 1..(to - (from + 1) + 1) : cut[i] = q[(from + 1) + i - 1]
    BY <1>1, <1>2, SubSeqProperties
<1>4. to - (from + 1) + 1 = n /\ Len(cut) = n
    <2>1. to - (from + 1) + 1 = n
        OBVIOUS
    <2>2. from + 1 <= to \/ n = 0
        OBVIOUS
    <2> QED BY <1>3, <2>1, <2>2
<1>5. \A i \in 1..n : (from + 1) + i - 1 = from + i /\ from + i \in (from + 1)..to
    BY <1>1
<1>6. \A k \in (from + 1)..to : k - from \in 1..n /\ from + (k - from) = k
    BY <1>1
<1>7. cut \in Seq(S) /\ Len(cut) = n /\ \A i \in 1..n : cut[i] = q[from + i]
    BY <1>3, <1>4, <1>5
<1> HIDE DEF cut, n
<1>8. DOMAIN cut = 1..n
    BY <1>7, LenProperties
<1>9. ToSet(cut) = {cut[i] : i \in 1..n}
    BY <1>8 DEF ToSet
<1>10. ToSet(cut) = Stretch(q, from, to)
    BY <1>5, <1>6, <1>7, <1>9, SMTT(30) DEF Stretch
<1>11. IsFiniteSet(ToSet(cut))
    <2>1. IsFiniteSet(1..n)
        BY <1>1, FS_Interval
    <2>2. IsFiniteSet({cut[i] : i \in 1..n})
        BY <2>1, <1>8, FiniteValues
    <2> QED BY <2>2, <1>9
<1>12. ToSet(cut) \subseteq S
    BY <1>7, <1>8, <1>9, ElementOfSeq
<1>13. \A i \in 1..n : from + i \in 1..Len(q)
    BY <1>1, <1>5
<1>14. ASSUME NEW i \in 1..n, NEW j \in 1..n, i < j PROVE cut[i] # cut[j]
    <2>1. from + i \in 1..Len(q) /\ from + j \in 1..Len(q) /\ from + i # from + j
        BY <1>13, <1>14
    <2> QED BY <2>1, <1>7
<1>15. Cardinality(ToSet(cut)) = n
    <2>1. cut \in Seq(ToSet(cut))
        <3>1. \A i \in 1..n : cut[i] \in ToSet(cut)
            BY <1>9
        <3>2. cut \in [1..n -> ToSet(cut)]
            BY <3>1, <1>7, LenProperties
        <3> QED BY <3>2, <1>1
    <2>2. \A c \in ToSet(cut) : \E i \in 1..Len(cut) : cut[i] = c
        BY <1>7, <1>9
    <2>3. \A i, j \in 1..Len(cut) : i < j => cut[i] # cut[j]
        BY <1>7, <1>14
    <2>4. Len(cut) = Cardinality(ToSet(cut))
        BY <2>1, <2>2, <2>3, <1>11, EachOnce
    <2> QED BY <2>4, <1>7
<1> QED BY <1>10, <1>11, <1>12, <1>15 DEF cut, n

\* What is stored of some kind, in finite number, each with an id of its own.
Some(S, Samples) ==
    /\ IsFiniteSet(S) /\ S \subseteq Samples
    /\ \A c, d \in S : c.id = d.id => c = d

\* The clips that are listed as the last are the last.
LEMMA RecentClips ==
    ASSUME NEW jobs, Some(jobs, SampleJobs)
    PROVE  LET recent == listRecentJobs(jobs, RecentLimit)
               readableJobs == {j \in jobs : j.parses}
           IN  /\ ToSet(recent) \subseteq readableJobs
               /\ Len(recent) = recentClipLimit(RecentLimit) \/ ToSet(recent) = readableJobs
               /\ \A j \in readableJobs \ ToSet(recent), i \in DOMAIN recent :
                     j.updated <= recent[i].updated
<1> DEFINE J == {j \in jobs : j.parses}
           stampOf == [j \in J |-> <<j.stamp, -j.id>>]
           parsed == ByKey(J, stampOf)
           limit == recentClipLimit(RecentLimit)
           n == IF limit > Len(parsed) THEN Len(parsed) ELSE limit
           T == ToSet(SubSeq(parsed, 1, n))
           updateOf == [j \in T |-> <<j.updated, -j.id>>]
           recent == ByKey(T, updateOf)
<1>1. listRecentJobs(jobs, RecentLimit) = recent
    BY DEF listRecentJobs, Sorted
<1>2. /\ IsFiniteSet(J) /\ J \subseteq SampleJobs
      /\ \A c, d \in J : c.id = d.id => c = d
    BY FS_Subset DEF Some
<1>3. limit \in Nat
    BY ListConstants DEF recentClipLimit
<1>4. \A j \in J : j.id \in Int /\ j.stamp \in Int /\ j.updated \in Int /\ -j.id \in Int
    BY <1>2, ListsAssumption DEF StoredOK
<1>5. Keys(J, stampOf, 2)
    <2>1. \A j \in J : <<j.stamp, -j.id>> \in [1..2 -> Int] /\ <<j.stamp, -j.id>>[2] = -j.id
        BY <1>4
    <2>2. \A c, d \in J : -c.id = -d.id => c = d
        BY <1>2, <1>4
    <2> HIDE DEF J
    <2> QED BY <2>1, <2>2 DEF Keys
<1> HIDE DEF J, stampOf, limit
<1>6. /\ Lists(parsed, J, ByKeys(J, stampOf)) /\ StrictOrder(J, ByKeys(J, stampOf))
      /\ \A c, d \in J : <<c, d>> \in ByKeys(J, stampOf) <=> Before(stampOf[c], stampOf[d])
    BY <1>2, <1>5, KeysList
<1> HIDE DEF parsed
<1>7. /\ parsed \in Seq(J) /\ Len(parsed) = Cardinality(J) /\ Cardinality(J) \in Nat
      /\ ToSet(parsed) = J /\ DOMAIN parsed = 1..Cardinality(J)
      /\ \A i, j \in 1..Cardinality(J) : i # j => parsed[i] # parsed[j]
    BY <1>2, <1>6, ListsEach
<1>8. n \in Nat /\ n <= Len(parsed)
    BY <1>3, <1>7
<1>9. /\ T = {parsed[i] : i \in 1..n}
      /\ IsFiniteSet(T) /\ Cardinality(T) = n /\ T \subseteq J
    <2> HIDE DEF n
    <2>1. 0 \in Nat /\ 0 <= n /\ 0 + 1 = 1 /\ n - 0 = n
        BY <1>8
    <2>2. \A i, j \in 1..Len(parsed) : i # j => parsed[i] # parsed[j]
        BY <1>7
    <2>3. /\ ToSet(SubSeq(parsed, 0 + 1, n)) = Stretch(parsed, 0, n)
          /\ IsFiniteSet(ToSet(SubSeq(parsed, 0 + 1, n)))
          /\ Cardinality(ToSet(SubSeq(parsed, 0 + 1, n))) = n - 0
          /\ ToSet(SubSeq(parsed, 0 + 1, n)) \subseteq J
        <3> HIDE DEF T
        <3> QED BY <2>1, <2>2, <1>7, <1>8, CutOfList
    <2> QED BY <2>1, <2>3 DEF Stretch
<1>10. Keys(T, updateOf, 2)
    <2>1. \A j \in T : <<j.updated, -j.id>> \in [1..2 -> Int] /\ <<j.updated, -j.id>>[2] = -j.id
        BY <1>4, <1>9
    <2>2. \A c, d \in T : -c.id = -d.id => c = d
        BY <1>2, <1>4, <1>9
    <2> HIDE DEF T
    <2> QED BY <2>1, <2>2 DEF Keys
<1> HIDE DEF T, updateOf
<1>11. /\ ToSet(recent) = T /\ Len(recent) = n
       /\ recent \in Seq(T) /\ DOMAIN recent = 1..n
    <2>1. Lists(recent, T, ByKeys(T, updateOf)) /\ StrictOrder(T, ByKeys(T, updateOf))
        BY <1>9, <1>10, KeysList
    <2> HIDE DEF recent
    <2> QED BY <2>1, <1>9, ListsEach
<1>12. n = limit \/ T = J
    <2>1. CASE n = limit
        BY <2>1
    <2>2. CASE n # limit
        <3>1. n = Cardinality(J)
            BY <2>2, <1>7
        <3>2. ToSet(parsed) = {parsed[i] : i \in 1..Cardinality(J)}
            BY <1>7 DEF ToSet
        <3> QED BY <3>1, <3>2, <1>7, <1>9
    <2> QED BY <2>1, <2>2
<1> HIDE DEF recent, n
<1>13. ASSUME NEW j \in J \ T, NEW i \in 1..n
       PROVE  j.updated <= recent[i].updated
    <2>1. recent[i] \in T
        BY <1>8, <1>11, ElementOfSeq
    <2>2. PICK k \in 1..n : recent[i] = parsed[k]
        BY <2>1, <1>9
    <2>3. PICK l \in 1..Cardinality(J) : parsed[l] = j
        BY <1>7 DEF ToSet
    <2>4. l \notin 1..n
        BY <2>3, <1>9
    <2>5. k < l /\ k \in 1..Cardinality(J)
        BY <2>4, <1>7, <1>8
    <2>6. <<parsed[k], j>> \in ByKeys(J, stampOf)
        BY <2>3, <2>5, <1>6 DEF Lists
    <2>7. parsed[k] \in J
        BY <2>2, <2>1, <1>9
    <2>8. Before(stampOf[parsed[k]], stampOf[j])
        BY <2>6, <2>7, <1>6
    <2> DEFINE c == parsed[k]
    <2> HIDE DEF c
    <2>9. Before(<<c.stamp, -c.id>>, <<j.stamp, -j.id>>)
        BY <2>7, <2>8 DEF stampOf, c
    <2>10. c.stamp >= j.stamp
        <3> DEFINE s == <<c.stamp, -c.id>>
                   u == <<j.stamp, -j.id>>
        <3>1. c \in J /\ j \in J
            BY <2>7 DEF c
        <3>2. s \in [1..2 -> Int] /\ u \in [1..2 -> Int] /\ s[1] = c.stamp /\ u[1] = j.stamp
            BY <3>1, <1>4
        <3>3. Before(s, u) /\ 2 \in Nat \ {0}
            BY <2>9
        <3> HIDE DEF s, u
        <3>4. s[1] >= u[1]
            BY <3>2, <3>3, FirstKeyDecides
        <3> QED BY <3>2, <3>4
    <2>11. c \in SampleJobs /\ j \in SampleJobs
        BY <2>7, <1>2 DEF c
    <2>12. c.updated >= j.updated
        BY <2>10, <2>11, ListsAssumption DEF StoredOK
    <2>13. c.updated \in Int /\ j.updated \in Int
        BY <2>11, ListsAssumption DEF StoredOK
    <2>14. recent[i] = c
        BY <2>2 DEF c
    <2> QED BY <2>12, <2>13, <2>14
<1>14. /\ ToSet(recent) \subseteq J
       /\ Len(recent) = limit \/ ToSet(recent) = J
       /\ \A j \in J \ ToSet(recent), i \in DOMAIN recent : j.updated <= recent[i].updated
    BY <1>9, <1>11, <1>12, <1>13
<1> QED BY <1>1, <1>14 DEF J, limit

\* Of two elements of the whole, the first is in an earlier sequence or earlier in the same.
FlatOrder(q, seqs, N) ==
    /\ \A b \in 1..N : \A x \in 1..Len(seqs[b]) : \E k \in 1..Len(q) : q[k] = seqs[b][x]
    /\ \A k \in 1..Len(q) : \E b \in 1..N : \E x \in 1..Len(seqs[b]) : q[k] = seqs[b][x]
    /\ \A i, j \in 1..Len(q) : i < j =>
          \E b, c \in 1..N : \E x \in 1..Len(seqs[b]) : \E y \in 1..Len(seqs[c]) :
             /\ q[i] = seqs[b][x] /\ q[j] = seqs[c][y]
             /\ b < c \/ (b = c /\ x < y)

\* Sequences one after another keep what each has, in its order.
LEMMA FlattenInOrder ==
    ASSUME NEW E, NEW N \in Nat, NEW seqs \in [1..N -> Seq(E)]
    PROVE  FlattenSeq(seqs) \in Seq(E) /\ FlatOrder(FlattenSeq(seqs), seqs, N)
<1> DEFINE q == FlattenSeq(seqs)
<1>1. q \in Seq(E)
    BY FlattenPositions
<1>2. PICK off : Flattened(q, seqs, N, off)
    BY FlattenPositions
<1> HIDE DEF q
<1>3. /\ off \in [0..N -> Nat] /\ Len(q) = off[N]
      /\ \A b \in 1..N : off[b] = off[b - 1] + Len(seqs[b])
      /\ \A b \in 1..N : \A x \in 1..Len(seqs[b]) :
            off[b - 1] + x \in 1..off[N] /\ q[off[b - 1] + x] = seqs[b][x]
      /\ \A k \in 1..off[N] : \E b \in 1..N : \E x \in 1..Len(seqs[b]) : k = off[b - 1] + x
      /\ \A b, c \in 1..N : b < c => off[b] <= off[c - 1]
    BY <1>2 DEF Flattened, Ends
<1>4. \A b \in 1..N : Len(seqs[b]) \in Nat /\ b - 1 \in 0..N /\ b \in 0..N
    BY LenProperties
<1>5. ASSUME NEW b \in 1..N, NEW x \in 1..Len(seqs[b])
      PROVE  \E k \in 1..Len(q) : q[k] = seqs[b][x]
    BY <1>3
<1>6. ASSUME NEW k \in 1..Len(q)
      PROVE  \E b \in 1..N : \E x \in 1..Len(seqs[b]) : q[k] = seqs[b][x]
    <2>1. PICK b \in 1..N : \E x \in 1..Len(seqs[b]) : k = off[b - 1] + x
        BY <1>3
    <2>2. PICK x \in 1..Len(seqs[b]) : k = off[b - 1] + x
        BY <2>1
    <2> QED BY <2>2, <1>3
<1>7. ASSUME NEW i \in 1..Len(q), NEW j \in 1..Len(q), i < j
      PROVE  \E b, c \in 1..N : \E x \in 1..Len(seqs[b]) : \E y \in 1..Len(seqs[c]) :
                /\ q[i] = seqs[b][x] /\ q[j] = seqs[c][y]
                /\ b < c \/ (b = c /\ x < y)
    <2>1. PICK b \in 1..N : \E x \in 1..Len(seqs[b]) : i = off[b - 1] + x
        BY <1>3
    <2>2. PICK x \in 1..Len(seqs[b]) : i = off[b - 1] + x
        BY <2>1
    <2>3. PICK c \in 1..N : \E y \in 1..Len(seqs[c]) : j = off[c - 1] + y
        BY <1>3, SMTT(30)
    <2>4. PICK y \in 1..Len(seqs[c]) : j = off[c - 1] + y
        BY <2>3
    <2>5. q[i] = seqs[b][x] /\ q[j] = seqs[c][y]
        BY <2>2, <2>4, <1>3
    <2> DEFINE p == off[b - 1]
               r == off[c - 1]
               n == Len(seqs[c])
               e == off[c]
    <2>6. /\ p \in Nat /\ r \in Nat /\ n \in Nat /\ Len(seqs[b]) \in Nat
          /\ e = r + n
          /\ c < b => e <= p
        BY <1>3, <1>4
    <2>10. i = p + x /\ j = r + y /\ (b = c => p = r)
        BY <2>2, <2>4
    <2>11. x \in Nat /\ y \in Nat /\ 1 <= x /\ y <= n
        BY <2>6
    <2> HIDE DEF p, r, n, e
    <2>7. b = c => x < y
        BY <1>7, <2>6, <2>10, <2>11
    <2>8. ASSUME c < b PROVE FALSE
        BY <2>8, <1>7, <2>6, <2>10, <2>11
    <2>9. b < c \/ b = c \/ c < b
        OBVIOUS
    <2> QED BY <2>5, <2>7, <2>8, <2>9
<1>8. FlatOrder(q, seqs, N)
    BY <1>5, <1>6, <1>7, Zenon DEF FlatOrder
<1> QED BY <1>1, <1>8 DEF q

\* A later instant is not of an earlier second nor of an earlier day.
LEMMA LaterIsNotEarlier ==
    ASSUME NEW p \in Int, NEW r \in Int, p >= r
    PROVE  /\ secondOf(p) \in Int /\ secondOf(r) \in Int /\ secondOf(p) >= secondOf(r)
           /\ calendarDateOf(p) \in Int /\ calendarDateOf(r) \in Int
           /\ calendarDateOf(p) >= calendarDateOf(r)
<1>1. SecondLength \in Nat \ {0} /\ DateLength \in Nat \ {0} /\ Shift \in Nat
    BY ListConstants
<1>2. ASSUME NEW n \in Nat, NEW m \in Nat, n >= m, NEW d \in Nat \ {0}
      PROVE  n \div d \in Nat /\ m \div d \in Nat /\ n \div d >= m \div d
    BY <1>2
<1>3. ASSUME NEW at \in Int, readable(at)
      PROVE  at \in Nat /\ at + Shift \in Nat
    BY <1>1, <1>3 DEF readable
<1>4. secondOf(p) \in Int /\ secondOf(r) \in Int /\ secondOf(p) >= secondOf(r)
    <2>1. CASE readable(r)
        <3>1. readable(p)
            BY <2>1 DEF readable
        <3>2. p \in Nat /\ r \in Nat
            BY <2>1, <3>1, <1>3
        <3>3. p \div SecondLength \in Nat /\ r \div SecondLength \in Nat /\ p \div SecondLength >= r \div SecondLength
            BY <3>2, <1>1, <1>2
        <3> QED BY <2>1, <3>1, <3>3 DEF secondOf
    <2>2. CASE ~readable(r)
        <3>1. readable(p) => p \div SecondLength \in Nat
            BY <1>1, <1>2, <1>3
        <3> QED BY <2>2, <3>1 DEF secondOf, Unreadable
    <2> QED BY <2>1, <2>2
<1>5. calendarDateOf(p) \in Int /\ calendarDateOf(r) \in Int /\ calendarDateOf(p) >= calendarDateOf(r)
    <2>1. CASE readable(r)
        <3>1. readable(p)
            BY <2>1 DEF readable
        <3>2. p + Shift \in Nat /\ r + Shift \in Nat /\ p + Shift >= r + Shift
            BY <2>1, <3>1, <1>1, <1>3
        <3>3. /\ (p + Shift) \div DateLength \in Nat /\ (r + Shift) \div DateLength \in Nat
              /\ (p + Shift) \div DateLength >= (r + Shift) \div DateLength
            BY <3>2, <1>1, <1>2
        <3> QED BY <2>1, <3>1, <3>3 DEF calendarDateOf, dayOf
    <2>2. CASE ~readable(r)
        <3>1. readable(p) => (p + Shift) \div DateLength \in Nat
            BY <1>1, <1>2, <1>3
        <3> QED BY <2>2, <3>1 DEF calendarDateOf, dayOf, Unreadable
    <2> QED BY <2>1, <2>2
<1> QED BY <1>4, <1>5

(***************************************************************************)
(* The pages of the candidate list, by second, then by instant and day.    *)
(***************************************************************************)
\* Numbers in order are a sequence of them, increasing.
LEMMA NumbersAscend ==
    ASSUME NEW S, IsFiniteSet(S), S \subseteq Int
    PROVE  LET q == InOrder(S, <)
               n == Cardinality(S)
           IN  /\ n \in Nat /\ DOMAIN q = 1..n /\ q \in [1..n -> S]
               /\ \A c \in S : \E i \in 1..n : q[i] = c
               /\ \A i, j \in 1..n : i < j => q[i] < q[j]
<1> DEFINE q == InOrder(S, <)
           n == Cardinality(S)
<1>1. Lists(q, S, Smaller(S)) /\ \A a, b \in S : <<a, b>> \in Smaller(S) <=> a < b
    BY NumbersInOrder
<1>2. n \in Nat
    BY FS_CardinalityType
<1> HIDE DEF q
<1>3. /\ q \in [1..n -> S]
      /\ \A c \in S : \E i \in 1..n : q[i] = c
      /\ \A i, j \in 1..n : i < j => <<q[i], q[j]>> \in Smaller(S)
    BY <1>1 DEF Lists
<1>4. \A i, j \in 1..n : i < j => q[i] < q[j]
    BY <1>1, <1>3
<1>5. DOMAIN q = 1..n
    BY <1>3
<1> QED BY <1>2, <1>3, <1>4, <1>5 DEF q

\* A sequence that has what another has, in the same order.
SameOrder(shown, items) ==
    /\ \A x \in 1..Len(items) : \E k \in 1..Len(shown) : shown[k] = items[x]
    /\ \A k, l \in 1..Len(shown) : k < l =>
          \E x, y \in 1..Len(items) : x < y /\ shown[k] = items[x] /\ shown[l] = items[y]

DatesDescend(items) ==
    /\ \A x \in 1..Len(items) : items[x].published \in Int
    /\ \A x, y \in 1..Len(items) : x < y => items[x].published >= items[y].published

\* Grouped by day, candidates from the last published to the first stay in order.
LEMMA GroupsKeepOrder ==
    ASSUME NEW E, NEW items \in Seq(E), DatesDescend(items)
    PROVE  LET groups == groupPublicCandidatesByPublishedDate(items)
               shown == FlattenSeq([g \in DOMAIN groups |-> groups[g].items])
           IN  shown \in Seq(E) /\ SameOrder(shown, items)
<1> DEFINE n == Len(items)
           days == [i \in DOMAIN items |-> calendarDateOf(items[i].published)]
           head == {i \in DOMAIN items : \A j \in 1..(i - 1) : days[j] # days[i]}
           at == InOrder(head, <)
           N == Cardinality(head)
           On(d) == {i \in DOMAIN items : days[i] = d}
           Idx(d) == InOrder(On(d), <)
           ofDay(d) == [k \in DOMAIN Idx(d) |-> items[Idx(d)[k]]]
           groups == groupPublicCandidatesByPublishedDate(items)
           seqs == [g \in DOMAIN groups |-> groups[g].items]
           shown == FlattenSeq(seqs)
<1>1. n \in Nat /\ DOMAIN items = 1..n /\ \A i \in 1..n : items[i] \in E
    BY LenProperties, ElementOfSeq
<1>2. groups = [g \in DOMAIN at |-> [date |-> days[at[g]], items |-> ofDay(days[at[g]])]]
    BY DEF groupPublicCandidatesByPublishedDate
<1> HIDE DEF groups
<1>3. DOMAIN seqs = DOMAIN at /\ \A g \in DOMAIN at : seqs[g] = ofDay(days[at[g]])
    <2> HIDE DEF ofDay, days, at
    <2> QED BY <1>2
<1> HIDE DEF seqs
<1>4. \A x, y \in 1..n : /\ days[x] \in Int
                         /\ x < y => days[x] >= days[y]
    <2> SUFFICES ASSUME NEW x \in 1..n, NEW y \in 1..n
                 PROVE  days[x] \in Int /\ (x < y => days[x] >= days[y])
        OBVIOUS
    <2>1. items[x].published \in Int /\ items[y].published \in Int
          /\ (x < y => items[x].published >= items[y].published)
        BY DEF DatesDescend
    <2>2. days[x] = calendarDateOf(items[x].published) /\ days[y] = calendarDateOf(items[y].published)
        BY <1>1
    <2>5. items[x].published >= items[x].published
        BY <2>1
    <2>3. calendarDateOf(items[x].published) \in Int
        BY <2>1, <2>5, LaterIsNotEarlier
    <2>4. x < y => calendarDateOf(items[x].published) >= calendarDateOf(items[y].published)
        BY <2>1, LaterIsNotEarlier
    <2> QED BY <2>2, <2>3, <2>4
<1> HIDE DEF days, n
<1>5. /\ N \in Nat /\ DOMAIN at = 1..N /\ at \in [1..N -> head]
      /\ \A c \in head : \E i \in 1..N : at[i] = c
      /\ \A i, j \in 1..N : i < j => at[i] < at[j]
    <2>1. head \subseteq 1..n
        BY <1>1
    <2>2. IsFiniteSet(head) /\ head \subseteq Int
        <3>1. IsFiniteSet(1..n)
            BY <1>1, FS_Interval
        <3>2. 1..n \subseteq Int
            BY <1>1
        <3> HIDE DEF head
        <3> QED BY <2>1, <3>1, <3>2, FS_Subset
    <2> HIDE DEF head
    <2> QED BY <2>2, NumbersAscend
<1>6. \A i \in head : i \in 1..n /\ \A j \in 1..(i - 1) : days[j] # days[i]
    BY <1>1
<1>7. \A x \in 1..n : \E i \in head : days[i] = days[x]
    <2> SUFFICES ASSUME NEW x \in 1..n PROVE \E i \in head : days[i] = days[x]
        OBVIOUS
    <2> DEFINE T == {j \in 1..n : days[j] = days[x]}
    <2>1. T \subseteq Nat /\ T # {}
        <3>1. 1..n \subseteq Nat
            BY <1>1
        <3>2. x \in T
            OBVIOUS
        <3> QED BY <3>1, <3>2
    <2>2. PICK i \in T : \A j \in T : i <= j
        <3> HIDE DEF T
        <3> QED BY <2>1, LeastNat
    <2>3. \A j \in 1..(i - 1) : j \in 1..n /\ ~ (i <= j)
        BY <1>1, <2>2
    <2>4. \A j \in 1..(i - 1) : days[j] # days[i]
        BY <2>2, <2>3
    <2> QED BY <1>1, <2>2, <2>4
<1> HIDE DEF head, at, N
<1>8. ASSUME NEW d
      PROVE  /\ Cardinality(On(d)) \in Nat /\ DOMAIN Idx(d) = 1..Cardinality(On(d))
             /\ \A k \in 1..Cardinality(On(d)) : Idx(d)[k] \in 1..n /\ days[Idx(d)[k]] = d
             /\ \A c \in 1..n : days[c] = d => \E k \in 1..Cardinality(On(d)) : Idx(d)[k] = c
             /\ \A k, l \in 1..Cardinality(On(d)) : k < l => Idx(d)[k] < Idx(d)[l]
             /\ ofDay(d) \in Seq(E) /\ Len(ofDay(d)) = Cardinality(On(d))
             /\ \A k \in 1..Cardinality(On(d)) : ofDay(d)[k] = items[Idx(d)[k]]
    <2> DEFINE S == On(d)
               m == Cardinality(S)
               q == Idx(d)
    <2>1. \A i : i \in S <=> i \in 1..n /\ days[i] = d
        BY <1>1
    <2>2. IsFiniteSet(S) /\ S \subseteq Int
        <3>1. IsFiniteSet(1..n)
            BY <1>1, FS_Interval
        <3>2. 1..n \subseteq Int
            BY <1>1
        <3> HIDE DEF S
        <3> QED BY <2>1, <3>1, <3>2, FS_Subset
    <2>3. /\ m \in Nat /\ DOMAIN q = 1..m /\ q \in [1..m -> S]
          /\ \A c \in S : \E i \in 1..m : q[i] = c
          /\ \A i, j \in 1..m : i < j => q[i] < q[j]
        <3> HIDE DEF On
        <3> QED BY <2>2, NumbersAscend
    <2>4. ofDay(d) = [k \in DOMAIN q |-> items[q[k]]]
        OBVIOUS
    <2> HIDE DEF S, q, ofDay
    <2>5. \A k \in 1..m : q[k] \in 1..n /\ days[q[k]] = d
        BY <2>1, <2>3
    <2> HIDE DEF m
    <2>6. ofDay(d) = [k \in 1..m |-> items[q[k]]]
        BY <2>3, <2>4
    <2>7. ofDay(d) \in [1..m -> E]
        BY <2>5, <2>6, <1>1
    <2>8. ofDay(d) \in Seq(E) /\ Len(ofDay(d)) = m
        BY <2>3, <2>7
    <2>9. \A k \in 1..m : ofDay(d)[k] = items[q[k]]
        BY <2>6
    <2>10. \A c \in 1..n : days[c] = d => \E k \in 1..m : q[k] = c
        BY <2>1, <2>3
    <2> QED BY <2>3, <2>5, <2>8, <2>9, <2>10 DEF S, q, m
<1> HIDE DEF Idx, On, ofDay
<1> DEFINE D(g) == days[at[g]]
           C(g) == Cardinality(On(D(g)))
<1>9. \A g \in 1..N : /\ at[g] \in head /\ seqs[g] = ofDay(D(g))
                      /\ seqs[g] \in Seq(E) /\ Len(seqs[g]) = C(g)
    <2> SUFFICES ASSUME NEW g \in 1..N
                 PROVE  /\ at[g] \in head /\ seqs[g] = ofDay(D(g))
                        /\ seqs[g] \in Seq(E) /\ Len(seqs[g]) = C(g)
        OBVIOUS
    <2>1. at[g] \in head /\ seqs[g] = ofDay(D(g))
        BY <1>3, <1>5
    <2>2. ofDay(D(g)) \in Seq(E) /\ Len(ofDay(D(g))) = C(g)
        BY <1>8
    <2> QED BY <2>1, <2>2
<1>10. seqs \in [1..N -> Seq(E)]
    <2>1. seqs = [g \in DOMAIN groups |-> groups[g].items]
        BY DEF seqs
    <2>2. seqs = [g \in 1..N |-> seqs[g]]
        BY <2>1, <1>3, <1>5
    <2> QED BY <2>2, <1>9
<1>11. shown \in Seq(E) /\ FlatOrder(shown, seqs, N)
    BY <1>5, <1>10, FlattenInOrder
<1> HIDE DEF shown
<1>12. ASSUME NEW x \in 1..n PROVE \E k \in 1..Len(shown) : shown[k] = items[x]
    <2>1. PICK i \in head : days[i] = days[x]
        BY <1>7
    <2>2. PICK g \in 1..N : at[g] = i
        BY <1>5
    <2>3. PICK k \in 1..C(g) : Idx(D(g))[k] = x
        BY <2>1, <2>2, <1>8
    <2>4. seqs[g][k] = items[x] /\ k \in 1..Len(seqs[g])
        BY <2>3, <1>8, <1>9
    <2> QED BY <2>4, <1>11 DEF FlatOrder
<1>13. ASSUME NEW k \in 1..Len(shown), NEW l \in 1..Len(shown), k < l
       PROVE  \E x, y \in 1..n : x < y /\ shown[k] = items[x] /\ shown[l] = items[y]
    <2>1. PICK b \in 1..N, c \in 1..N :
            \E x \in 1..Len(seqs[b]) : \E y \in 1..Len(seqs[c]) :
             /\ shown[k] = seqs[b][x] /\ shown[l] = seqs[c][y]
             /\ b < c \/ (b = c /\ x < y)
        BY <1>11, <1>13 DEF FlatOrder
    <2>2. PICK x \in 1..Len(seqs[b]) : \E y \in 1..Len(seqs[c]) :
             /\ shown[k] = seqs[b][x] /\ shown[l] = seqs[c][y]
             /\ b < c \/ (b = c /\ x < y)
        BY <2>1
    <2>3. PICK y \in 1..Len(seqs[c]) :
             /\ shown[k] = seqs[b][x] /\ shown[l] = seqs[c][y]
             /\ b < c \/ (b = c /\ x < y)
        BY <2>2
    <2> DEFINE u == Idx(D(b))[x]
               v == Idx(D(c))[y]
    <2>4. x \in 1..C(b) /\ y \in 1..C(c)
        BY <1>9
    <2>5. /\ shown[k] = items[u] /\ shown[l] = items[v]
          /\ u \in 1..n /\ v \in 1..n
          /\ days[u] = D(b) /\ days[v] = D(c)
        <3>1. seqs[b] = ofDay(D(b)) /\ seqs[c] = ofDay(D(c))
            BY <1>9
        <3>2. ofDay(D(b))[x] = items[u] /\ u \in 1..n /\ days[u] = D(b)
            BY <2>4, <1>8
        <3>3. ofDay(D(c))[y] = items[v] /\ v \in 1..n /\ days[v] = D(c)
            BY <2>4, <1>8
        <3> QED BY <3>1, <3>2, <3>3, <2>3
    <2>6. CASE b = c /\ x < y
        <3>1. u < v
            BY <2>4, <2>6, <1>8
        <3> QED BY <3>1, <2>5
    <2>7. CASE b < c
        <3>1. at[b] < at[c] /\ at[b] \in head /\ at[c] \in head
            BY <2>7, <1>5
        <3>2. at[b] \in 1..n /\ at[c] \in 1..n /\ at[b] \in 1..(at[c] - 1)
            BY <3>1, <1>1, <1>6
        <3>3. D(b) # D(c) /\ D(b) >= D(c)
            BY <3>1, <3>2, <1>4, <1>6
        <3>4. D(b) \in Int /\ D(c) \in Int
            BY <3>2, <1>4
        <3> HIDE DEF D, u, v
        <3>5. ~ (v < u) /\ v # u
            BY <3>3, <3>4, <2>5, <1>4, SMTT(30)
        <3>6. u < v
            BY <3>5, <2>5, <1>1
        <3> QED BY <3>6, <2>5
    <2> QED BY <2>3, <2>6, <2>7
<1>14. SameOrder(shown, items)
    BY <1>12, <1>13, Zenon DEF SameOrder, n
<1> QED BY <1>11, <1>14 DEF shown, seqs, groups

Matching(candidates, filters) == {c \in candidates : candidateMatchesListFilters(c, filters)}

InDatabase(candidates, filters) ==
    LET M == Matching(candidates, filters) IN ByKey(M, [c \in M |-> databaseOrder(c)])

\* What the n-th page is cut to.
OnPage(candidates, filters, n) ==
    LET order == InDatabase(candidates, filters)
    IN  {order[i] : i \in {k \in 1..Len(order) : (n - 1) * PageSize < k /\ k <= n * PageSize}}

\* The database has every candidate that matches once, from the last second down.
LEMMA DatabaseLists ==
    ASSUME NEW candidates, Some(candidates, SampleCandidates), NEW filters
    PROVE  LET M == Matching(candidates, filters)
               q == InDatabase(candidates, filters)
           IN  /\ IsFiniteSet(M) /\ M \subseteq SampleCandidates
               /\ \A c, d \in M : c.id = d.id => c = d
               /\ q \in Seq(M) /\ Len(q) = Cardinality(M) /\ Len(q) \in Nat
               /\ \A c \in M : \E i \in 1..Len(q) : q[i] = c
               /\ \A i, j \in 1..Len(q) : i # j => q[i] # q[j]
               /\ \A i, j \in 1..Len(q) : i < j => secondOf(q[i].published) >= secondOf(q[j].published)
<1> DEFINE M == Matching(candidates, filters)
           key == [c \in M |-> databaseOrder(c)]
           q == ByKey(M, key)
<1>1. /\ IsFiniteSet(M) /\ M \subseteq SampleCandidates
      /\ \A c, d \in M : c.id = d.id => c = d
    BY FS_Subset DEF Some, Matching
<1> HIDE DEF M
<1>2. \A c \in M : c.published \in Int /\ c.found \in Int /\ c.id \in Int /\ secondOf(c.published) \in Int
    <2> SUFFICES ASSUME NEW c \in M
                 PROVE  c.published \in Int /\ c.found \in Int /\ c.id \in Int /\ secondOf(c.published) \in Int
        OBVIOUS
    <2>1. c.published \in Int /\ c.found \in Int /\ c.id \in Int
        BY <1>1, ListsAssumption DEF StoredOK
    <2>2. c.published >= c.published
        BY <2>1
    <2> QED BY <2>1, <2>2, LaterIsNotEarlier
<1>3. Keys(M, key, 3)
    <2>1. \A c \in M : databaseOrder(c) \in [1..3 -> Int] /\ databaseOrder(c)[3] = c.id
        BY <1>2 DEF databaseOrder
    <2>2. key \in [M -> [1..3 -> Int]]
        BY <2>1
    <2>3. \A c, d \in M : key[c] = key[d] => c = d
        BY <2>1, <1>1
    <2> QED BY <2>2, <2>3 DEF Keys
<1>4. \A c \in M : key[c] = <<secondOf(c.published), c.found, c.id>>
    BY DEF databaseOrder
<1> HIDE DEF key
<1>5. /\ Lists(q, M, ByKeys(M, key)) /\ StrictOrder(M, ByKeys(M, key))
      /\ \A c, d \in M : <<c, d>> \in ByKeys(M, key) <=> Before(key[c], key[d])
    BY <1>1, <1>3, KeysList
<1> HIDE DEF q
<1>6. /\ q \in Seq(M) /\ Len(q) = Cardinality(M) /\ Cardinality(M) \in Nat
      /\ \A i, j \in 1..Cardinality(M) : i # j => q[i] # q[j]
    BY <1>1, <1>5, ListsEach
<1>7. /\ \A c \in M : \E i \in 1..Cardinality(M) : q[i] = c
      /\ \A i, j \in 1..Cardinality(M) : i < j => <<q[i], q[j]>> \in ByKeys(M, key)
    BY <1>5 DEF Lists
<1>8. ASSUME NEW c \in M, NEW d \in M, Before(key[c], key[d])
      PROVE  secondOf(c.published) >= secondOf(d.published)
    <2>1. /\ key[c] \in [1..3 -> Int] /\ key[d] \in [1..3 -> Int] /\ 3 \in Nat \ {0}
          /\ key[c][1] = secondOf(c.published) /\ key[d][1] = secondOf(d.published)
        <3> DEFINE x == secondOf(c.published)
                   y == secondOf(d.published)
        <3>1. /\ x \in Int /\ c.found \in Int /\ c.id \in Int
              /\ y \in Int /\ d.found \in Int /\ d.id \in Int
            BY <1>2
        <3>2. key[c] = <<x, c.found, c.id>> /\ key[d] = <<y, d.found, d.id>>
            BY <1>4
        <3> HIDE DEF x, y
        <3>3. /\ key[c] \in [1..3 -> Int] /\ key[d] \in [1..3 -> Int] /\ 3 \in Nat \ {0}
              /\ key[c][1] = x /\ key[d][1] = y
            BY <3>1, <3>2
        <3> QED BY <3>3 DEF x, y
    <2>2. key[c][1] >= key[d][1]
        BY <2>1, <1>8, FirstKeyDecides
    <2> QED BY <2>1, <2>2
<1>9. ASSUME NEW i \in 1..Cardinality(M), NEW j \in 1..Cardinality(M), i < j
      PROVE  secondOf(q[i].published) >= secondOf(q[j].published)
    <2>1. q[i] \in M /\ q[j] \in M
        BY <1>6, ElementOfSeq
    <2>2. Before(key[q[i]], key[q[j]])
        BY <2>1, <1>5, <1>7, <1>9
    <2> QED BY <2>1, <2>2, <1>8
<1>10. InDatabase(candidates, filters) = q
    BY DEF InDatabase, q, key, M
<1> QED BY <1>1, <1>6, <1>7, <1>9, <1>10 DEF M

\* The candidates of a page, as it shows them.
LEMMA PageShows ==
    ASSUME NEW candidates, Some(candidates, SampleCandidates), NEW filters, NEW n \in Nat \ {0}
    PROVE  LET body == toCandidateListBody(candidates, filters, n)
               C == OnPage(candidates, filters, n)
           IN  /\ body.total = Len(InDatabase(candidates, filters))
               /\ Shown(body) \in Seq(C)
               /\ \A c \in C : \E k \in 1..Len(Shown(body)) : Shown(body)[k] = c
               /\ \A k, l \in 1..Len(Shown(body)) : k < l =>
                    /\ Shown(body)[k] # Shown(body)[l]
                    /\ secondOf(Shown(body)[k].published) >= secondOf(Shown(body)[l].published)
<1> DEFINE M == Matching(candidates, filters)
           q == InDatabase(candidates, filters)
           C == OnPage(candidates, filters, n)
           body == toCandidateListBody(candidates, filters, n)
           from == listOffset(n)
           to == IF from + PageSize > Len(q) THEN Len(q) ELSE from + PageSize
           cut == SubSeq(q, from + 1, to)
           T == ToSet(cut)
           key == [c \in T |-> compareListedByPublishedDate(c)]
           items == ByKey(T, key)
           shown == Shown(body)
<1>1. parseListPage(n) = n
    BY DEF parseListPage
<1>2. listListed(candidates, filters, n) = [items |-> items, total |-> Len(q)]
    BY DEF listListed, Sorted, InDatabase, Matching
<1>3. /\ body.total = Len(q)
      /\ body.groups = groupPublicCandidatesByPublishedDate(items)
    <2> HIDE DEF items, q
    <2> QED BY <1>1, <1>2 DEF toCandidateListBody
<1>4. /\ IsFiniteSet(M) /\ M \subseteq SampleCandidates
      /\ \A c, d \in M : c.id = d.id => c = d
      /\ q \in Seq(M) /\ Len(q) \in Nat
      /\ \A i, j \in 1..Len(q) : i # j => q[i] # q[j]
    BY DatabaseLists
<1>5. from = (n - 1) * PageSize /\ from \in Nat /\ from + PageSize = n * PageSize /\ PageSize \in Nat
    <2>1. PageSize \in Nat /\ n - 1 \in Nat /\ n = (n - 1) + 1
        BY ListConstants
    <2>2. (n - 1) * PageSize \in Nat
        BY <2>1
    <2>3. n * PageSize = (n - 1) * PageSize + PageSize
        BY <2>1
    <2> QED BY <2>1, <2>2, <2>3 DEF listOffset
<1> HIDE DEF q, M, from
<1>6. C = {q[i] : i \in {k \in 1..Len(q) : from < k /\ k <= from + PageSize}}
    BY <1>5 DEF OnPage, q
<1>7. T = C /\ IsFiniteSet(T) /\ T \subseteq M
    <2>1. CASE from > Len(q)
        <3>1. to = Len(q) /\ to < from + 1 /\ to \in Int /\ from + 1 \in Int
            BY <2>1, <1>4, <1>5
        <3>2. cut = <<>>
            BY <3>1, SubSeqEmpty
        <3>3. T = {}
            <4> HIDE DEF cut
            <4>1. DOMAIN cut = {}
                BY <3>2
            <4> QED BY <4>1 DEF ToSet
        <3>4. {k \in 1..Len(q) : from < k /\ k <= from + PageSize} = {}
            BY <2>1, <1>4, <1>5
        <3>5. C = {}
            BY <3>4, <1>6
        <3>6. IsFiniteSet({})
            BY FS_EmptySet
        <3> HIDE DEF T, C
        <3> QED BY <3>3, <3>5, <3>6
    <2>2. CASE ~ (from > Len(q))
        <3>1. to \in Nat /\ from <= to /\ to <= Len(q)
            BY <2>2, <1>4, <1>5
        <3>2. {k \in 1..Len(q) : from < k /\ k <= from + PageSize} = (from + 1)..to
            BY <2>2, <1>4, <1>5
        <3> HIDE DEF to
        <3>3. \A i, j \in 1..Len(q) : i # j => q[i] # q[j]
            BY <1>4
        <3>4. /\ ToSet(cut) = Stretch(q, from, to)
              /\ IsFiniteSet(ToSet(cut)) /\ ToSet(cut) \subseteq M
            BY <3>1, <3>3, <1>4, <1>5, CutOfList
        <3>5. Stretch(q, from, to) = C
            BY <3>2, <1>6 DEF Stretch
        <3> QED BY <3>4, <3>5
    <2> QED BY <2>1, <2>2
<1> HIDE DEF C, T, body
<1>8. \A c \in T : c.published \in Int /\ c.found \in Int /\ c.id \in Int
    BY <1>4, <1>7, ListsAssumption DEF StoredOK
<1>9. Keys(T, key, 3)
    <2>1. \A c \in T : compareListedByPublishedDate(c) \in [1..3 -> Int]
                       /\ compareListedByPublishedDate(c)[3] = c.id
        BY <1>8 DEF compareListedByPublishedDate
    <2>2. key \in [T -> [1..3 -> Int]]
        BY <2>1
    <2>3. \A c, d \in T : key[c] = key[d] => c = d
        BY <2>1, <1>4, <1>7
    <2> QED BY <2>2, <2>3 DEF Keys
<1>10. \A c \in T : key[c] = <<c.published, c.found, c.id>>
    BY DEF compareListedByPublishedDate
<1> HIDE DEF key
<1>11. /\ Lists(items, T, ByKeys(T, key)) /\ StrictOrder(T, ByKeys(T, key))
       /\ \A c, d \in T : <<c, d>> \in ByKeys(T, key) <=> Before(key[c], key[d])
    BY <1>7, <1>9, KeysList
<1> HIDE DEF items
<1>12. /\ items \in Seq(T) /\ Len(items) = Cardinality(T) /\ Cardinality(T) \in Nat
       /\ \A i, j \in 1..Cardinality(T) : i # j => items[i] # items[j]
    BY <1>7, <1>11, ListsEach
<1>13. /\ \A c \in T : \E i \in 1..Cardinality(T) : items[i] = c
       /\ \A i, j \in 1..Cardinality(T) : i < j => <<items[i], items[j]>> \in ByKeys(T, key)
    BY <1>11 DEF Lists
<1>14. ASSUME NEW c \in T, NEW d \in T, Before(key[c], key[d])
       PROVE  c.published >= d.published
    <2>1. /\ key[c] \in [1..3 -> Int] /\ key[d] \in [1..3 -> Int] /\ 3 \in Nat \ {0}
          /\ key[c][1] = c.published /\ key[d][1] = d.published
        BY <1>10, <1>8, SMTT(30)
    <2>2. key[c][1] >= key[d][1]
        BY <2>1, <1>14, FirstKeyDecides
    <2> QED BY <2>1, <2>2
<1>15. ASSUME NEW i \in 1..Cardinality(T), NEW j \in 1..Cardinality(T), i < j
       PROVE  items[i].published >= items[j].published
    <2>1. items[i] \in T /\ items[j] \in T
        BY <1>12, ElementOfSeq
    <2>2. Before(key[items[i]], key[items[j]])
        BY <2>1, <1>11, <1>13, <1>15
    <2> QED BY <2>1, <2>2, <1>14
<1>16. DatesDescend(items)
    <2>1. \A i \in 1..Cardinality(T) : items[i] \in T
        BY <1>12, ElementOfSeq
    <2>2. \A i \in 1..Cardinality(T) : items[i].published \in Int
        BY <2>1, <1>8
    <2> QED BY <2>2, <1>12, <1>15 DEF DatesDescend
<1>17. shown \in Seq(T) /\ SameOrder(shown, items)
    <2>1. shown = FlattenSeq([g \in DOMAIN body.groups |-> body.groups[g].items])
        BY DEF Shown
    <2> HIDE DEF shown
    <2> QED BY <2>1, <1>3, <1>12, <1>16, GroupsKeepOrder
<1> HIDE DEF shown
<1>18. ASSUME NEW c \in T PROVE \E k \in 1..Len(shown) : shown[k] = c
    <2>1. PICK x \in 1..Cardinality(T) : items[x] = c
        BY <1>13
    <2>2. x \in 1..Len(items)
        BY <1>12
    <2> QED BY <2>1, <2>2, <1>17 DEF SameOrder
<1>19. ASSUME NEW k \in 1..Len(shown), NEW l \in 1..Len(shown), k < l
       PROVE  shown[k] # shown[l] /\ secondOf(shown[k].published) >= secondOf(shown[l].published)
    <2>1. PICK x \in 1..Len(items), y \in 1..Len(items) :
              x < y /\ shown[k] = items[x] /\ shown[l] = items[y]
        BY <1>17, <1>19 DEF SameOrder
    <2>2. x \in 1..Cardinality(T) /\ y \in 1..Cardinality(T) /\ x # y
        BY <2>1, <1>12
    <2>3. items[x] # items[y] /\ items[x].published >= items[y].published
        BY <2>1, <2>2, <1>12, <1>15
    <2>4. items[x].published \in Int /\ items[y].published \in Int
        BY <2>2, <1>12, <1>16 DEF DatesDescend
    <2>5. secondOf(items[x].published) >= secondOf(items[y].published)
        BY <2>3, <2>4, LaterIsNotEarlier
    <2> QED BY <2>1, <2>3, <2>5
<1> QED BY <1>3, <1>7, <1>17, <1>18, <1>19 DEF C, q, body, shown

\* Every position of a list is on one of the first pages, and a later page is further on.
LEMMA PagesMeet ==
    ASSUME NEW P \in Nat \ {0}
    PROVE  /\ \A i \in Nat \ {0} : \E n \in 1..i : (n - 1) * P < i /\ i <= n * P
           /\ \A b, c \in Nat \ {0} : b < c => b * P <= (c - 1) * P
<1>1. ASSUME NEW b \in Nat, NEW c \in Nat, b <= c PROVE b * P <= c * P
    <2>1. PICK e \in Nat : c = b + e
        <3>1. c - b \in Nat /\ c = b + (c - b)
            BY <1>1
        <3> QED BY <3>1
    <2>2. e * P \in Nat /\ b * P \in Nat
        OBVIOUS
    <2>3. (b + e) * P = b * P + e * P
        OBVIOUS
    <2> QED BY <2>1, <2>2, <2>3
<1>2. ASSUME NEW i \in Nat \ {0}
      PROVE  \E n \in 1..i : (n - 1) * P < i /\ i <= n * P
    <2> DEFINE T == {m \in Nat : i <= m * P}
    <2>1. i \in T
        <3>1. PICK p \in Nat : P = p + 1
            <4>1. P - 1 \in Nat /\ P = (P - 1) + 1
                OBVIOUS
            <4> QED BY <4>1
        <3>2. i * p \in Nat
            BY <3>1
        <3>3. i * (p + 1) = i * p + i
            BY <3>1
        <3>4. i <= i * P
            BY <3>1, <3>2, <3>3
        <3> QED BY <3>4
    <2>2. PICK n \in T : \A m \in T : n <= m
        <3>1. T \subseteq Nat /\ T # {}
            BY <2>1
        <3> HIDE DEF T
        <3> QED BY <3>1, LeastNat
    <2>3. n \in Nat /\ i <= n * P /\ n <= i
        BY <2>1, <2>2
    <2>4. n # 0
        <3>1. 0 * P = 0
            OBVIOUS
        <3> QED BY <3>1, <2>3
    <2>5. n - 1 \in Nat /\ n - 1 \notin T
        BY <2>2, <2>3, <2>4
    <2>6. (n - 1) * P < i
        <3>1. (n - 1) * P \in Nat
            BY <2>5
        <3>2. ~ (i <= (n - 1) * P)
            BY <2>5
        <3> QED BY <3>1, <3>2
    <2>7. n \in 1..i
        BY <2>3, <2>4
    <2> HIDE DEF T
    <2> QED BY <2>3, <2>6, <2>7
<1>3. ASSUME NEW b \in Nat \ {0}, NEW c \in Nat \ {0}, b < c
      PROVE  b * P <= (c - 1) * P
    <2>1. c - 1 \in Nat /\ b <= c - 1
        BY <1>3
    <2> QED BY <2>1, <1>1
<1> QED BY <1>2, <1>3

\* Page after page, the list shows every candidate that matches once.
LEMMA PagesShowEach ==
    ASSUME Some(sample.candidates, SampleCandidates), NEW filters
    PROVE  PagesCover(filters)
<1> DEFINE X == sample.candidates
           M == Matching(X, filters)
           q == InDatabase(X, filters)
           N == Len(q)
           page(n) == toCandidateListBody(X, filters, n)
           C(n) == OnPage(X, filters, n)
           sh(n) == Shown(page(n))
           total == page(1).total
           seqs == [n \in 1..(total + 1) |-> sh(n)]
           all == FlattenSeq(seqs)
<1>1. page(0) = page(1)
    BY DEF toCandidateListBody, parseListPage
<1>2. /\ IsFiniteSet(M)
      /\ q \in Seq(M) /\ Len(q) = Cardinality(M) /\ Len(q) \in Nat
      /\ \A c \in M : \E i \in 1..Len(q) : q[i] = c
      /\ \A i, j \in 1..Len(q) : i # j => q[i] # q[j]
      /\ \A i, j \in 1..Len(q) : i < j => secondOf(q[i].published) >= secondOf(q[j].published)
    BY DatabaseLists
<1>3. ASSUME NEW n \in Nat \ {0}
      PROVE  /\ page(n).total = N
             /\ sh(n) \in Seq(C(n))
             /\ \A c \in C(n) : \E k \in 1..Len(sh(n)) : sh(n)[k] = c
             /\ \A k, l \in 1..Len(sh(n)) : k < l =>
                  /\ sh(n)[k] # sh(n)[l]
                  /\ secondOf(sh(n)[k].published) >= secondOf(sh(n)[l].published)
    BY PageShows
<1>4. \A n : C(n) = {q[i] : i \in {k \in 1..Len(q) : (n - 1) * PageSize < k /\ k <= n * PageSize}}
    BY DEF OnPage
<1>5. M = {c \in X : candidateMatchesListFilters(c, filters)}
    BY DEF Matching
<1> HIDE DEF M, q
<1>6. total = N
    BY <1>3
<1> HIDE DEF page, C, total, X
<1>7. PageSize \in Nat \ {0}
    BY ListConstants
<1>8. \A n \in 1..(N + 1) : n \in Nat \ {0}
    BY <1>2
<1>9. \A n : C(n) \subseteq M
    <2>1. \A i \in 1..Len(q) : q[i] \in M
        BY <1>2, ElementOfSeq
    <2> QED BY <2>1, <1>4
<1> HIDE DEF sh
<1>10. \A n \in 1..(N + 1) : /\ sh(n) \in Seq(M) /\ Len(sh(n)) \in Nat
                             /\ \A k \in 1..Len(sh(n)) : sh(n)[k] \in C(n)
    <2> SUFFICES ASSUME NEW n \in 1..(N + 1)
                 PROVE  /\ sh(n) \in Seq(M) /\ Len(sh(n)) \in Nat
                        /\ \A k \in 1..Len(sh(n)) : sh(n)[k] \in C(n)
        OBVIOUS
    <2>1. sh(n) \in Seq(C(n)) /\ C(n) \subseteq M
        BY <1>3, <1>8, <1>9
    <2>2. \A k \in 1..Len(sh(n)) : sh(n)[k] \in C(n)
        BY <2>1, ElementOfSeq
    <2>3. sh(n) \in Seq(M) /\ Len(sh(n)) \in Nat
        BY <2>1
    <2> QED BY <2>2, <2>3
<1> HIDE DEF N
<1>11. N + 1 \in Nat /\ seqs \in [1..(N + 1) -> Seq(M)] /\ \A n \in 1..(N + 1) : seqs[n] = sh(n)
    BY <1>2, <1>6, <1>10 DEF N
<1> HIDE DEF seqs
<1>12. all \in Seq(M) /\ FlatOrder(all, seqs, N + 1)
    BY <1>11, FlattenInOrder
<1> HIDE DEF all
<1>13. ASSUME NEW c \in M PROVE \E k \in 1..Len(all) : all[k] = c
    <2>1. PICK i \in 1..N : q[i] = c
        BY <1>2 DEF N
    <2>2. i \in Nat \ {0}
        BY <1>2 DEF N
    <2>3. PICK n \in 1..i : (n - 1) * PageSize < i /\ i <= n * PageSize
        BY <2>2, <1>7, PagesMeet
    <2>4. n \in 1..(N + 1)
        BY <2>1, <2>2, <2>3, <1>2 DEF N
    <2>5. c \in C(n)
        BY <2>1, <2>3, <1>4 DEF N
    <2>6. PICK x \in 1..Len(sh(n)) : sh(n)[x] = c
        BY <2>4, <2>5, <1>3, <1>8
    <2>7. seqs[n] = sh(n)
        BY <2>4, <1>11
    <2>8. \A b \in 1..(N + 1) : \A y \in 1..Len(seqs[b]) : \E k \in 1..Len(all) : all[k] = seqs[b][y]
        BY <1>12 DEF FlatOrder
    <2>9. x \in 1..Len(seqs[n]) /\ seqs[n][x] = c
        BY <2>6, <2>7
    <2>10. \E k \in 1..Len(all) : all[k] = seqs[n][x]
        BY <2>4, <2>8, <2>9
    <2> QED BY <2>9, <2>10
<1>14. ASSUME NEW i \in 1..Len(all), NEW j \in 1..Len(all), i < j
       PROVE  all[i] # all[j] /\ secondOf(all[i].published) >= secondOf(all[j].published)
    <2>1. PICK b \in 1..(N + 1), c \in 1..(N + 1) :
            \E x \in 1..Len(seqs[b]) : \E y \in 1..Len(seqs[c]) :
             /\ all[i] = seqs[b][x] /\ all[j] = seqs[c][y]
             /\ b < c \/ (b = c /\ x < y)
        BY <1>12, <1>14 DEF FlatOrder
    <2>2. PICK x \in 1..Len(seqs[b]) : \E y \in 1..Len(seqs[c]) :
             /\ all[i] = seqs[b][x] /\ all[j] = seqs[c][y]
             /\ b < c \/ (b = c /\ x < y)
        BY <2>1
    <2>3. PICK y \in 1..Len(seqs[c]) :
             /\ all[i] = seqs[b][x] /\ all[j] = seqs[c][y]
             /\ b < c \/ (b = c /\ x < y)
        BY <2>2
    <2>4. /\ seqs[b] = sh(b) /\ seqs[c] = sh(c)
          /\ b \in Nat \ {0} /\ c \in Nat \ {0}
        BY <1>8, <1>11
    <2>5. CASE b = c /\ x < y
        <3>1. x \in 1..Len(sh(b)) /\ y \in 1..Len(sh(b))
            BY <2>4, <2>5
        <3>2. sh(b)[x] # sh(b)[y] /\ secondOf(sh(b)[x].published) >= secondOf(sh(b)[y].published)
            BY <3>1, <2>4, <2>5, <1>3
        <3> QED BY <3>2, <2>3, <2>4, <2>5
    <2>6. CASE b < c
        <3>1. sh(b)[x] \in C(b) /\ sh(c)[y] \in C(c)
            BY <2>4, <1>10
        <3>2. PICK k \in 1..Len(q) : k <= b * PageSize /\ sh(b)[x] = q[k]
            BY <3>1, <1>4
        <3>3. PICK l \in 1..Len(q) : (c - 1) * PageSize < l /\ sh(c)[y] = q[l]
            BY <3>1, <1>4
        <3>4. b * PageSize <= (c - 1) * PageSize
            BY <2>4, <2>6, <1>7, PagesMeet
        <3>5. b * PageSize \in Int /\ (c - 1) * PageSize \in Int
            BY <2>4, <1>7
        <3>6. k < l /\ k # l
            BY <3>2, <3>3, <3>4, <3>5, <1>2
        <3>7. q[k] # q[l] /\ secondOf(q[k].published) >= secondOf(q[l].published)
            BY <3>6, <1>2
        <3>8. all[i] = q[k] /\ all[j] = q[l]
            BY <3>2, <3>3, <2>3, <2>4
        <3> QED BY <3>7, <3>8
    <2> QED BY <2>3, <2>5, <2>6
<1>15. Len(all) = Cardinality(M) /\ ToSet(all) = M
    <2>1. \A i, j \in 1..Len(all) : i < j => all[i] # all[j]
        BY <1>14
    <2>2. \A c \in M : \E k \in 1..Len(all) : all[k] = c
        BY <1>13
    <2> QED BY <2>1, <2>2, <1>2, <1>12, EachOnce
<1>16. DOMAIN all = 1..Len(all)
    BY <1>12, LenProperties
<1>17. \A i, j \in DOMAIN all : i < j => secondOf(all[i].published) >= secondOf(all[j].published)
    BY <1>14, <1>16
<1>18. total = Len(all)
    BY <1>2, <1>6, <1>15 DEF N
<1> QED BY <1>1, <1>5, <1>15, <1>17, <1>18 DEF PagesCover, all, seqs, sh, page, total, X

(***************************************************************************)
(* The catalogue: the days of a shelf, the stamps, the feeds.              *)
(***************************************************************************)
\* The days of some articles are listed, each once, with what is of it.
DaysHeld(S) == {opdsDate(a) : a \in S} \ {Unreadable}
OfDate(S, d) == {a \in S : opdsDate(a) = d}

DayHolds(day, S) ==
    /\ day.date \in DaysHeld(S)
    /\ day.articles \in Seq(S) /\ Len(day.articles) \in Nat \ {0}
    /\ DOMAIN day.articles = 1..Len(day.articles)
    /\ ToSet(day.articles) = OfDate(S, day.date)
    /\ \A x, y \in 1..Len(day.articles) : x # y => day.articles[x] # day.articles[y]
    /\ day.updated \in Int
    /\ \E a \in ToSet(day.articles) : day.updated = a.updated
    /\ \A a \in ToSet(day.articles) : a.updated \in Int /\ a.updated <= day.updated

ShelfHolds(dated, S) ==
    \E n \in Nat :
    /\ DOMAIN dated = 1..n
    /\ \A i \in 1..n : DayHolds(dated[i], S)
    /\ \A d \in DaysHeld(S) : \E i \in 1..n : dated[i].date = d
    /\ \A i, j \in 1..n : i # j => dated[i].date # dated[j].date
    /\ n = 0 => dated = <<>>

\* The day that an article comes under is a number.
LEMMA DateIsANumber ==
    ASSUME NEW a \in SampleArticles
    PROVE  opdsDate(a) \in Int /\ a.id \in Int /\ a.updated \in Int /\ a.day \in Int
<1>1. /\ a.id \in Int /\ a.updated \in Int /\ a.day \in Int
      /\ a.clipped \in Int /\ a.created \in Int /\ a.published \in Int
    BY ListsAssumption DEF StoredOK
<1>2. \A p \in Int : calendarDateOf(p) \in Int
    <2> SUFFICES ASSUME NEW p \in Int PROVE calendarDateOf(p) \in Int
        OBVIOUS
    <2>1. p >= p
        OBVIOUS
    <2> QED BY <2>1, LaterIsNotEarlier
<1>3. opdsClipCalendarDate(a) \in Int /\ opdsEbookCalendarDate(a) \in Int
    BY <1>1, <1>2 DEF opdsClipCalendarDate, opdsEbookCalendarDate
<1> QED BY <1>1, <1>3 DEF opdsDate

\* What is of one day, the newest first.
LEMMA NewestFirst ==
    ASSUME NEW S, Some(S, SampleArticles), NEW T \in SUBSET S
    PROVE  LET q == ByKey(T, [a \in T |-> <<a.updated, a.id>>])
           IN  /\ q \in Seq(T) /\ Len(q) = Cardinality(T) /\ Cardinality(T) \in Nat
               /\ DOMAIN q = 1..Cardinality(T)
               /\ ToSet(q) = T
               /\ \A x, y \in 1..Cardinality(T) : x # y => q[x] # q[y]
               /\ T # {} => /\ Cardinality(T) # 0
                            /\ q[1] \in T
                            /\ \A a \in T : a.updated <= q[1].updated
<1> DEFINE key == [a \in T |-> <<a.updated, a.id>>]
           q == ByKey(T, key)
           n == Cardinality(T)
<1>1. /\ IsFiniteSet(T) /\ T \subseteq SampleArticles
      /\ \A c, d \in T : c.id = d.id => c = d
    BY FS_Subset DEF Some
<1>2. \A a \in T : a.updated \in Int /\ a.id \in Int
    BY <1>1, DateIsANumber
<1>3. Keys(T, key, 2)
    <2>1. \A a \in T : <<a.updated, a.id>> \in [1..2 -> Int] /\ <<a.updated, a.id>>[2] = a.id
        BY <1>2
    <2>2. key \in [T -> [1..2 -> Int]]
        BY <2>1
    <2>3. \A c, d \in T : key[c] = key[d] => c = d
        BY <2>1, <1>1
    <2> QED BY <2>2, <2>3 DEF Keys
<1>4. \A a \in T : key[a] \in [1..2 -> Int] /\ key[a][1] = a.updated
    BY <1>2
<1> HIDE DEF key
<1>5. /\ Lists(q, T, ByKeys(T, key)) /\ StrictOrder(T, ByKeys(T, key))
      /\ \A c, d \in T : <<c, d>> \in ByKeys(T, key) <=> Before(key[c], key[d])
    BY <1>1, <1>3, KeysList
<1> HIDE DEF q
<1>6. /\ q \in Seq(T) /\ Len(q) = n /\ n \in Nat /\ DOMAIN q = 1..n /\ ToSet(q) = T
      /\ \A x, y \in 1..n : x # y => q[x] # q[y]
    BY <1>1, <1>5, ListsEach
<1> HIDE DEF n
<1>7. ASSUME T # {}
      PROVE  n # 0 /\ q[1] \in T /\ \A a \in T : a.updated <= q[1].updated
    <2>1. \A a \in T : \E i \in 1..n : q[i] = a
        BY <1>5 DEF Lists, n
    <2>2. n # 0 /\ 1 \in 1..n
        BY <1>7, <2>1, <1>6
    <2>3. q[1] \in T
        BY <2>2, <1>6, ElementOfSeq
    <2>4. ASSUME NEW a \in T PROVE a.updated <= q[1].updated
        <3>1. PICK i \in 1..n : q[i] = a
            BY <2>1
        <3>2. CASE i = 1
            <4>1. a.updated \in Int /\ a.updated = q[1].updated
                BY <3>1, <3>2, <1>2
            <4> QED BY <4>1
        <3>3. CASE i # 1
            <4>1. 1 < i
                BY <3>3, <1>6
            <4>2. <<q[1], a>> \in ByKeys(T, key)
                BY <4>1, <3>1, <2>2, <1>5 DEF Lists, n
            <4>3. Before(key[q[1]], key[a])
                BY <4>2, <2>3, <1>5
            <4>4. key[q[1]][1] >= key[a][1]
                <5>1. key[q[1]] \in [1..2 -> Int] /\ key[a] \in [1..2 -> Int] /\ 2 \in Nat \ {0}
                    BY <2>3, <1>4
                <5> QED BY <5>1, <4>3, FirstKeyDecides
            <4>5. q[1].updated >= a.updated /\ q[1].updated \in Int /\ a.updated \in Int
                BY <4>4, <2>3, <1>2, <1>4
            <4> QED BY <4>5
        <3> QED BY <3>2, <3>3
    <2> QED BY <2>2, <2>3, <2>4
<1> QED BY <1>6, <1>7 DEF q, key, n

\* A shelf has its days, each with what is of it, the newest first.
LEMMA DaysAreListed ==
    ASSUME NEW S, Some(S, SampleArticles)
    PROVE  ShelfHolds(toDated(S), S)
<1> DEFINE days == DaysHeld(S)
           key == [d \in days |-> <<d>>]
           dates == ByKey(days, key)
           T(d) == OfDate(S, d)
           ofDay(d) == ByKey(T(d), [a \in T(d) |-> <<a.updated, a.id>>])
           n == Cardinality(days)
           dated == toDated(S)
           Entry(d) == [date |-> d, updated |-> ofDay(d)[1].updated, articles |-> ofDay(d)]
<1>1. dated = [i \in DOMAIN dates |-> Entry(dates[i])]
    BY DEF toDated, Sorted, DaysHeld, OfDate
<1> HIDE DEF dated
<1>2. IsFiniteSet(S) /\ S \subseteq SampleArticles
    BY DEF Some
<1>3. IsFiniteSet(days) /\ days \subseteq Int
    <2> DEFINE f == [a \in S |-> opdsDate(a)]
    <2>1. IsFiniteSet({f[a] : a \in S})
        <3>1. S \subseteq DOMAIN f
            OBVIOUS
        <3> HIDE DEF f
        <3> QED BY <3>1, <1>2, FiniteValues
    <2>2. days \subseteq {f[a] : a \in S}
        BY DEF DaysHeld
    <2>3. days \subseteq Int
        BY <1>2, DateIsANumber DEF DaysHeld
    <2> HIDE DEF f, days
    <2> QED BY <2>1, <2>2, <2>3, FS_Subset
<1>4. \A d \in days : T(d) # {} /\ T(d) \in SUBSET S
    BY DEF DaysHeld, OfDate
<1> HIDE DEF days
<1>5. Keys(days, key, 1)
    <2>1. \A d \in days : <<d>> \in [1..1 -> Int] /\ <<d>>[1] = d
        BY <1>3
    <2> QED BY <2>1 DEF Keys
<1> HIDE DEF key
<1>6. /\ dates \in Seq(days) /\ Len(dates) = n /\ n \in Nat /\ DOMAIN dates = 1..n
      /\ \A i, j \in 1..n : i # j => dates[i] # dates[j]
      /\ \A d \in days : \E i \in 1..n : dates[i] = d
    <2>1. Lists(dates, days, ByKeys(days, key)) /\ StrictOrder(days, ByKeys(days, key))
        BY <1>3, <1>5, KeysList
    <2>2. \A d \in days : \E i \in 1..n : dates[i] = d
        BY <2>1 DEF Lists
    <2> HIDE DEF dates
    <2> QED BY <2>1, <2>2, <1>3, ListsEach
<1> HIDE DEF dates, n
<1>7. ASSUME NEW d \in days PROVE DayHolds(Entry(d), S)
    <2> DEFINE q == ofDay(d)
               m == Cardinality(T(d))
    <2>1. /\ q \in Seq(T(d)) /\ Len(q) = m /\ m \in Nat /\ DOMAIN q = 1..m /\ ToSet(q) = T(d)
          /\ \A x, y \in 1..m : x # y => q[x] # q[y]
          /\ T(d) # {} => /\ m # 0 /\ q[1] \in T(d)
                          /\ \A a \in T(d) : a.updated <= q[1].updated
        <3>1. T(d) \in SUBSET S
            BY <1>4
        <3> HIDE DEF T
        <3> QED BY <3>1, NewestFirst
    <2> HIDE DEF q, m
    <2>2. Entry(d).date = d /\ Entry(d).updated = q[1].updated /\ Entry(d).articles = q
        BY DEF q
    <2> DEFINE e == Entry(d)
    <2> HIDE DEF e
    <2>3. e.date = d /\ e.updated = q[1].updated /\ e.articles = q
        BY <2>2 DEF e
    <2>4. \A a \in T(d) : a.updated \in Int
        BY <1>2, <1>4, DateIsANumber
    <2>5. q \in Seq(S)
        BY <2>1, <1>4
    <2>6. m \in Nat \ {0} /\ q[1] \in ToSet(q) /\ \A a \in ToSet(q) : a.updated \in Int /\ a.updated <= q[1].updated
        BY <2>1, <2>4, <1>4
    <2>7. ToSet(q) = OfDate(S, d)
        BY <2>1
    <2> HIDE DEF T, ofDay
    <2>8. DayHolds(e, S)
        BY <2>1, <2>3, <2>5, <2>6, <2>7 DEF DayHolds, days
    <2> QED BY <2>8 DEF e
<1>8. \A d : Entry(d).date = d
    OBVIOUS
<1> HIDE DEF Entry
<1>9. DOMAIN dated = 1..n /\ \A i \in 1..n : dated[i] = Entry(dates[i]) /\ dates[i] \in days
    <2>1. \A i \in 1..n : dates[i] \in days
        BY <1>6, ElementOfSeq
    <2> QED BY <2>1, <1>1, <1>6
<1>10. \A i \in 1..n : DayHolds(dated[i], S) /\ dated[i].date = dates[i]
    BY <1>7, <1>8, <1>9
<1>11. n = 0 => dated = <<>>
    <2> SUFFICES ASSUME n = 0 PROVE dated = <<>>
        OBVIOUS
    <2>1. dated = [i \in {} |-> Entry(dates[i])]
        BY <1>1, <1>6
    <2> QED BY <2>1
<1>12. \A d \in days : \E i \in 1..n : dated[i].date = d
    BY <1>6, <1>10
<1>13. \A i, j \in 1..n : i # j => dated[i].date # dated[j].date
    BY <1>6, <1>10
<1>14. ShelfHolds(dated, S)
    BY <1>6, <1>9, <1>10, <1>11, <1>12, <1>13 DEF ShelfHolds, days
<1> QED BY <1>14 DEF dated

\* What is no less than any is the greatest.
LEMMA GreatestIs ==
    ASSUME NEW S, S \subseteq Int, NEW g \in S, \A x \in S : x <= g
    PROVE  Greatest(S) = g
<1>1. Greatest(S) \in S /\ \A x \in S : x <= Greatest(S)
    BY DEF Greatest
<1>2. Greatest(S) \in Int /\ g \in Int /\ g <= Greatest(S) /\ Greatest(S) <= g
    BY <1>1
<1> QED BY <1>2

\* The stamp of a day is that of its newest article.
LEMMA DayHasNewestStamp ==
    ASSUME NEW day, NEW S, DayHolds(day, S)
    PROVE  Greatest({a.updated : a \in ToSet(day.articles)}) = day.updated
<1> DEFINE U == {a.updated : a \in ToSet(day.articles)}
<1>1. U \subseteq Int /\ day.updated \in U /\ \A u \in U : u <= day.updated
    BY DEF DayHolds
<1> HIDE DEF U
<1>2. Greatest(U) = day.updated
    BY <1>1, GreatestIs
<1> QED BY <1>2 DEF U

\* The stamp of a shelf is no older than that of any day.
LEMMA ShelfHasNewestStamp ==
    ASSUME NEW dated, NEW S, ShelfHolds(dated, S), dated # <<>>
    PROVE  /\ maxUpdated(dated) \in Int
           /\ \A i \in DOMAIN dated : dated[i].updated \in Int /\ dated[i].updated <= maxUpdated(dated)
<1>1. PICK n \in Nat : /\ DOMAIN dated = 1..n
                       /\ \A i \in 1..n : DayHolds(dated[i], S)
                       /\ n = 0 => dated = <<>>
    BY DEF ShelfHolds
<1> DEFINE U == {dated[i].updated : i \in DOMAIN dated}
           f == [i \in 1..n |-> dated[i].updated]
<1>2. \A i \in DOMAIN dated : dated[i].updated \in Int
    BY <1>1 DEF DayHolds
<1>3. IsFiniteSet(U)
    <2>1. IsFiniteSet(1..n)
        BY <1>1, FS_Interval
    <2>2. IsFiniteSet({f[i] : i \in 1..n})
        <3>1. 1..n \subseteq DOMAIN f
            OBVIOUS
        <3> HIDE DEF f
        <3> QED BY <2>1, <3>1, FiniteValues
    <2>3. U = {f[i] : i \in 1..n}
        BY <1>1
    <2> QED BY <2>2, <2>3
<1>4. U \subseteq Int
    BY <1>2
<1>5. U # {}
    <2>1. 1 \in DOMAIN dated
        BY <1>1
    <2> QED BY <2>1
<1>6. \A i \in DOMAIN dated : dated[i].updated \in U
    OBVIOUS
<1>7. maxUpdated(dated) = Greatest(U)
    BY DEF maxUpdated
<1> HIDE DEF U
<1>8. Greatest(U) \in U /\ \A x \in U : x <= Greatest(U)
    BY <1>3, <1>4, <1>5, GreatestOfFinite
<1> QED BY <1>2, <1>4, <1>6, <1>7, <1>8

\* Of an issue that came again, the catalogue has the last one.
LEMMA OneDaily ==
    ASSUME NEW A, Some(A, SampleArticles)
    PROVE  LET D == groupOpdsArticles(A).daily
           IN  /\ D \subseteq A /\ IsFiniteSet(D)
               /\ Len(SetToSeq(D)) <= 1 /\ ToSet(SetToSeq(D)) = D
               /\ \A a \in A : a.bucket = "daily" => \E b \in D : b.day >= a.day
<1> DEFINE D == groupOpdsArticles(A).daily
           T == {a \in A : a.bucket = "daily"}
           key == [a \in T |-> <<a.day, a.updated, a.id>>]
           q == ByKey(T, key)
           n == Cardinality(T)
<1>1. D = {a \in A : a.bucket = "daily" /\ \A b \in A : b.bucket = "daily" => ~isNewerDaily(b, a)}
    BY DEF groupOpdsArticles
<1>2. D = {a \in T : \A b \in T : ~isNewerDaily(b, a)}
    BY <1>1
<1> HIDE DEF D
<1>3. /\ IsFiniteSet(T) /\ T \subseteq SampleArticles
      /\ \A c, d \in T : c.id = d.id => c = d
    BY FS_Subset DEF Some
<1>4. \A a \in A : a.bucket = "daily" <=> a \in T
    OBVIOUS
<1>5. T \subseteq A /\ IsFiniteSet(A)
    BY DEF Some
<1> HIDE DEF T
<1>6. \A a \in T : a.day \in Int /\ a.updated \in Int /\ a.id \in Int
    BY <1>3, DateIsANumber
<1>7. \A a \in T : /\ <<a.day, a.updated, a.id>> \in [1..3 -> Int]
                   /\ <<a.day, a.updated, a.id>>[1] = a.day
                   /\ <<a.day, a.updated, a.id>>[3] = a.id
    BY <1>6
<1>8. Keys(T, key, 3)
    <2>1. key \in [T -> [1..3 -> Int]]
        BY <1>7
    <2>2. \A c, d \in T : key[c] = key[d] => c = d
        BY <1>7, <1>3
    <2> QED BY <2>1, <2>2 DEF Keys
<1>9. \A a \in T : key[a] = <<a.day, a.updated, a.id>>
    OBVIOUS
<1> HIDE DEF key
<1>10. /\ Lists(q, T, ByKeys(T, key)) /\ StrictOrder(T, ByKeys(T, key))
       /\ \A c, d \in T : <<c, d>> \in ByKeys(T, key) <=> Before(key[c], key[d])
    BY <1>3, <1>8, KeysList
<1>11. ASSUME NEW c \in T, NEW d \in T
       PROVE  isNewerDaily(c, d) <=> Before(<<c.day, c.updated, c.id>>, <<d.day, d.updated, d.id>>)
    <2> DEFINE s == <<c.day, c.updated, c.id>>
               t == <<d.day, d.updated, d.id>>
               u == <<c.updated, c.id>>
               v == <<d.updated, d.id>>
    <2>1. /\ s[1] = c.day /\ s[2] = u[1] /\ s[3] = u[2]
          /\ t[1] = d.day /\ t[2] = v[1] /\ t[3] = v[2]
          /\ DOMAIN s = 1..3 /\ DOMAIN u = 1..2
          /\ s[1] \in Int /\ s[2] \in Int /\ s[3] \in Int
          /\ t[1] \in Int /\ t[2] \in Int /\ t[3] \in Int
        BY <1>6
    <2>2. isNewerDaily(c, d) <=> IF c.day # d.day THEN c.day > d.day ELSE Before(u, v)
        BY DEF isNewerDaily, compareUpdatedDesc
    <2> HIDE DEF s, t, u, v
    <2>3. \A k \in 1..3 : k = 1 \/ k = 2 \/ k = 3
        OBVIOUS
    <2>4. Before(u, v) <=> u[1] > v[1] \/ (u[1] = v[1] /\ u[2] > v[2])
        <3>1. \A k \in 1..2 : k = 1 \/ k = 2
            OBVIOUS
        <3>2. 1 \in DOMAIN u /\ 2 \in DOMAIN u /\ 1..(1 - 1) = {} /\ 1..(2 - 1) = {1}
            BY <2>1
        <3>3. Before(u, v) <=> \E i \in DOMAIN u : u[i] > v[i] /\ \A j \in 1..(i - 1) : u[j] = v[j]
            BY DEF Before
        <3> QED BY <3>1, <3>2, <3>3, <2>1
    <2>5. Before(s, t) <=> \/ s[1] > t[1]
                           \/ s[1] = t[1] /\ s[2] > t[2]
                           \/ s[1] = t[1] /\ s[2] = t[2] /\ s[3] > t[3]
        <3>1. /\ 1 \in DOMAIN s /\ 2 \in DOMAIN s /\ 3 \in DOMAIN s
              /\ 1..(1 - 1) = {} /\ 1..(2 - 1) = {1} /\ 1..(3 - 1) = {1, 2}
            BY <2>1
        <3>2. Before(s, t) <=> \E i \in DOMAIN s : s[i] > t[i] /\ \A j \in 1..(i - 1) : s[j] = t[j]
            BY DEF Before
        <3> QED BY <3>1, <3>2, <2>1, <2>3
    <2>6. isNewerDaily(c, d) <=> Before(s, t)
        BY <2>1, <2>2, <2>4, <2>5
    <2> QED BY <2>6 DEF s, t
<1>12. \A c, d \in T : isNewerDaily(c, d) <=> <<c, d>> \in ByKeys(T, key)
    BY <1>9, <1>10, <1>11
<1> HIDE DEF q
<1>13. /\ n \in Nat /\ q \in [1..n -> T]
       /\ \A c \in T : \E i \in 1..n : q[i] = c
       /\ \A i, j \in 1..n : i < j => <<q[i], q[j]>> \in ByKeys(T, key)
    BY <1>3, <1>10, FS_CardinalityType DEF Lists
<1>14. /\ \A c \in T : <<c, c>> \notin ByKeys(T, key)
       /\ \A c, d \in T : <<c, d>> \in ByKeys(T, key) => <<d, c>> \notin ByKeys(T, key)
    <2>1. \A c \in T : <<c, c>> \notin ByKeys(T, key)
        BY <1>10 DEF StrictOrder
    <2>2. \A c, d \in T : <<c, d>> \in ByKeys(T, key) /\ <<d, c>> \in ByKeys(T, key)
                             => <<c, c>> \in ByKeys(T, key)
        BY <1>10 DEF StrictOrder
    <2> QED BY <2>1, <2>2
<1> HIDE DEF n
<1>15. CASE n = 0
    <2>1. T = {}
        BY <1>13, <1>15
    <2>2. D = {} /\ IsFiniteSet(D)
        BY <2>1, <1>2, FS_EmptySet
    <2>3. Cardinality(D) = 0
        BY <2>2, FS_EmptySet
    <2>4. SetToSeq(D) \in [1..0 -> D]
        <3> DEFINE f == [i \in 1..0 |-> CHOOSE d \in D : TRUE]
        <3>1. f \in [1..0 -> D] /\ \A i, j \in DOMAIN f : f[i] = f[j] => i = j
            OBVIOUS
        <3>2. f \in [1..Cardinality(D) -> D] /\ IsInjective(f)
            BY <3>1, <2>3 DEF IsInjective
        <3> HIDE DEF f
        <3>3. SetToSeq(D) \in [1..Cardinality(D) -> D]
            BY <3>2 DEF SetToSeq
        <3> QED BY <3>3, <2>3
    <2> DEFINE r == SetToSeq(D)
    <2>5. Len(r) = 0 /\ DOMAIN r = {}
        <3>1. r \in [1..0 -> D]
            BY <2>4
        <3> HIDE DEF r
        <3> QED BY <3>1
    <2>6. ToSet(SetToSeq(D)) = {}
        BY <2>5 DEF ToSet
    <2> QED BY <2>1, <2>2, <2>5, <2>6, <1>4 DEF D
<1>16. CASE n # 0
    <2> DEFINE b == q[1]
    <2>1. 1 \in 1..n /\ b \in T
        BY <1>13, <1>16
    <2>2. \A a \in T : a = b \/ <<b, a>> \in ByKeys(T, key)
        <3> SUFFICES ASSUME NEW a \in T PROVE a = b \/ <<b, a>> \in ByKeys(T, key)
            OBVIOUS
        <3>1. PICK i \in 1..n : q[i] = a
            BY <1>13
        <3>2. i = 1 \/ 1 < i
            BY <1>13
        <3> QED BY <3>1, <3>2, <2>1, <1>13
    <2> HIDE DEF b
    <2>3. D = {b}
        <3>1. \A a \in T : ~isNewerDaily(a, b)
            BY <2>1, <2>2, <1>12, <1>14
        <3>2. b \in D
            BY <3>1, <2>1, <1>2
        <3>3. \A a \in D : a \in T /\ ~isNewerDaily(b, a)
            BY <2>1, <1>2
        <3>4. \A a \in D : a = b
            BY <3>3, <2>1, <2>2, <1>12
        <3> QED BY <3>2, <3>4
    <2>4. IsFiniteSet(D) /\ Cardinality(D) = 1
        BY <2>3, FS_Singleton
    <2>5. SetToSeq(D) \in [1..1 -> D]
        <3> DEFINE f == [i \in 1..1 |-> b]
        <3>1. f \in [1..1 -> D] /\ \A i, j \in DOMAIN f : f[i] = f[j] => i = j
            BY <2>3
        <3>2. f \in [1..Cardinality(D) -> D] /\ IsInjective(f)
            BY <3>1, <2>4 DEF IsInjective
        <3> HIDE DEF f
        <3>3. SetToSeq(D) \in [1..Cardinality(D) -> D]
            BY <3>2 DEF SetToSeq
        <3> QED BY <3>3, <2>4
    <2> DEFINE r == SetToSeq(D)
    <2>6. Len(r) = 1 /\ DOMAIN r = {1} /\ r[1] = b
        <3>1. r \in [1..1 -> D]
            BY <2>5
        <3> HIDE DEF r
        <3> QED BY <3>1, <2>3
    <2>7. ToSet(SetToSeq(D)) = {b}
        BY <2>6 DEF ToSet
    <2>8. ASSUME NEW a \in T PROVE b.day >= a.day
        <3>1. CASE a = b
            <4>1. a.day \in Int
                BY <1>6
            <4> QED BY <3>1, <4>1
        <3>2. CASE <<b, a>> \in ByKeys(T, key)
            <4>1. isNewerDaily(b, a)
                BY <3>2, <2>1, <1>12
            <4>2. b.day \in Int /\ a.day \in Int
                BY <2>1, <1>6
            <4> QED BY <4>1, <4>2 DEF isNewerDaily
        <3> QED BY <2>2, <3>1, <3>2
    <2>9. Len(SetToSeq(D)) <= 1 /\ D \subseteq A
        BY <2>6, <2>1, <2>3, <1>5
    <2> QED BY <2>1, <2>3, <2>4, <2>7, <2>8, <2>9, <1>4 DEF D
<1> QED BY <1>15, <1>16

OnShelf(A, s) == {a \in A : a.bucket = s}

\* Where a day of a shelf, and a shelf, are found.
PageOf(s, d) == Location("date", s, d)
FrontOf(s) == Location("shelf", s, Unreadable)

\* The feeds that the catalogue has at its locations.
LEMMA FeedsAre ==
    ASSUME NEW A, Some(A, SampleArticles)
    PROVE  LET G == groupOpdsArticles(A)
           IN  /\ buildOpdsCatalog(A, RootLocation, 99) = rootFeed(G, 99)
               /\ \A s \in {"clip", "ebook"} :
                    /\ ShelfHolds(G[s], OnShelf(A, s))
                    /\ G[s] # <<>> => buildOpdsCatalog(A, FrontOf(s), 99) = shelfFeed(s, G[s])
                    /\ \A i \in DOMAIN G[s] :
                          buildOpdsCatalog(A, PageOf(s, G[s][i].date), 99) = dateFeed(G[s][i])
<1> DEFINE G == groupOpdsArticles(A)
<1>1. \A s \in {"clip", "ebook"} : G[s] = toDated(OnShelf(A, s))
    <2>1. G["clip"] = toDated({a \in A : a.bucket = "clip"})
        BY DEF groupOpdsArticles
    <2>2. G["ebook"] = toDated({a \in A : a.bucket = "ebook"})
        BY DEF groupOpdsArticles
    <2> HIDE DEF G
    <2>3. \A s \in {"clip", "ebook"} : s = "clip" \/ s = "ebook"
        OBVIOUS
    <2> QED BY <2>1, <2>2, <2>3 DEF OnShelf
<1>2. ASSUME NEW s \in {"clip", "ebook"} PROVE ShelfHolds(G[s], OnShelf(A, s))
    <2>1. Some(OnShelf(A, s), SampleArticles)
        BY FS_Subset DEF Some, OnShelf
    <2>2. ShelfHolds(toDated(OnShelf(A, s)), OnShelf(A, s))
        BY <2>1, DaysAreListed
    <2> QED BY <2>2, <1>1
<1> DEFINE D(l) == {i \in DOMAIN G[l.shelf] : G[l.shelf][i].date = l.date}
<1>3. \A l : buildOpdsCatalog(A, l, 99) =
          IF l.kind = "root" THEN rootFeed(G, 99)
          ELSE CASE l.kind = "shelf" /\ G[l.shelf] # <<>> -> shelfFeed(l.shelf, G[l.shelf])
                 [] l.kind = "date" /\ D(l) # {} -> dateFeed(G[l.shelf][CHOOSE i \in D(l) : TRUE])
                 [] OTHER -> NoFeed
    BY DEF buildOpdsCatalog
<1>7. \A l : D(l) = {i \in DOMAIN G[l.shelf] : G[l.shelf][i].date = l.date}
    OBVIOUS
<1> HIDE DEF D
<1> HIDE DEF G
<1>4. buildOpdsCatalog(A, RootLocation, 99) = rootFeed(G, 99)
    <2>1. RootLocation.kind = "root"
        BY DEF RootLocation, Location
    <2> QED BY <2>1, <1>3
<1>5. ASSUME NEW s \in {"clip", "ebook"}, G[s] # <<>>
      PROVE  buildOpdsCatalog(A, FrontOf(s), 99) = shelfFeed(s, G[s])
    <2>1. FrontOf(s).kind = "shelf" /\ FrontOf(s).shelf = s
        BY DEF FrontOf, Location
    <2> QED BY <2>1, <1>3, <1>5
<1>6. ASSUME NEW s \in {"clip", "ebook"}, NEW i \in DOMAIN G[s]
      PROVE  buildOpdsCatalog(A, PageOf(s, G[s][i].date), 99) = dateFeed(G[s][i])
    <2> DEFINE l == PageOf(s, G[s][i].date)
    <2>1. l.kind = "date" /\ l.shelf = s /\ l.date = G[s][i].date
        BY DEF PageOf, Location
    <2> HIDE DEF l
    <2>2. D(l) = {i}
        BY <2>1, <1>2, <1>7 DEF ShelfHolds
    <2>3. (CHOOSE k \in D(l) : TRUE) = i
        BY <2>2
    <2>4. D(l) # {} /\ l.kind # "root" /\ l.kind # "shelf"
        BY <2>1, <2>2
    <2>5. buildOpdsCatalog(A, l, 99) = dateFeed(G[l.shelf][CHOOSE k \in D(l) : TRUE])
        BY <2>1, <2>4, <1>3
    <2> QED BY <2>1, <2>3, <2>5 DEF l
<1> QED BY <1>2, <1>4, <1>5, <1>6 DEF G

\* Every article is in the catalogue once, under stamps that tell of the newest.
LEMMA CatalogueHoldsEach ==
    ASSUME Some(sample.articles, SampleArticles)
    PROVE  CatalogueCovers([l \in Locations |-> buildOpdsCatalog(sample.articles, l, 99)])
<1> DEFINE A == sample.articles
           G == groupOpdsArticles(A)
           feedAt == [l \in Locations |-> buildOpdsCatalog(A, l, 99)]
           Sh == {s \in {"clip", "ebook"} : G[s] # <<>>}
           root == feedAt[RootLocation]
           LinksOf(l) == {link.to : link \in feedAt[l].links}
           shelves == LinksOf(RootLocation)
           dates == UNION {LinksOf(s) : s \in shelves}
           Places(a) == UNION {{<<d, i>> : i \in {n \in DOMAIN feedAt[d].articles :
                                  feedAt[d].articles[n] = a}} : d \in dates}
           NewestIn(d) == Greatest({a.updated : a \in ToSet(feedAt[d].articles)})
           stamps == {maxUpdated(G[s]) : s \in Sh} \union {a.updated : a \in G.daily}
<1>1. /\ buildOpdsCatalog(A, RootLocation, 99) = rootFeed(G, 99)
      /\ \A s \in {"clip", "ebook"} :
           /\ ShelfHolds(G[s], OnShelf(A, s))
           /\ G[s] # <<>> => buildOpdsCatalog(A, FrontOf(s), 99) = shelfFeed(s, G[s])
           /\ \A i \in DOMAIN G[s] :
                 buildOpdsCatalog(A, PageOf(s, G[s][i].date), 99) = dateFeed(G[s][i])
    BY FeedsAre
<1>2. /\ G.daily \subseteq A /\ IsFiniteSet(G.daily)
      /\ Len(SetToSeq(G.daily)) <= 1 /\ ToSet(SetToSeq(G.daily)) = G.daily
      /\ \A a \in A : a.bucket = "daily" => \E b \in G.daily : b.day >= a.day
    BY OneDaily
<1>3. A \subseteq SampleArticles /\ IsFiniteSet(A)
    BY DEF Some
<1> HIDE DEF G
<1>4. /\ Sh \subseteq {"clip", "ebook"}
      /\ \A s \in Sh : G[s] # <<>>
      /\ \A s \in {"clip", "ebook"} : \A i \in DOMAIN G[s] : s \in Sh
    <2>1. DOMAIN <<>> = {}
        OBVIOUS
    <2> QED BY <2>1
<1> DEFINE Day(s, i) == DayHolds(G[s][i], OnShelf(A, s))
<1>5. \A s \in {"clip", "ebook"} :
        /\ \A i \in DOMAIN G[s] : Day(s, i)
        /\ \A d \in DaysHeld(OnShelf(A, s)) : \E i \in DOMAIN G[s] : G[s][i].date = d
        /\ \A i, j \in DOMAIN G[s] : i # j => G[s][i].date # G[s][j].date
    <2> SUFFICES ASSUME NEW s \in {"clip", "ebook"}
                 PROVE /\ \A i \in DOMAIN G[s] : Day(s, i)
                       /\ \A d \in DaysHeld(OnShelf(A, s)) : \E i \in DOMAIN G[s] : G[s][i].date = d
                       /\ \A i, j \in DOMAIN G[s] : i # j => G[s][i].date # G[s][j].date
        OBVIOUS
    <2>1. ShelfHolds(G[s], OnShelf(A, s))
        BY <1>1
    <2> QED BY <2>1 DEF ShelfHolds
<1>6. /\ RootLocation \in Locations
      /\ \A s \in Sh : FrontOf(s) \in Locations
      /\ \A s \in Sh : \A i \in DOMAIN G[s] : PageOf(s, G[s][i].date) \in Locations
    <2>1. RootLocation \in Locations
        BY DEF Locations
    <2>2. ASSUME NEW s \in Sh PROVE FrontOf(s) \in Locations
        BY <1>4 DEF Locations, FrontOf, Location
    <2>3. ASSUME NEW s \in Sh, NEW i \in DOMAIN G[s] PROVE PageOf(s, G[s][i].date) \in Locations
        <3>1. G[s][i].date \in DaysHeld(OnShelf(A, s))
            BY <1>4, <1>5 DEF DayHolds
        <3>2. G[s][i].date \in {opdsDate(a) : a \in A}
            BY <3>1 DEF DaysHeld, OnShelf
        <3> QED BY <3>2, <1>4 DEF Locations, PageOf, Location
    <2> QED BY <2>1, <2>2, <2>3
<1>7. /\ root = rootFeed(G, 99)
      /\ \A s \in Sh : feedAt[FrontOf(s)] = shelfFeed(s, G[s])
      /\ \A s \in Sh : \A i \in DOMAIN G[s] : feedAt[PageOf(s, G[s][i].date)] = dateFeed(G[s][i])
      /\ DOMAIN feedAt = Locations
    BY <1>1, <1>4, <1>6
<1> HIDE DEF feedAt
<1>8. /\ root.links = {[to |-> FrontOf(s), updated |-> maxUpdated(G[s])] : s \in Sh}
      /\ root.articles = SetToSeq(G.daily)
      /\ root.updated = IF stamps = {} THEN 99 ELSE Greatest(stamps)
    BY <1>7 DEF rootFeed, Feed, FrontOf
<1>9. \A s \in Sh :
        /\ feedAt[FrontOf(s)].links =
             {[to |-> PageOf(s, G[s][i].date), updated |-> G[s][i].updated] : i \in DOMAIN G[s]}
        /\ feedAt[FrontOf(s)].updated = maxUpdated(G[s])
    <2>1. ASSUME NEW s, NEW dated
          PROVE  /\ shelfFeed(s, dated).links =
                      {[to |-> PageOf(s, dated[i].date), updated |-> dated[i].updated] : i \in DOMAIN dated}
                 /\ shelfFeed(s, dated).updated = maxUpdated(dated)
        BY DEF shelfFeed, Feed, PageOf
    <2> SUFFICES ASSUME NEW s \in Sh
                 PROVE  /\ feedAt[FrontOf(s)].links =
                            {[to |-> PageOf(s, G[s][i].date), updated |-> G[s][i].updated] : i \in DOMAIN G[s]}
                        /\ feedAt[FrontOf(s)].updated = maxUpdated(G[s])
        OBVIOUS
    <2>2. feedAt[FrontOf(s)] = shelfFeed(s, G[s])
        BY <1>7
    <2> HIDE DEF Sh
    <2> QED BY <2>1, <2>2
<1>10. \A s \in Sh : \A i \in DOMAIN G[s] :
         /\ feedAt[PageOf(s, G[s][i].date)].articles = G[s][i].articles
         /\ feedAt[PageOf(s, G[s][i].date)].updated = G[s][i].updated
    <2>1. \A day : dateFeed(day).articles = day.articles /\ dateFeed(day).updated = day.updated
        BY DEF dateFeed, Feed
    <2> HIDE DEF Sh
    <2> QED BY <2>1, <1>7
<1>11. shelves = {FrontOf(s) : s \in Sh}
    <2>1. \A s \in Sh : [to |-> FrontOf(s), updated |-> maxUpdated(G[s])].to = FrontOf(s)
        OBVIOUS
    <2> HIDE DEF root
    <2>2. shelves = {link.to : link \in root.links}
        BY DEF root
    <2> HIDE DEF shelves, Sh
    <2>3. ASSUME NEW s \in Sh PROVE FrontOf(s) \in shelves
        <3>1. [to |-> FrontOf(s), updated |-> maxUpdated(G[s])] \in root.links
            BY <1>8
        <3> QED BY <3>1, <2>1, <2>2
    <2>4. ASSUME NEW l \in shelves PROVE \E s \in Sh : l = FrontOf(s)
        <3>1. PICK link \in root.links : l = link.to
            BY <2>2
        <3>2. PICK s \in Sh : link = [to |-> FrontOf(s), updated |-> maxUpdated(G[s])]
            BY <1>8
        <3> QED BY <3>1, <3>2, <2>1
    <2> QED BY <2>3, <2>4
<1>12. \A s \in Sh : \A d : d \in LinksOf(FrontOf(s)) <=> \E i \in DOMAIN G[s] : d = PageOf(s, G[s][i].date)
    <2> SUFFICES ASSUME NEW s \in Sh
                 PROVE  \A d : d \in LinksOf(FrontOf(s)) <=> \E i \in DOMAIN G[s] : d = PageOf(s, G[s][i].date)
        OBVIOUS
    <2>1. \A i \in DOMAIN G[s] :
            [to |-> PageOf(s, G[s][i].date), updated |-> G[s][i].updated].to = PageOf(s, G[s][i].date)
        OBVIOUS
    <2> HIDE DEF Sh
    <2> QED BY <2>1, <1>9
<1> HIDE DEF shelves, LinksOf
<1>13. \A d : d \in dates <=> \E s \in Sh : \E i \in DOMAIN G[s] : d = PageOf(s, G[s][i].date)
    <2> HIDE DEF Sh
    <2>1. \A d : d \in dates <=> \E l \in shelves : d \in LinksOf(l)
        OBVIOUS
    <2>2. \A d : d \in dates <=> \E s \in Sh : d \in LinksOf(FrontOf(s))
        BY <2>1, <1>11
    <2> HIDE DEF dates
    <2>3. ASSUME NEW d \in dates
          PROVE  \E s \in Sh : \E i \in DOMAIN G[s] : d = PageOf(s, G[s][i].date)
        <3>1. PICK s \in Sh : d \in LinksOf(FrontOf(s))
            BY <2>2
        <3> QED BY <3>1, <1>12
    <2>4. ASSUME NEW s \in Sh, NEW i \in DOMAIN G[s]
          PROVE  PageOf(s, G[s][i].date) \in dates
        <3>1. PageOf(s, G[s][i].date) \in LinksOf(FrontOf(s))
            BY <1>12
        <3> QED BY <3>1, <2>2
    <2> QED BY <2>3, <2>4
<1> HIDE DEF dates, root, Sh
<1>14. \A l \in shelves \union dates : l \in DOMAIN feedAt /\ feedAt[l] # NoFeed
    <2>1. ASSUME NEW s \in Sh PROVE FrontOf(s) \in DOMAIN feedAt /\ feedAt[FrontOf(s)] # NoFeed
        <3>1. PICK n \in Nat : DOMAIN G[s] = 1..n /\ (n = 0 => G[s] = <<>>)
            BY <1>1, <1>4 DEF ShelfHolds
        <3>2. 1 \in DOMAIN G[s]
            BY <3>1, <1>4
        <3>3. feedAt[FrontOf(s)].links # {}
            <4>1. [to |-> PageOf(s, G[s][1].date), updated |-> G[s][1].updated] \in feedAt[FrontOf(s)].links
                BY <3>2, <1>9
            <4> QED BY <4>1
        <3>4. NoFeed.links = {}
            BY DEF NoFeed, Feed
        <3> QED BY <3>3, <3>4, <1>6, <1>7
    <2>2. ASSUME NEW s \in Sh, NEW i \in DOMAIN G[s]
          PROVE  PageOf(s, G[s][i].date) \in DOMAIN feedAt /\ feedAt[PageOf(s, G[s][i].date)] # NoFeed
        <3>1. Len(G[s][i].articles) # 0
            BY <1>4, <1>5 DEF DayHolds
        <3>2. NoFeed.articles = <<>> /\ Len(<<>>) = 0
            BY DEF NoFeed, Feed
        <3> QED BY <3>1, <3>2, <1>6, <1>7, <1>10
    <2> QED BY <2>1, <2>2, <1>11, <1>13
<1>15. ASSUME NEW a \in A, a.bucket # "daily"
       PROVE  Cardinality(Places(a)) = IF opdsDate(a) = Unreadable THEN 0 ELSE 1
    <2> DEFINE d0 == opdsDate(a)
               s0 == a.bucket
    <2>1. s0 \in {"clip", "ebook"} /\ a \in OnShelf(A, s0)
        BY <1>3, <1>15, ListsAssumption DEF StoredOK, OnShelf
    <2>2. \A d \in dates : \A x \in DOMAIN feedAt[d].articles : feedAt[d].articles[x] = a =>
            /\ d0 # Unreadable /\ d = PageOf(s0, d0)
        <3> SUFFICES ASSUME NEW d \in dates, NEW x \in DOMAIN feedAt[d].articles,
                            feedAt[d].articles[x] = a
                     PROVE  d0 # Unreadable /\ d = PageOf(s0, d0)
            OBVIOUS
        <3>1. PICK s \in Sh : \E i \in DOMAIN G[s] : d = PageOf(s, G[s][i].date)
            BY <1>13
        <3>2. PICK i \in DOMAIN G[s] : d = PageOf(s, G[s][i].date)
            BY <3>1
        <3>3. feedAt[d].articles = G[s][i].articles /\ Day(s, i)
            BY <3>2, <1>4, <1>5, <1>10
        <3>4. a \in ToSet(G[s][i].articles)
            BY <3>3 DEF ToSet
        <3>5. a \in OfDate(OnShelf(A, s), G[s][i].date) /\ G[s][i].date \in DaysHeld(OnShelf(A, s))
            BY <3>3, <3>4 DEF DayHolds
        <3>6. a.bucket = s /\ d0 = G[s][i].date /\ G[s][i].date # Unreadable
            BY <3>5 DEF OfDate, OnShelf, DaysHeld
        <3> QED BY <3>2, <3>6
    <2>3. \A p : p \in Places(a) <=> \E d \in dates : \E x \in DOMAIN feedAt[d].articles :
                    p = <<d, x>> /\ feedAt[d].articles[x] = a
        OBVIOUS
    <2> HIDE DEF Places
    <2>4. CASE d0 = Unreadable
        <3>1. Places(a) = {}
            BY <2>2, <2>3, <2>4
        <3> QED BY <3>1, <2>4, FS_EmptySet
    <2>5. CASE d0 # Unreadable
        <3>1. d0 \in DaysHeld(OnShelf(A, s0))
            BY <2>1, <2>5 DEF DaysHeld
        <3>2. PICK i \in DOMAIN G[s0] : G[s0][i].date = d0
            BY <3>1, <2>1, <1>5
        <3> DEFINE d == PageOf(s0, d0)
                   q == G[s0][i].articles
        <3>3. s0 \in Sh /\ Day(s0, i) /\ feedAt[d].articles = q
            BY <3>2, <2>1, <1>4, <1>5, <1>10
        <3>4. d \in dates
            BY <3>2, <3>3, <1>13
        <3>5. a \in ToSet(q)
            BY <3>2, <3>3, <2>1 DEF DayHolds, OfDate
        <3>6. PICK x \in DOMAIN q : q[x] = a
            BY <3>5 DEF ToSet
        <3>7. \A y \in DOMAIN q : q[y] = a => y = x
            BY <3>3, <3>6 DEF DayHolds
        <3> HIDE DEF d, q, d0, s0
        <3>8. \A p : p \in Places(a) <=> p = <<d, x>>
            <4>1. <<d, x>> \in Places(a)
                BY <3>3, <3>4, <3>6, <2>3
            <4>2. ASSUME NEW p \in Places(a) PROVE p = <<d, x>>
                <5>1. PICK e \in dates : \E y \in DOMAIN feedAt[e].articles :
                            p = <<e, y>> /\ feedAt[e].articles[y] = a
                    BY <2>3
                <5>2. PICK y \in DOMAIN feedAt[e].articles :
                            p = <<e, y>> /\ feedAt[e].articles[y] = a
                    BY <5>1
                <5>3. e = d
                    BY <5>2, <2>2 DEF d
                <5> QED BY <5>2, <5>3, <3>3, <3>7
            <4> QED BY <4>1, <4>2
        <3>9. Places(a) = {<<d, x>>}
            BY <3>8
        <3>10. Cardinality(Places(a)) = 1
            BY <3>9, FS_Singleton
        <3> QED BY <3>10, <2>5 DEF d0
    <2> QED BY <2>4, <2>5
<1>16. Len(root.articles) <= 1 /\ \A a \in A : a.bucket = "daily" =>
          \E b \in ToSet(root.articles) : b.day >= a.day
    BY <1>2, <1>8
<1>17. \A s \in Sh :
         /\ maxUpdated(G[s]) \in Int
         /\ \A i \in DOMAIN G[s] : G[s][i].updated \in Int /\ G[s][i].updated <= maxUpdated(G[s])
    <2> SUFFICES ASSUME NEW s \in Sh
                 PROVE  /\ maxUpdated(G[s]) \in Int
                        /\ \A i \in DOMAIN G[s] : G[s][i].updated \in Int /\ G[s][i].updated <= maxUpdated(G[s])
        OBVIOUS
    <2>1. ShelfHolds(G[s], OnShelf(A, s)) /\ G[s] # <<>>
        BY <1>1, <1>4
    <2> QED BY <2>1, ShelfHasNewestStamp
<1>18. \A s \in Sh : root.updated \in Int /\ maxUpdated(G[s]) <= root.updated
    <2> DEFINE f == [s \in Sh |-> maxUpdated(G[s])]
               g == [a \in G.daily |-> a.updated]
    <2>1. IsFiniteSet({f[s] : s \in Sh})
        <3>1. IsFiniteSet({"clip", "ebook"})
            <4>1. IsFiniteSet({"clip"}) /\ IsFiniteSet({"ebook"})
                BY FS_Singleton
            <4>2. IsFiniteSet({"clip"} \union {"ebook"})
                BY <4>1, FS_Union
            <4>3. {"clip", "ebook"} = {"clip"} \union {"ebook"}
                OBVIOUS
            <4> QED BY <4>2, <4>3
        <3>2. IsFiniteSet(Sh) /\ Sh \subseteq DOMAIN f
            BY <3>1, <1>4, FS_Subset
        <3> HIDE DEF f
        <3> QED BY <3>2, FiniteValues
    <2>2. IsFiniteSet({g[a] : a \in G.daily})
        <3>1. G.daily \subseteq DOMAIN g
            OBVIOUS
        <3> HIDE DEF g
        <3> QED BY <3>1, <1>2, FiniteValues
    <2>3. stamps = {f[s] : s \in Sh} \union {g[a] : a \in G.daily}
        OBVIOUS
    <2>4. IsFiniteSet(stamps)
        <3> HIDE DEF f, g, stamps
        <3> QED BY <2>1, <2>2, <2>3, FS_Union
    <2>5. stamps \subseteq Int
        BY <1>2, <1>3, <1>17, DateIsANumber
    <2>6. \A s \in Sh : maxUpdated(G[s]) \in stamps
        OBVIOUS
    <2> HIDE DEF stamps
    <2>7. stamps # {} => Greatest(stamps) \in stamps /\ \A x \in stamps : x <= Greatest(stamps)
        BY <2>4, <2>5, GreatestOfFinite
    <2> QED BY <2>5, <2>6, <2>7, <1>8
<1>19. \A s \in Sh : \A l \in feedAt[FrontOf(s)].links :
          /\ l.updated = NewestIn(l.to)
          /\ root.updated >= feedAt[FrontOf(s)].updated /\ feedAt[FrontOf(s)].updated >= l.updated
    <2> SUFFICES ASSUME NEW s \in Sh, NEW l \in feedAt[FrontOf(s)].links
                 PROVE  /\ l.updated = NewestIn(l.to)
                        /\ root.updated >= feedAt[FrontOf(s)].updated
                        /\ feedAt[FrontOf(s)].updated >= l.updated
        OBVIOUS
    <2>1. PICK i \in DOMAIN G[s] : l = [to |-> PageOf(s, G[s][i].date), updated |-> G[s][i].updated]
        BY <1>9
    <2>2. l.to = PageOf(s, G[s][i].date) /\ l.updated = G[s][i].updated
        BY <2>1
    <2>3. feedAt[l.to].articles = G[s][i].articles /\ Day(s, i)
        BY <2>2, <1>4, <1>5, <1>10
    <2>4. NewestIn(l.to) = G[s][i].updated
        BY <2>3, DayHasNewestStamp
    <2>5. feedAt[FrontOf(s)].updated = maxUpdated(G[s])
        BY <1>9
    <2>6. /\ maxUpdated(G[s]) \in Int /\ root.updated \in Int /\ l.updated \in Int
          /\ maxUpdated(G[s]) <= root.updated /\ l.updated <= maxUpdated(G[s])
        BY <2>2, <1>17, <1>18
    <2> QED BY <2>2, <2>4, <2>5, <2>6
<1>20. \A l \in root.links : l.updated = feedAt[l.to].updated
    BY <1>8, <1>9
<1>21. \A s \in shelves : \E t \in Sh : s = FrontOf(t)
    BY <1>11
<1>22. \A s \in shelves : \A l \in feedAt[s].links :
          /\ l.updated = NewestIn(l.to)
          /\ root.updated >= feedAt[s].updated /\ feedAt[s].updated >= l.updated
    <2> HIDE DEF NewestIn
    <2> QED BY <1>19, <1>21
<1> QED BY <1>14, <1>15, <1>16, <1>20, <1>22 DEF CatalogueCovers, feedAt, root, shelves, dates, LinksOf

\* One more, with an id after those that are there.
LEMMA SomeMore ==
    ASSUME NEW Samples, \A x \in Samples : x.id \in Int,
           NEW S, Some(S, Samples), NEW c \in Samples, Later(S, c)
    PROVE  Some(S \union {c}, Samples)
<1>1. IsFiniteSet(S) /\ S \subseteq Samples /\ \A d, e \in S : d.id = e.id => d = e
    BY DEF Some
<1>2. \A d \in S : d.id < c.id
    BY DEF Later
<1>3. IsFiniteSet(S \union {c})
    BY <1>1, FS_AddElement
<1>4. \A d, e \in S \union {c} : d.id = e.id => d = e
    BY <1>1, <1>2
<1> QED BY <1>1, <1>3, <1>4 DEF Some
=============================================================================
