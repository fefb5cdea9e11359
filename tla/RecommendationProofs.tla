------------------------ MODULE RecommendationProofs ------------------------
(***************************************************************************)
(* Proofs about the recommendation pipeline, for any rows, factors and     *)
(* limits: the portfolio its greedy loop leaves is the one the definition  *)
(* gives, the rounded weights fit the account, and the types.              *)
(***************************************************************************)
EXTENDS Recommendation, FiniteSetTheorems, SequenceTheorems, WellFoundedInduction, TLAPS

-----------------------------------------------------------------------------
(* Folds over finite sets.  An induction over subsets is an argument about a *)
(* minimal subset on which the claim fails.                                  *)

\* A set of subsets of a finite set that is not empty has a minimal member.
LEMMA MinimalSubset ==
    ASSUME NEW S, IsFiniteSet(S), NEW bad, bad \subseteq SUBSET S, bad # {}
    PROVE  \E D \in bad : \A x \in D : D \ {x} \notin bad
<1>1. IsWellFoundedOn(StrictSubsetOrdering(S), SUBSET S)
    BY FS_StrictSubsetOrderingWellFounded, FS_FiniteSubsetsOfFinite
<1>2. PICK D \in bad : \A E \in bad : <<E, D>> \notin StrictSubsetOrdering(S)
    BY <1>1, WFMin
<1>3. ASSUME NEW x \in D PROVE D \ {x} \notin bad
    BY <1>2 DEF StrictSubsetOrdering
<1> QED BY <1>2, <1>3

\* The element MapThenFoldSet and MapThenSumSet take first.
Least(s) == CHOOSE x \in s : TRUE

\* g[s] is what the recursion of a fold makes of the values of f on s.
Unfolds(g, op, base, f, s) ==
    g[s] = IF s = {} THEN base ELSE op[<<f[Least(s)], g[s \ {Least(s)}]>>]

\* g[s] folds the values of f on s with op, whichever element comes first.
IsFold(g, A, op, base, f, S) ==
    /\ g \in [SUBSET S -> A] /\ g[{}] = base
    /\ \A s \in SUBSET S : \A x \in s : g[s] = op[<<f[x], g[s \ {x}]>>]

Foldable(A, op, base, f, S) ==
    /\ IsFiniteSet(S) /\ base \in A /\ op \in [A \X A -> A] /\ f \in [S -> A]
    /\ \A a, b, c \in A : op[<<a, op[<<b, c>>]>>] = op[<<b, op[<<a, c>>]>>]

\* Such a g exists when the order does not matter to op.
LEMMA FoldExists ==
    \A S, A, base, op, f : Foldable(A, op, base, f, S) => \E g : IsFold(g, A, op, base, f, S)
<1> SUFFICES ASSUME NEW S, NEW A, NEW base, NEW op, NEW f, Foldable(A, op, base, f, S)
             PROVE  \E g : IsFold(g, A, op, base, f, S)
    OBVIOUS
<1> USE DEF Foldable
<1> DEFINE upto(D) == \E g \in [SUBSET S -> A] : \A s \in SUBSET S :
                         Cardinality(s) <= Cardinality(D) => Unfolds(g, op, base, f, s)
<1>0. \A D \in SUBSET S : IsFiniteSet(D) /\ Cardinality(D) \in Nat /\ Cardinality(D) <= Cardinality(S)
    BY FS_Subset, FS_CardinalityType
<1>l. \A s \in SUBSET S : s # {} => Least(s) \in s /\ s \ {Least(s)} \in SUBSET S
    BY DEF Least
<1>1. ASSUME NEW D \in SUBSET S, D # {}, NEW z \in D, upto(D \ {z}) PROVE upto(D)
    <2>1. PICK g \in [SUBSET S -> A] : \A s \in SUBSET S :
          Cardinality(s) <= Cardinality(D \ {z}) => Unfolds(g, op, base, f, s)
        BY <1>1
    <2> DEFINE h == [s \in SUBSET S |-> IF s = {} THEN base ELSE op[<<f[Least(s)], g[s \ {Least(s)}]>>]]
    <2>3. h \in [SUBSET S -> A]
        BY <1>l
    <2>4. Cardinality(D \ {z}) = Cardinality(D) - 1
        BY <1>0, <1>1, FS_RemoveElement
    <2>5. ASSUME NEW s \in SUBSET S, Cardinality(s) <= Cardinality(D) PROVE Unfolds(h, op, base, f, s)
        <3>1. CASE s = {}
            BY <3>1 DEF Unfolds
        <3>2. CASE s # {}
            <4> DEFINE r == s \ {Least(s)}
            <4>1. Cardinality(r) = Cardinality(s) - 1 /\ r \in SUBSET S
                BY <1>0, <1>l, <3>2, FS_RemoveElement
            <4>2. Cardinality(r) <= Cardinality(D \ {z})
                BY <1>0, <1>1, <2>4, <2>5, <4>1
            <4>3. g[r] = IF r = {} THEN base ELSE op[<<f[Least(r)], g[r \ {Least(r)}]>>]
                BY <2>1, <4>1, <4>2 DEF Unfolds
            <4>4. h[r] = g[r]
                BY <4>1, <4>3
            <4> HIDE DEF r
            <4> QED BY <3>2, <4>4 DEF Unfolds, r
        <3> QED BY <3>1, <3>2
    <2> HIDE DEF h
    <2> QED BY <2>3, <2>5
<1>2. upto({})
    <2>1. [s \in SUBSET S |-> base] \in [SUBSET S -> A]
        OBVIOUS
    <2>2. \A s \in SUBSET S : Cardinality(s) <= Cardinality({}) => s = {}
        BY <1>0, FS_EmptySet
    <2> QED BY <2>1, <2>2 DEF Unfolds
<1> HIDE DEF upto
<1>3. upto(S)
    <2> DEFINE bad == {D \in SUBSET S : ~upto(D)}
    <2> SUFFICES ASSUME bad # {} PROVE FALSE
        OBVIOUS
    <2>1. PICK D \in bad : \A x \in D : D \ {x} \notin bad
        BY MinimalSubset
    <2>2. PICK z \in D : TRUE
        BY <1>2, <2>1
    <2>3. upto(D \ {z})
        BY <2>1, <2>2
    <2> QED BY <1>1, <2>1, <2>2, <2>3
<1>4. PICK g \in [SUBSET S -> A] : \A s \in SUBSET S : Unfolds(g, op, base, f, s)
    BY <1>0, <1>3 DEF upto
<1>5. ASSUME NEW t \in SUBSET S, NEW y \in t PROVE g[t] = op[<<f[y], g[t \ {y}]>>]
    <2> DEFINE bad == {D \in SUBSET S : \E x \in D : g[D] # op[<<f[x], g[D \ {x}]>>]}
    <2> SUFFICES ASSUME bad # {} PROVE FALSE
        OBVIOUS
    <2>1. PICK D \in bad : \A x \in D : D \ {x} \notin bad
        <3>1. bad \subseteq SUBSET S
            OBVIOUS
        <3> HIDE DEF bad
        <3> QED BY <3>1, MinimalSubset
    <2>3. PICK x \in D : g[D] # op[<<f[x], g[D \ {x}]>>]
        BY <2>1
    <2> DEFINE l == Least(D)
               E == D \ {l}
               F == D \ {x}
               R == E \ {x}
    <2>4. l \in D /\ D \in SUBSET S
        BY <1>l, <2>1, <2>3
    <2>5. g[D] = op[<<f[l], g[E]>>]
        BY <1>4, <2>3, <2>4 DEF Unfolds
    <2>6. l # x
        BY <2>3, <2>5
    <2>7. E \notin bad /\ F \notin bad
        BY <2>1, <2>3, <2>4
    <2>8. /\ R \in SUBSET S /\ F \ {l} = R /\ x \in E /\ l \in F /\ x \in S /\ l \in S
          /\ E \in SUBSET S /\ F \in SUBSET S
        BY <2>3, <2>4, <2>6
    <2> HIDE DEF l, E, F, R
    <2>9. g[E] = op[<<f[x], g[R]>>]
        BY <2>7, <2>8 DEF R
    <2>10. g[F] = op[<<f[l], g[R]>>]
        BY <2>7, <2>8
    <2>11. f[x] \in A /\ f[l] \in A /\ g[R] \in A
        BY <1>4, <2>8
    <2>12. g[D] = op[<<f[x], g[F]>>]
        BY <2>5, <2>9, <2>10, <2>11
    <2> QED BY <2>3, <2>12 DEF F
<1>6. g[{}] = base
    BY <1>4 DEF Unfolds
<1> HIDE DEF Foldable
<1>7. IsFold(g, A, op, base, f, S)
    BY <1>4, <1>5, <1>6 DEF IsFold
<1> QED BY <1>7

\* Two functions that agree on {} and that a step of the recursion keeps equal
\* agree on every subset.
LEMMA SameOnSubsets ==
    ASSUME NEW S, IsFiniteSet(S), NEW g, NEW h, g[{}] = h[{}],
         \A D \in SUBSET S : D # {} /\ g[D \ {Least(D)}] = h[D \ {Least(D)}] => g[D] = h[D]
    PROVE  \A D \in SUBSET S : g[D] = h[D]
<1> DEFINE bad == {D \in SUBSET S : g[D] # h[D]}
<1> SUFFICES ASSUME bad # {} PROVE FALSE
    OBVIOUS
<1>1. PICK D \in bad : \A x \in D : D \ {x} \notin bad
    BY MinimalSubset
<1>2. D # {} /\ Least(D) \in D
    BY <1>1 DEF Least
<1> QED BY <1>1, <1>2

-----------------------------------------------------------------------------
(* Sums of naturals and products of positive naturals. *)

Plus  == [p \in Nat \X Nat |-> p[1] + p[2]]
Pos   == Nat \ {0}
Times == [p \in Pos \X Pos |-> p[1] * p[2]]

IsSum(g, f, S) ==
    /\ g \in [SUBSET S -> Nat] /\ g[{}] = 0
    /\ \A s \in SUBSET S : \A x \in s : g[s] = f[x] + g[s \ {x}]

IsProduct(g, f, S) ==
    /\ g \in [SUBSET S -> Pos] /\ g[{}] = 1
    /\ \A s \in SUBSET S : \A x \in s : g[s] = f[x] * g[s \ {x}]

LEMMA SumExists ==
    ASSUME NEW S, IsFiniteSet(S), NEW f \in [S -> Nat]
    PROVE  \E g : IsSum(g, f, S)
<1>1. Foldable(Nat, Plus, 0, f, S)
    BY DEF Foldable, Plus
<1>2. PICK g : IsFold(g, Nat, Plus, 0, f, S)
    BY <1>1, FoldExists, Zenon
<1>3. ASSUME NEW s \in SUBSET S, NEW x \in s PROVE g[s] = f[x] + g[s \ {x}]
    <2>1. g[s] = Plus[<<f[x], g[s \ {x}]>>] /\ g[s \ {x}] \in Nat
        BY <1>2 DEF IsFold
    <2> QED BY <2>1 DEF Plus
<1> QED BY <1>2, <1>3 DEF IsFold, IsSum

LEMMA TimesCommutes ==
    /\ Times \in [Pos \X Pos -> Pos] /\ 1 \in Pos
    /\ \A a, b, c \in Pos : Times[<<a, Times[<<b, c>>]>>] = Times[<<b, Times[<<a, c>>]>>]
<1>1. \A a, b \in Pos : a * b \in Pos
    BY DEF Pos
<1>2. Times \in [Pos \X Pos -> Pos] /\ \A a, b \in Pos : Times[<<a, b>>] = a * b
    BY <1>1 DEF Times
<1>3. \A a, b, c \in Pos : a * (b * c) = b * (a * c)
    BY DEF Pos
<1>4. 1 \in Pos
    BY DEF Pos
<1>5. ASSUME NEW a \in Pos, NEW b \in Pos, NEW c \in Pos
      PROVE  Times[<<a, Times[<<b, c>>]>>] = Times[<<b, Times[<<a, c>>]>>]
    <2>1. /\ Times[<<b, c>>] = b * c /\ b * c \in Pos
          /\ Times[<<a, c>>] = a * c /\ a * c \in Pos
        BY <1>1, <1>2
    <2>2. /\ Times[<<a, b * c>>] = a * (b * c)
          /\ Times[<<b, a * c>>] = b * (a * c)
        BY <1>2, <2>1
    <2> QED BY <1>3, <2>1, <2>2
<1> QED BY <1>2, <1>4, <1>5

LEMMA ProductExists ==
    ASSUME NEW S, IsFiniteSet(S), NEW f \in [S -> Pos]
    PROVE  \E g : IsProduct(g, f, S)
<1>1. Foldable(Pos, Times, 1, f, S)
    BY TimesCommutes DEF Foldable
<1>2. PICK g : IsFold(g, Pos, Times, 1, f, S)
    BY <1>1, FoldExists, Zenon
<1>3. ASSUME NEW s \in SUBSET S, NEW x \in s PROVE g[s] = f[x] * g[s \ {x}]
    <2>1. g[s] = Times[<<f[x], g[s \ {x}]>>] /\ g[s \ {x}] \in Pos
        BY <1>2 DEF IsFold
    <2> QED BY <2>1 DEF Times
<1> QED BY <1>2, <1>3 DEF IsFold, IsProduct

-----------------------------------------------------------------------------
(* What the folds of the model compute. *)

\* The product of the volatilities of T, in the words of InverseVol.
Product(T) == MapThenFoldSet(LAMBDA a, b : a * b, 1, Vol, LAMBDA U : CHOOSE x \in U : TRUE, T)

LEMMA ProductOf ==
    ASSUME NEW S, IsFiniteSet(S), \A s \in S : Vol(s) \in Pos
    PROVE  \E g : /\ IsProduct(g, [s \in S |-> Vol(s)], S)
                  /\ \A T \in SUBSET S : Product(T) = g[T]
<1> DEFINE f == [s \in S |-> Vol(s)]
<1>1. f \in [S -> Pos]
    OBVIOUS
<1>2. PICK g : IsProduct(g, f, S)
    <2> HIDE DEF f
    <2> QED BY <1>1, ProductExists
<1>3. ASSUME NEW T \in SUBSET S PROVE Product(T) = g[T]
    <2> DEFINE Iter(it) == it = [s \in SUBSET T |-> IF s = {} THEN 1
                                    ELSE LET x == CHOOSE x \in s : TRUE IN Vol(x) * it[s \ {x}]]
               iter == CHOOSE it : Iter(it)
               h == [s \in SUBSET T |-> g[s]]
    <2>1. Product(T) = iter[T]
        BY DEF Product, MapThenFoldSet
    <2>2. \A s \in SUBSET T : s # {} => /\ Least(s) \in s /\ s \ {Least(s)} \in SUBSET T
                                        /\ s \in SUBSET S /\ f[Least(s)] = Vol(Least(s))
        BY DEF Least
    <2>3. \A s \in SUBSET T : s # {} => g[s] = Vol(Least(s)) * g[s \ {Least(s)}]
        <3> HIDE DEF f
        <3> QED BY <1>2, <2>2 DEF IsProduct
    <2>4. g[{}] = 1
        BY <1>2 DEF IsProduct
    <2>5. Iter(h)
        <3> HIDE DEF f
        <3> QED BY <2>2, <2>3, <2>4 DEF Least
    <2> HIDE DEF Iter
    <2>6. Iter(iter)
        BY <2>5
    <2> HIDE DEF iter
    <2>7. /\ iter[{}] = 1
          /\ \A s \in SUBSET T : s # {} => iter[s] = Vol(Least(s)) * iter[s \ {Least(s)}]
        BY <2>6 DEF Iter, Least
    <2>8. IsFiniteSet(T)
        BY FS_Subset
    <2>9. \A D \in SUBSET T : D # {} /\ g[D \ {Least(D)}] = iter[D \ {Least(D)}] => g[D] = iter[D]
        BY <2>3, <2>7
    <2>10. \A D \in SUBSET T : g[D] = iter[D]
        BY <2>4, <2>7, <2>8, <2>9, SameOnSubsets
    <2> QED BY <2>1, <2>10
<1> QED BY <1>2, <1>3

\* The denominator of the weights.
LEMMA TotalInverseOf ==
    ASSUME NEW S, IsFiniteSet(S), \A r \in S : InverseVol(S, r) \in Nat
    PROVE  \E g : IsSum(g, [r \in S |-> InverseVol(S, r)], S) /\ MapThenSumSet(LAMBDA r : InverseVol(S, r), S) = g[S]
<1> DEFINE f == [r \in S |-> InverseVol(S, r)]
           Iter(it) == it = [s \in SUBSET S |-> IF s = {} THEN 0
                                ELSE LET x == CHOOSE x \in s : TRUE IN InverseVol(S, x) + it[s \ {x}]]
           iter == CHOOSE it : Iter(it)
<1>1. f \in [S -> Nat]
    OBVIOUS
<1>2. PICK g : IsSum(g, f, S)
    <2> HIDE DEF f
    <2> QED BY <1>1, SumExists
<1>3. MapThenSumSet(LAMBDA r : InverseVol(S, r), S) = iter[S]
    BY DEF MapThenSumSet, MapThenFoldSet
<1>4. \A s \in SUBSET S : s # {} => /\ Least(s) \in s /\ s \ {Least(s)} \in SUBSET S
                                     /\ f[Least(s)] = InverseVol(S, Least(s))
    BY DEF Least
<1>5. \A s \in SUBSET S : s # {} => g[s] = InverseVol(S, Least(s)) + g[s \ {Least(s)}]
    <2> HIDE DEF f
    <2> QED BY <1>2, <1>4 DEF IsSum
<1>6. g[{}] = 0 /\ g = [s \in SUBSET S |-> g[s]]
    BY <1>2 DEF IsSum
<1>7. Iter(g)
    <2> HIDE DEF f
    <2> QED BY <1>4, <1>5, <1>6 DEF Least
<1> HIDE DEF Iter
<1>8. Iter(iter)
    BY <1>7
<1> HIDE DEF iter
<1>9. /\ iter[{}] = 0
      /\ \A s \in SUBSET S : s # {} => iter[s] = InverseVol(S, Least(s)) + iter[s \ {Least(s)}]
    BY <1>8 DEF Iter, Least
<1>10. \A D \in SUBSET S : D # {} /\ g[D \ {Least(D)}] = iter[D \ {Least(D)}] => g[D] = iter[D]
    BY <1>5, <1>9
<1>11. \A D \in SUBSET S : g[D] = iter[D]
    <2>1. g[{}] = iter[{}]
        BY <1>6, <1>9
    <2> QED BY <1>10, <2>1, SameOnSubsets
<1> QED BY <1>2, <1>3, <1>11

\* The sum of the weights.
LEMMA TotalWeightOf ==
    ASSUME weight \in [Securities -> Nat]
    PROVE  \E g : IsSum(g, weight, Securities) /\ MapThenSumSet(LAMBDA r : weight[r], Securities) = g[Securities]
<1> DEFINE f == weight
           Iter(it) == it = [s \in SUBSET Securities |-> IF s = {} THEN 0
                                ELSE LET x == CHOOSE x \in s : TRUE IN weight[x] + it[s \ {x}]]
           iter == CHOOSE it : Iter(it)
<1>1. f \in [Securities -> Nat]
    OBVIOUS
<1>2. PICK g : IsSum(g, f, Securities)
    <2> HIDE DEF f
    <2> QED BY <1>1, SumExists, RecommendationAssumption
<1>3. MapThenSumSet(LAMBDA r : weight[r], Securities) = iter[Securities]
    BY DEF MapThenSumSet, MapThenFoldSet
<1>4. \A s \in SUBSET Securities : s # {} => /\ Least(s) \in s /\ s \ {Least(s)} \in SUBSET Securities
                                     /\ f[Least(s)] = weight[Least(s)]
    BY DEF Least
<1>5. \A s \in SUBSET Securities : s # {} => g[s] = weight[Least(s)] + g[s \ {Least(s)}]
    <2> HIDE DEF f
    <2> QED BY <1>2, <1>4 DEF IsSum
<1>6. g[{}] = 0 /\ g = [s \in SUBSET Securities |-> g[s]]
    BY <1>2 DEF IsSum
<1>7. Iter(g)
    <2> HIDE DEF f
    <2> QED BY <1>4, <1>5, <1>6 DEF Least
<1> HIDE DEF Iter
<1>8. Iter(iter)
    BY <1>7
<1> HIDE DEF iter
<1>9. /\ iter[{}] = 0
      /\ \A s \in SUBSET Securities : s # {} => iter[s] = weight[Least(s)] + iter[s \ {Least(s)}]
    BY <1>8 DEF Iter, Least
<1>10. \A D \in SUBSET Securities : D # {} /\ g[D \ {Least(D)}] = iter[D \ {Least(D)}] => g[D] = iter[D]
    BY <1>5, <1>9
<1>11. \A D \in SUBSET Securities : g[D] = iter[D]
    <2>1. g[{}] = iter[{}]
        BY <1>6, <1>9
    <2>2. IsFiniteSet(Securities)
        BY RecommendationAssumption
    <2> QED BY <1>10, <2>1, <2>2, SameOnSubsets
<1> QED BY <1>2, <1>3, <1>11

-----------------------------------------------------------------------------
(* The arithmetic of the weights. *)

LEMMA MillionNat == Million \in Nat
    BY DEF Million

LEMMA MaxWeightNat == MaxWeight \in Nat \ {0} /\ MaxWeight <= Million
    BY MillionNat, WeightAssumption

LEMMA TimesNat == ASSUME NEW a \in Nat, NEW b \in Nat PROVE a * b \in Nat
    BY Z3

LEMMA TimesMonotone ==
    ASSUME NEW a \in Nat, NEW b \in Nat, NEW c \in Nat, a <= b
    PROVE  a * c <= b * c /\ c * a <= c * b
    BY Z3

LEMMA CancelFactor ==
    ASSUME NEW a \in Int, NEW b \in Int, NEW d \in Pos, d * a <= d * b
    PROVE  a <= b
    BY Z3 DEF Pos

LEMMA Distributes ==
    ASSUME NEW d \in Int, NEW a \in Int, NEW b \in Int
    PROVE  d * (a + b) = d * a + d * b /\ (a + b) * d = a * d + b * d
    BY Z3

LEMMA DivFacts ==
    ASSUME NEW a \in Nat, NEW b \in Pos
    PROVE  /\ a \div b \in Nat /\ b * (a \div b) <= a
           /\ a < b * (a \div b + 1)
    BY Z3 DEF Pos

\* A larger numerator never gives a smaller quotient.
LEMMA DivMonotone ==
    ASSUME NEW a \in Nat, NEW c \in Nat, NEW b \in Pos, a <= c
    PROVE  a \div b <= c \div b
<1> DEFINE x == a \div b  y == c \div b
<1>1. /\ x \in Nat /\ y \in Nat /\ b * x <= a /\ c < b * (y + 1)
    BY DivFacts
<1> HIDE DEF x, y
<1>2. b * x \in Nat /\ b * (y + 1) \in Nat
    BY <1>1, TimesNat DEF Pos
<1>3. b * x < b * (y + 1)
    <2> DEFINE l == b * x  r == b * (y + 1)
    <2>1. l \in Nat /\ r \in Nat /\ l <= a /\ c < r
        BY <1>1, <1>2
    <2> HIDE DEF l, r
    <2>2. l < r
        BY <2>1
    <2> QED BY <2>2 DEF l, r
<1>4. x < y + 1
    <2> SUFFICES ASSUME y + 1 <= x PROVE FALSE
        BY <1>1
    <2>1. b * (y + 1) <= b * x
        BY <1>1, TimesMonotone DEF Pos
    <2> QED BY <1>2, <1>3, <2>1
<1>5. x <= y
    BY <1>1, <1>4
<1> QED BY <1>5 DEF x, y

\* round(n / d, 6): at most half a millionth too large, and not zero unless
\* n / d is below half a millionth.
LEMMA RoundFacts ==
    ASSUME NEW n \in Nat, NEW d \in Pos
    PROVE  /\ Round(n, d) \in Nat
           /\ d * (2 * Round(n, d)) <= (2 * Million) * n + d
           /\ d <= (2 * Million) * n => Round(n, d) >= 1
<1> DEFINE m == (2 * Million) * n  a == m + d  b == 2 * d  q == a \div b
<1>1. d \in Nat /\ Round(n, d) = q
    BY DEF Round, Pos
<1>2. m \in Nat
    BY MillionNat, TimesNat
<1> HIDE DEF m
<1>3. a \in Nat /\ b \in Pos
    BY <1>2 DEF Pos
<1>4. q \in Nat /\ b * q <= a /\ a < b * (q + 1)
    <2> HIDE DEF a, b
    <2> QED BY <1>3, DivFacts
<1> HIDE DEF q
<1>5. b * q = d * (2 * q)
    BY <1>1, <1>4, Z3
<1>6. ASSUME d <= m PROVE q >= 1
    <2> SUFFICES ASSUME q = 0 PROVE FALSE
        BY <1>4
    <2>1. b * (q + 1) = 2 * d
        BY <1>1
    <2> QED BY <1>1, <1>2, <1>4, <1>6, <2>1
<1>7. d * (2 * q) <= a
    BY <1>4, <1>5
<1> QED BY <1>1, <1>4, <1>6, <1>7 DEF m

LEMMA RoundMonotone ==
    ASSUME NEW m \in Nat, NEW n \in Nat, NEW d \in Pos, m <= n
    PROVE  Round(m, d) <= Round(n, d)
<1> DEFINE x == (2 * Million) * m  y == (2 * Million) * n  a == x + d  c == y + d  b == 2 * d
<1>1. x \in Nat /\ y \in Nat /\ x <= y
    BY MillionNat, TimesNat, TimesMonotone
<1>2. Round(m, d) = a \div b /\ Round(n, d) = c \div b
    BY DEF Round
<1> HIDE DEF x, y
<1>3. a \in Nat /\ c \in Nat /\ b \in Pos /\ a <= c
    BY <1>1 DEF Pos
<1> HIDE DEF a, b, c
<1> QED BY <1>2, <1>3, DivMonotone

\* A sum of terms that are at most m is at most m for each of them.
LEMMA SumOfBounded ==
    ASSUME NEW S, IsFiniteSet(S), NEW f \in [S -> Nat], NEW g, IsSum(g, f, S),
           NEW m \in Nat, \A s \in S : f[s] <= m
    PROVE  g[S] <= Cardinality(S) * m
<1> DEFINE bad == {D \in SUBSET S : ~(g[D] <= Cardinality(D) * m)}
<1> SUFFICES ASSUME bad # {} PROVE FALSE
    OBVIOUS
<1>1. PICK D \in bad : \A x \in D : D \ {x} \notin bad
    BY MinimalSubset
<1>2. D # {}
    <2>1. g[{}] = 0 /\ Cardinality({}) = 0
        BY FS_EmptySet DEF IsSum
    <2> QED BY <1>1, <2>1
<1>3. PICK x \in D : TRUE
    BY <1>2
<1> DEFINE E == D \ {x}
           k == Cardinality(E)
<1>4. /\ E \in SUBSET S /\ E \notin bad /\ x \in S
      /\ k \in Nat /\ Cardinality(D) = k + 1
    <2>1. E \in SUBSET S /\ E \notin bad /\ x \in S /\ D \in SUBSET S
        BY <1>1, <1>3
    <2>2. IsFiniteSet(D) /\ IsFiniteSet(E)
        BY <2>1, FS_Subset
    <2>3. Cardinality(D) \in Nat /\ Cardinality(E) \in Nat /\ Cardinality(E) = Cardinality(D) - 1
        BY <1>3, <2>2, FS_RemoveElement, FS_CardinalityType
    <2> QED BY <2>1, <2>3
<1>5. g[D] = f[x] + g[E] /\ g[E] \in Nat /\ f[x] \in Nat /\ f[x] <= m
    BY <1>1, <1>3, <1>4 DEF IsSum
<1>6. g[E] <= k * m
    BY <1>4
<1>7. (k + 1) * m = k * m + m /\ k * m \in Nat
    BY <1>4, Distributes, TimesNat
<1>8. ~(g[D] <= (k + 1) * m)
    BY <1>1, <1>4
<1> HIDE DEF k, E
<1> QED BY <1>5, <1>6, <1>7, <1>8

\* Weights w that are m * n[s] / d each, up to one half, add up to m times the
\* sum of the n[s] / d, up to one half for each of them.
LEMMA SumOfRounded ==
    ASSUME NEW S, IsFiniteSet(S), NEW Q \in SUBSET S,
           NEW w \in [S -> Nat], NEW W, IsSum(W, w, S),
           NEW n \in [Q -> Nat], NEW N, IsSum(N, n, Q),
           NEW m \in Nat, NEW d \in Nat,
           \A s \in Q : d * (2 * w[s]) <= m * n[s] + d,
           \A s \in S \ Q : w[s] = 0
    PROVE  d * (2 * W[S]) <= m * N[Q] + d * Cardinality(Q)
<1> DEFINE Fine(D) == d * (2 * W[D]) <= m * N[D \cap Q] + d * Cardinality(D \cap Q)
           bad == {D \in SUBSET S : ~Fine(D)}
<1>0. ASSUME bad # {} PROVE FALSE
    <2>1. PICK D \in bad : \A x \in D : D \ {x} \notin bad
        <3>1. bad \subseteq SUBSET S
            OBVIOUS
        <3> HIDE DEF bad
        <3> QED BY <1>0, <3>1, MinimalSubset
    <2>2. Fine({})
        <3>1. W[{}] = 0 /\ N[{}] = 0 /\ Cardinality({}) = 0 /\ {} \cap Q = {}
            BY FS_EmptySet DEF IsSum
        <3> QED BY <3>1
    <2>3. PICK x \in D : TRUE
        BY <2>1, <2>2
    <2> DEFINE E == D \ {x}
    <2>4. E \in SUBSET S /\ Fine(E) /\ ~Fine(D) /\ x \in S /\ D \in SUBSET S
        BY <2>1, <2>3
    <2> DEFINE e == W[E]  a == N[E \cap Q]  k == Cardinality(E \cap Q)
    <2>5. /\ W[D] = w[x] + e /\ e \in Nat /\ w[x] \in Nat
          /\ a \in Nat /\ IsFiniteSet(E \cap Q) /\ k \in Nat
        BY <2>3, <2>4, FS_Subset, FS_CardinalityType DEF IsSum
    <2>6. d * (2 * e) <= m * a + d * k
        BY <2>4
    <2>7. CASE x \notin Q
        <3>1. D \cap Q = E \cap Q /\ w[x] = 0
            BY <2>3, <2>4, <2>7
        <3>2. W[D] = W[E]
            BY <2>5, <3>1
        <3> QED BY <2>4, <3>1, <3>2
    <2>8. CASE x \in Q
        <3> DEFINE F == D \cap Q
        <3>1. F \in SUBSET Q /\ x \in F /\ F \ {x} = E \cap Q /\ IsFiniteSet(F)
            BY <2>3, <2>4, <2>8, FS_Subset
        <3>2. N[F] = n[x] + a
            <4> HIDE DEF F
            <4>1. N[F] = n[x] + N[F \ {x}]
                BY <3>1 DEF IsSum
            <4> QED BY <3>1, <4>1
        <3>3. Cardinality(F) = k + 1
            <4> HIDE DEF F
            <4>1. Cardinality(F) \in Nat /\ Cardinality(F \ {x}) = Cardinality(F) - 1
                BY <3>1, FS_RemoveElement, FS_CardinalityType
            <4>2. k = Cardinality(F \ {x})
                BY <3>1
            <4> HIDE DEF k
            <4> QED BY <4>1, <4>2
        <3>4. ~(d * (2 * (w[x] + e)) <= m * (n[x] + a) + d * (k + 1))
            BY <2>4, <2>5, <3>2, <3>3
        <3>5. d * (2 * w[x]) <= m * n[x] + d /\ n[x] \in Nat
            BY <2>8
        <3> HIDE DEF e, a, k
        <3>6. /\ d * (2 * (w[x] + e)) = d * (2 * w[x]) + d * (2 * e)
              /\ m * (n[x] + a) = m * n[x] + m * a
              /\ d * (k + 1) = d * k + d
            BY <2>5, <3>5, Z3
        <3>7. /\ d * (2 * w[x]) \in Nat /\ d * (2 * e) \in Nat /\ m * n[x] \in Nat
              /\ m * a \in Nat /\ d * k \in Nat
            BY <2>5, <3>5, TimesNat
        <3> QED BY <2>6, <3>4, <3>5, <3>6, <3>7
    <2> QED BY <2>7, <2>8
<1>1. S \cap Q = Q
    OBVIOUS
<1>2. Fine(S)
    BY <1>0
<1> QED BY <1>1, <1>2

LEMMA VolIsPositive ==
    ASSUME NEW s, Volatility(Closes(features, s)) \in Int
    PROVE  /\ Vol(s) \in Pos
           /\ Vol(s) = 1 \/ Vol(s) = Volatility(Closes(features, s))
<1> DEFINE v == Volatility(Closes(features, s))
<1>1. \E x \in {1, v} : \A y \in {1, v} : x >= y
    BY DEF Pos
<1>2. Vol(s) \in {1, v} /\ Vol(s) >= 1
    BY <1>1 DEF Vol, Max
<1> QED BY <1>2 DEF Pos

\* The weights of a portfolio Q: shares n[s] of a common total d, each of them
\* in inverse proportion to the volatility, rounded and capped.
Shares(Q, n, N, d) ==
    /\ d \in Pos /\ n \in [Q -> Nat] /\ IsSum(N, n, Q) /\ N[Q] = d
    /\ \A s \in Q : WeightOf(Q, s) = IF Round(n[s], d) > MaxWeight THEN MaxWeight ELSE Round(n[s], d)
    /\ \A r, s \in Q : n[r] * Vol(r) = n[s] * Vol(s) /\ n[r] <= n[s] * Vol(s)

LEMMA WeightShares ==
    ASSUME NEW Q, IsFiniteSet(Q), Q # {}, \A s \in Q : Vol(s) \in Pos
    PROVE  \E n, N, d : Shares(Q, n, N, d)
<1> DEFINE f == [s \in Q |-> Vol(s)]
<1>1. PICK g : IsProduct(g, f, Q) /\ \A T \in SUBSET Q : Product(T) = g[T]
    BY ProductOf
<1> DEFINE n == [s \in Q |-> InverseVol(Q, s)]
<1>2. ASSUME NEW s \in Q PROVE /\ InverseVol(Q, s) = g[Q \ {s}]
                               /\ g[Q \ {s}] \in Pos /\ g[Q] \in Pos
                               /\ g[Q] = Vol(s) * g[Q \ {s}]
    <2>1. Q \ {s} \in SUBSET Q /\ Q \in SUBSET Q /\ f[s] = Vol(s)
        OBVIOUS
    <2>2. InverseVol(Q, s) = Product(Q \ {s})
        BY DEF InverseVol, Product
    <2>3. g[Q] = f[s] * g[Q \ {s}] /\ g[Q \ {s}] \in Pos /\ g[Q] \in Pos
        <3> HIDE DEF f
        <3> QED BY <1>1, <2>1 DEF IsProduct
    <2> QED BY <1>1, <2>1, <2>2, <2>3
<1>3. n \in [Q -> Nat] /\ \A s \in Q : InverseVol(Q, s) \in Nat /\ n[s] = g[Q \ {s}]
    BY <1>2 DEF Pos
<1> DEFINE d == MapThenSumSet(LAMBDA r : InverseVol(Q, r), Q)
<1>4. PICK N : IsSum(N, n, Q) /\ d = N[Q]
    BY <1>3, TotalInverseOf
<1>5. d \in Pos
    <2>1. PICK x \in Q : TRUE
        OBVIOUS
    <2>2. N[Q] = n[x] + N[Q \ {x}] /\ N[Q \ {x}] \in Nat
        <3>1. Q \in SUBSET Q /\ Q \ {x} \in SUBSET Q
            OBVIOUS
        <3> HIDE DEF n, d
        <3> QED BY <1>4, <2>1, <3>1 DEF IsSum
    <2>3. n[x] \in Pos
        BY <1>2, <1>3, <2>1
    <2> HIDE DEF n, d
    <2> QED BY <1>4, <2>2, <2>3 DEF Pos
<1>6. \A s \in Q : WeightOf(Q, s) = IF Round(n[s], d) > MaxWeight THEN MaxWeight ELSE Round(n[s], d)
    BY DEF WeightOf
<1>7. ASSUME NEW r \in Q, NEW s \in Q
      PROVE  n[r] * Vol(r) = n[s] * Vol(s) /\ n[r] <= n[s] * Vol(s)
    <2>1. /\ n[r] \in Pos /\ n[s] \in Pos /\ Vol(r) \in Pos /\ Vol(s) \in Pos
          /\ g[Q] = Vol(r) * n[r] /\ g[Q] = Vol(s) * n[s]
        BY <1>2, <1>3
    <2> DEFINE a == n[r]  b == n[s]  u == Vol(r)  v == Vol(s)
    <2>2. a \in Pos /\ b \in Pos /\ u \in Pos /\ v \in Pos /\ u * a = v * b
        BY <2>1
    <2> HIDE DEF a, b, u, v
    <2>3. a * u = b * v
        BY <2>2, Z3 DEF Pos
    <2>4. 1 <= u /\ a * 1 <= a * u /\ a * 1 = a
        BY <2>2, TimesMonotone DEF Pos
    <2>5. a <= b * v
        BY <2>3, <2>4
    <2> QED BY <2>3, <2>5 DEF a, b, u, v
<1> HIDE DEF n, d
<1> QED BY <1>3, <1>4, <1>5, <1>6, <1>7 DEF Shares

\* The limits keep every share large enough not to be rounded away.  With the
\* defaults, a volatility of at most 20 units and 10 positions, the product is 200.
FineGrained == MaxVolatility \in Nat \ {0} /\ MaxVolatility * MaxPositions <= 2 * Million

\* What WeightsFit says of weights w of a portfolio Q.
Weighed(w, Q, vol) ==
    /\ w \in [Securities -> 0 .. MaxWeight]
    /\ \A W : IsSum(W, w, Securities) => 2 * W[Securities] <= 2 * Million + Cardinality(Q)
    /\ \A s \in Securities \ Q : w[s] = 0
    /\ FineGrained => \A s \in Q : w[s] > 0
    /\ \A r, s \in Q : vol[r] <= vol[s] => w[r] >= w[s]

Vols == [s \in Securities |-> Vol(s)]

LEMMA NothingToWeigh == Weighed(NoWeight, {}, Vols)
<1>1. NoWeight \in [Securities -> 0 .. MaxWeight] /\ NoWeight \in [Securities -> Nat]
    BY MaxWeightNat DEF NoWeight
<1>2. ASSUME NEW W, IsSum(W, NoWeight, Securities)
      PROVE  2 * W[Securities] <= 2 * Million + Cardinality({})
    <2>1. \A s \in Securities : NoWeight[s] <= 0
        BY DEF NoWeight
    <2>2. W[Securities] <= Cardinality(Securities) * 0
        BY <1>1, <1>2, <2>1, SumOfBounded, RecommendationAssumption
    <2>3. Cardinality(Securities) * 0 = 0 /\ W[Securities] \in Nat /\ Cardinality({}) = 0
        BY <1>2, FS_EmptySet, FS_CardinalityType, RecommendationAssumption DEF IsSum
    <2> QED BY <2>2, <2>3, MillionNat
<1> QED BY <1>1, <1>2 DEF Weighed, NoWeight

LEMMA WeighedShares ==
    ASSUME NEW Q \in SUBSET Securities, Q # {}, Cardinality(Q) <= MaxPositions,
           \A s \in Q : Vol(s) \in Pos /\ (FineGrained => Vol(s) <= MaxVolatility),
           NEW w, w = [s \in Securities |-> IF s \in Q THEN WeightOf(Q, s) ELSE 0]
    PROVE  Weighed(w, Q, Vols)
<1>1. IsFiniteSet(Securities) /\ IsFiniteSet(Q) /\ Cardinality(Q) \in Nat
    BY FS_Subset, FS_CardinalityType, RecommendationAssumption
<1>2. PICK n, N, d : Shares(Q, n, N, d)
    BY <1>1, WeightShares
<1>3. /\ d \in Pos /\ n \in [Q -> Nat] /\ IsSum(N, n, Q) /\ N[Q] = d
      /\ \A s \in Q : w[s] = IF Round(n[s], d) > MaxWeight THEN MaxWeight ELSE Round(n[s], d)
      /\ \A r, s \in Q : n[r] * Vol(r) = n[s] * Vol(s) /\ n[r] <= n[s] * Vol(s)
    BY <1>2 DEF Shares
<1>4. ASSUME NEW s \in Q
      PROVE  /\ Round(n[s], d) \in Nat /\ w[s] \in 0 .. MaxWeight /\ w[s] <= Round(n[s], d)
             /\ w[s] = 0 => Round(n[s], d) = 0
    <2>1. Round(n[s], d) \in Nat
        BY <1>3, RoundFacts
    <2> QED BY <1>3, <2>1, MaxWeightNat
<1>5. w \in [Securities -> 0 .. MaxWeight] /\ w \in [Securities -> Nat]
    <2>1. \A s \in Securities : w[s] \in 0 .. MaxWeight
        <3>1. \A s \in Securities \ Q : w[s] = 0
            OBVIOUS
        <3> QED BY <1>4, <3>1, MaxWeightNat
    <2>2. w = [s \in Securities |-> w[s]]
        OBVIOUS
    <2>3. 0 .. MaxWeight \subseteq Nat
        BY MaxWeightNat
    <2> QED BY <2>1, <2>2, <2>3
<1>6. \A s \in Securities \ Q : w[s] = 0
    OBVIOUS
<1>7. ASSUME NEW W, IsSum(W, w, Securities) PROVE 2 * W[Securities] <= 2 * Million + Cardinality(Q)
    <2>1. ASSUME NEW s \in Q PROVE d * (2 * w[s]) <= (2 * Million) * n[s] + d
        <3> DEFINE z == Round(n[s], d)
        <3>1. z \in Nat /\ w[s] \in Nat /\ w[s] <= z /\ d * (2 * z) <= (2 * Million) * n[s] + d
            BY <1>3, <1>4, <1>5, RoundFacts
        <3> HIDE DEF z
        <3>2. d * (2 * w[s]) <= d * (2 * z) /\ d * (2 * w[s]) \in Nat /\ d * (2 * z) \in Nat
            BY <1>3, <3>1, TimesMonotone, TimesNat DEF Pos
        <3>3. (2 * Million) * n[s] + d \in Nat
            BY <1>3, MillionNat, TimesNat DEF Pos
        <3> QED BY <3>1, <3>2, <3>3
    <2>2. 2 * Million \in Nat /\ d \in Nat
        BY <1>3, MillionNat DEF Pos
    <2>3. d * (2 * W[Securities]) <= (2 * Million) * d + d * Cardinality(Q)
        BY <1>1, <1>3, <1>5, <1>6, <1>7, <2>1, <2>2, SumOfRounded
    <2>4. W[Securities] \in Nat
        BY <1>7 DEF IsSum
    <2>5. (2 * Million) * d + d * Cardinality(Q) = d * (2 * Million + Cardinality(Q))
        BY <1>1, <2>2, Z3
    <2> DEFINE x == 2 * W[Securities]  y == 2 * Million + Cardinality(Q)
    <2>6. x \in Int /\ y \in Int /\ d * x <= d * y
        BY <1>1, <2>2, <2>3, <2>4, <2>5
    <2> HIDE DEF x, y
    <2>7. x <= y
        BY <1>3, <2>6, CancelFactor
    <2> QED BY <2>7 DEF x, y
<1>8. ASSUME FineGrained, NEW s \in Q PROVE w[s] > 0
    <2> DEFINE top == n[s] * Vol(s)
               c == Cardinality(Q)
    <2>1. top \in Nat /\ n[s] \in Nat /\ Vol(s) \in Nat /\ \A r \in Q : n[r] <= top
        BY <1>3, TimesNat DEF Pos
    <2>2. d <= c * top
        <3> HIDE DEF top
        <3> QED BY <1>1, <1>3, <2>1, SumOfBounded
    <2>3. c * Vol(s) <= MaxVolatility * MaxPositions
        BY <1>1, <1>8, <2>1, RecommendationAssumption, Z3 DEF FineGrained
    <2>4. c * Vol(s) <= 2 * Million /\ c * Vol(s) \in Nat
        BY <1>1, <1>8, <2>1, <2>3, MillionNat, TimesNat, RecommendationAssumption DEF FineGrained
    <2>5. c * top = (c * Vol(s)) * n[s]
        BY <1>1, <2>1, Z3
    <2>6. (c * Vol(s)) * n[s] <= (2 * Million) * n[s]
        BY <2>1, <2>4, MillionNat, TimesMonotone
    <2>7. d <= (2 * Million) * n[s]
        <3> DEFINE x == c * top  y == (2 * Million) * n[s]
        <3>1. d \in Nat /\ x \in Nat /\ y \in Nat /\ d <= x /\ x <= y
            BY <1>1, <1>3, <2>1, <2>2, <2>5, <2>6, MillionNat, TimesNat DEF Pos
        <3> HIDE DEF x, y
        <3>2. d <= y
            BY <3>1
        <3> QED BY <3>2 DEF y
    <2>8. Round(n[s], d) >= 1
        BY <1>3, <2>7, RoundFacts
    <2> QED BY <1>4, <2>8
<1>9. ASSUME NEW r \in Q, NEW s \in Q, Vols[r] <= Vols[s] PROVE w[r] >= w[s]
    <2>1. /\ Vol(r) <= Vol(s) /\ n[r] * Vol(r) = n[s] * Vol(s)
          /\ n[r] \in Nat /\ n[s] \in Nat /\ Vol(r) \in Pos /\ Vol(s) \in Pos
        BY <1>3, <1>9 DEF Vols
    <2>2. n[s] <= n[r]
        <3> DEFINE a == n[r]  b == n[s]  u == Vol(r)  v == Vol(s)
        <3>1. a \in Nat /\ b \in Nat /\ u \in Pos /\ v \in Pos /\ u <= v /\ a * u = b * v
            BY <2>1
        <3> HIDE DEF a, b, u, v
        <3>2. b * u <= b * v
            BY <3>1, TimesMonotone DEF Pos
        <3>3. u * b <= u * a
            BY <3>1, <3>2, Z3 DEF Pos
        <3>4. b <= a
            BY <3>1, <3>3, CancelFactor
        <3> QED BY <3>4 DEF a, b
    <2>3. Round(n[s], d) <= Round(n[r], d)
        BY <1>3, <2>1, <2>2, RoundMonotone
    <2> QED BY <1>3, <1>4, <2>3, MaxWeightNat
<1> QED BY <1>5, <1>6, <1>7, <1>8, <1>9 DEF Weighed

-----------------------------------------------------------------------------
(* The loop of construct_portfolio, over any strict order of any finite set.*)

Better(order, S, s) == {r \in S : <<r, s>> \in order}

\* What the definition asks of s when S is the portfolio.
Fits(order, S, s) == /\ Cardinality(InMarket(Better(order, S, s), s)) < MaxPerMarket
                     /\ Cardinality(Better(order, S, s)) < MaxPositions

\* S is what the loop has picked from the rows of good outside L.
Loop(order, good, L, S) ==
    /\ L \subseteq good /\ S \subseteq good \ L
    /\ \A r \in good \ L, s \in L : <<r, s>> \in order
    /\ \A s \in good \ L : s \in S <=> Fits(order, S, s)
    /\ Cardinality(S) <= MaxPositions /\ (L # {} => Cardinality(S) < MaxPositions)

StrictOrder(order, good) ==
    /\ \A r \in good : <<r, r>> \notin order
    /\ \A r, s \in good : ~(<<r, s>> \in order /\ <<s, r>> \in order)

LEMMA StartLoop ==
    ASSUME NEW order, NEW good
    PROVE  Loop(order, good, good, {})
<1>1. Cardinality({}) = 0 /\ 0 < MaxPositions /\ 0 <= MaxPositions
    BY FS_EmptySet, RecommendationAssumption
<1> QED BY <1>1 DEF Loop

\* The rows that are better than the next one are the whole portfolio so far.
LEMMA BetterThanNext ==
    ASSUME NEW order, NEW good, NEW L, NEW S, Loop(order, good, L, S), NEW s \in L
    PROVE  Better(order, S, s) = S
BY DEF Loop, Better

LEMMA SkipKeepsLoop ==
    ASSUME NEW order, NEW good, NEW L, NEW S, Loop(order, good, L, S), NEW x \in L,
           \A r \in L \ {x} : <<x, r>> \in order,
           IsFiniteSet(S), Cardinality(InMarket(S, x)) >= MaxPerMarket
    PROVE  Loop(order, good, L \ {x}, S)
<1>1. Better(order, S, x) = S
    BY BetterThanNext
<1>2. Cardinality(InMarket(S, x)) \in Nat
    BY FS_Subset, FS_CardinalityType DEF InMarket
<1>3. ~Fits(order, S, x)
    BY <1>1, <1>2, RecommendationAssumption DEF Fits
<1> QED BY <1>3 DEF Loop

LEMMA TakeKeepsLoop ==
    ASSUME NEW order, NEW good, StrictOrder(order, good), NEW L, NEW S,
           Loop(order, good, L, S), NEW x \in L,
           \A r \in L \ {x} : <<x, r>> \in order,
           IsFiniteSet(S), Cardinality(InMarket(S, x)) < MaxPerMarket,
           NEW T, T = (IF Cardinality(S \cup {x}) >= MaxPositions THEN {} ELSE L \ {x})
    PROVE  Loop(order, good, T, S \cup {x})
<1> DEFINE S1 == S \cup {x}
<1>1. L \subseteq good /\ S \subseteq good \ L /\ x \in good
    BY DEF Loop
<1>2. /\ Cardinality(S) \in Nat /\ Cardinality(S1) = Cardinality(S) + 1
      /\ Cardinality(S1) <= MaxPositions
    <2>1. Cardinality(S) \in Nat /\ Cardinality(S1) = Cardinality(S) + 1
        BY <1>1, FS_AddElement, FS_CardinalityType
    <2>2. Cardinality(S) < MaxPositions
        BY DEF Loop
    <2> HIDE DEF S1
    <2> QED BY <2>1, <2>2, RecommendationAssumption
<1>3. ASSUME NEW s \in good \ L PROVE Better(order, S1, s) = Better(order, S, s)
    BY <1>1 DEF Loop, StrictOrder, Better
<1>4. ASSUME NEW s \in good \ L PROVE s \in S1 <=> Fits(order, S1, s)
    <2>1. s \in S <=> Fits(order, S, s)
        BY DEF Loop
    <2> QED BY <1>1, <1>3, <2>1 DEF Fits
<1>5. Better(order, S1, x) = S
    BY <1>1, BetterThanNext DEF StrictOrder, Better
<1>6. Fits(order, S1, x)
    BY <1>5 DEF Fits, Loop
<1>7. ASSUME NEW s \in L \ {x} PROVE Better(order, S1, s) = S1
    BY BetterThanNext DEF Better
<1>8. CASE Cardinality(S1) >= MaxPositions
    <2>1. ASSUME NEW s \in L \ {x} PROVE ~Fits(order, S1, s) /\ s \notin S1
        <3>1. s \notin S1
            BY <1>1
        <3>2. ~(Cardinality(S1) < MaxPositions)
            BY <1>2, <1>8, RecommendationAssumption
        <3>3. Better(order, S1, s) = S1
            BY <1>7
        <3> HIDE DEF S1
        <3> QED BY <3>1, <3>2, <3>3 DEF Fits
    <2>2. \A s \in good : s \in S1 <=> Fits(order, S1, s)
        BY <1>1, <1>4, <1>6, <2>1
    <2> QED BY <1>1, <1>2, <1>8, <2>2 DEF Loop
<1>9. CASE ~(Cardinality(S1) >= MaxPositions)
    <2>1. T = L \ {x} /\ Cardinality(S1) < MaxPositions
        BY <1>2, <1>9, RecommendationAssumption
    <2>2. \A s \in good \ T : s \in S1 <=> Fits(order, S1, s)
        BY <1>1, <1>4, <1>6, <2>1
    <2>3. \A r \in good \ T, s \in T : <<r, s>> \in order
        BY <2>1 DEF Loop
    <2> QED BY <1>1, <1>2, <2>1, <2>2, <2>3 DEF Loop
<1> QED BY <1>8, <1>9

LEMMA LoopDone ==
    ASSUME NEW order, NEW good, NEW S, Loop(order, good, {}, S)
    PROVE  S = {s \in good : Fits(order, S, s)} /\ Cardinality(S) <= MaxPositions
BY DEF Loop

-----------------------------------------------------------------------------
(* The pipeline around the loop. *)

\* The keys of the rows that had become available by the decision.
Keys == {k \in Securities \X Dates : table[k] # NoQuote /\ table[k].avail \in 1 .. Decision}

\* The rows that pass the quality filters, and those a portfolio may hold.
Filtered == {s \in Securities : History(Keys, s) # {} /\ Verdict(Keys, s) = "none"}
Good     == Investable(Keys, Filtered)
Order    == {p \in Good \X Good : Before(Keys, p[1], p[2])}

\* Every row is a quote.
LEMMA QuoteOfKey ==
    ASSUME table \in Tables, NEW k \in Securities \X Dates
    PROVE  table[k] \in Quote /\ table[k].avail \in Nat
BY RecommendationAssumption DEF Quote

LEMMA AvailableKeys ==
    ASSUME table \in Tables
    PROVE  Keys = {k \in Securities \X Dates : table[k] # NoQuote /\ Available(table[k])}
<1>1. \A k \in Securities \X Dates : Available(table[k]) <=> table[k].avail \in 1 .. Decision
    BY QuoteOfKey, RecommendationAssumption DEF Available
<1> QED BY <1>1 DEF Keys

\* Scores of rows with a history are integers.
LEMMA FactorsAreNumbers ==
    ASSUME table \in Tables, NEW keys, NEW s \in Securities, History(keys, s) # {}
    PROVE  /\ Closes(keys, s) = [d \in History(keys, s) |-> table[<<s, d>>].close]
           /\ ScoreOf(keys, s) \in Int
           /\ Confidence(Closes(keys, s)) \in Int
           /\ Volatility(Closes(keys, s)) \in Int
<1>1. History(keys, s) \in (SUBSET Dates) \ {{}}
    BY DEF History
<1>2. Closes(keys, s) = [d \in History(keys, s) |-> table[<<s, d>>].close]
    BY DEF Closes
<1> HIDE DEF History
<1> QED BY <1>1, <1>2, FactorAssumption DEF ScoreOf

LEMMA OrderIsStrict ==
    ASSUME table \in Tables
    PROVE  /\ IsFiniteSet(Good) /\ Good \subseteq Securities
           /\ StrictOrder(Order, Good)
           /\ \A r, s \in Good : <<r, s>> \in Order <=> Before(Keys, r, s)
<1>1. Good \subseteq Securities /\ Good \subseteq Filtered
    BY DEF Good, Filtered, Investable
<1>2. IsFiniteSet(Good)
    BY <1>1, FS_Subset, RecommendationAssumption
<1>3. \A r \in Good : ScoreOf(Keys, r) \in Int /\ r \in Nat
    BY <1>1, FactorsAreNumbers, RecommendationAssumption DEF Filtered
<1>4. \A r, s \in Good : <<r, s>> \in Order <=> Before(Keys, r, s)
    BY DEF Order
<1>5. \A r \in Good : ~Before(Keys, r, r)
    BY <1>3 DEF Before
<1>6. \A r, s \in Good : ~(Before(Keys, r, s) /\ Before(Keys, s, r))
    BY <1>3 DEF Before
<1> QED BY <1>1, <1>2, <1>4, <1>5, <1>6 DEF StrictOrder

\* The portfolio by the order is the portfolio by definition.
LEMMA FitsIsPortfolio ==
    ASSUME table \in Tables, NEW S, S = {s \in Good : Fits(Order, S, s)}
    PROVE  IsPortfolio(S, Keys)
<1>1. S \subseteq Good
    OBVIOUS
<1>2. \A s \in Good : Better(Order, S, s) = {r \in S : Before(Keys, r, s)}
    BY <1>1, OrderIsStrict DEF Better
<1>3. S = {s \in Good : /\ Cardinality(InMarket({r \in S : Before(Keys, r, s)}, s)) < MaxPerMarket
                        /\ Cardinality({r \in S : Before(Keys, r, s)}) < MaxPositions}
    BY <1>2 DEF Fits
<1> HIDE DEF Keys
<1> QED BY <1>3 DEF IsPortfolio, Good, Filtered

\* The finished portfolio is the one that fits the order.
Portfolio == /\ Picked = {s \in Good : Fits(Order, Picked, s)}
             /\ Cardinality(Picked) <= MaxPositions

-----------------------------------------------------------------------------
(* The inductive invariant. *)

Early == {"validate", "features", "save_features", "candidates", "filter", "save_audit", "rank"}
Late  == {"weigh", "save", "done"}

\* Each step has left what the next ones rely on.
PipelineInv ==
    /\ table \in Tables
    /\ pc \in Early \cup {"select", "raised"} \cup Late
    /\ pc = "features" => eligible = Keys
    /\ pc \notin {"validate", "features", "raised"} => features = Keys
    /\ pc = "filter" => candidates = {s \in Securities : History(Keys, s) # {}}
    /\ pc \in {"save_audit", "rank"} => ranked = Filtered
    /\ pc \in Early => chosen = <<>>
    /\ pc = "select" =>
         /\ Loop(Order, Good, left, Picked)
         /\ chosen \in Seq(Good) /\ Len(chosen) = Cardinality(Picked)
    /\ pc \in Late => Portfolio
    /\ pc \in {"save", "done"} => Weighed(weight, Picked, Vols)

\* The rows do not change, and neither does what is defined from them.
LEMMA SameTable ==
    ASSUME table' = table
    PROVE  /\ Keys' = Keys /\ Filtered' = Filtered /\ Good' = Good /\ Order' = Order
<1>1. Keys' = Keys
    BY DEF Keys
<1>2. Filtered' = Filtered
    <2>1. ASSUME NEW s \in Securities PROVE Verdict(Keys, s)' = Verdict(Keys, s)
        BY <1>1 DEF Verdict, LatestQuote, Latest, ReturnTooLarge, Closes, History
    <2>2. ASSUME NEW s \in Securities PROVE History(Keys, s)' = History(Keys, s)
        BY <1>1 DEF History
    <2> QED BY <2>1, <2>2 DEF Filtered
<1>3. ASSUME NEW s \in Securities PROVE ScoreOf(Keys, s)' = ScoreOf(Keys, s)
    BY <1>1 DEF ScoreOf, Closes, History
<1>4. Good' = Good
    <2>1. ASSUME NEW s \in Securities PROVE Confidence(Closes(Keys, s))' = Confidence(Closes(Keys, s))
        BY <1>1 DEF Closes, History
    <2> QED BY <1>2, <1>3, <2>1 DEF Good, Investable, Filtered
<1>5. Order' = Order
    <2>1. Good \subseteq Securities
        BY DEF Good, Investable, Filtered
    <2>2. ASSUME NEW r \in Good, NEW s \in Good PROVE Before(Keys, r, s)' = Before(Keys, r, s)
        BY <1>3, <2>1 DEF Before
    <2> QED BY <1>4, <2>2 DEF Order
<1> QED BY <1>1, <1>2, <1>4, <1>5

LEMMA SamePortfolio ==
    ASSUME table' = table, chosen' = chosen
    PROVE  Portfolio' = Portfolio
<1>1. Good' = Good /\ Order' = Order /\ Picked' = Picked
    BY SameTable DEF Picked
<1> HIDE DEF Picked
<1> QED BY <1>1 DEF Portfolio, Fits, Better, InMarket

LEMMA SameVols ==
    ASSUME table' = table, features' = features
    PROVE  Vols' = Vols
<1>1. ASSUME NEW s PROVE Vol(s)' = Vol(s)
    BY DEF Vol, Closes, History
<1> QED BY <1>1 DEF Vols

\* The volatility of what may be picked is positive and passed the filter.
LEMMA VolOfGood ==
    ASSUME table \in Tables, features = Keys, NEW s \in Good
    PROVE  Vol(s) \in Pos /\ (FineGrained => Vol(s) <= MaxVolatility)
<1>1. s \in Securities /\ History(Keys, s) # {} /\ Verdict(Keys, s) = "none"
    BY DEF Good, Filtered, Investable
<1> DEFINE v == Volatility(Closes(Keys, s))
<1>2. v \in Int
    BY <1>1, FactorsAreNumbers
<1>3. Vol(s) \in Pos /\ (Vol(s) = 1 \/ Vol(s) = v)
    BY <1>2, VolIsPositive
<1>4. ~(v > MaxVolatility)
    BY <1>1 DEF Verdict
<1> HIDE DEF v
<1> QED BY <1>2, <1>3, <1>4 DEF FineGrained

LEMMA PickedAppend ==
    ASSUME NEW S, chosen \in Seq(S), NEW s \in S, chosen' = Append(chosen, s)
    PROVE  /\ Picked' = Picked \cup {s}
           /\ chosen' \in Seq(S) /\ Len(chosen') = Len(chosen) + 1
BY DEF Picked

LEMMA PipelineInit == Init => PipelineInv
BY DEF Init, PipelineInv, Early, Late

LEMMA PipelineStep == PipelineInv /\ [Next]_vars => PipelineInv'
<1> SUFFICES ASSUME PipelineInv, [Next]_vars PROVE PipelineInv'
    OBVIOUS
<1>0. table \in Tables
    BY DEF PipelineInv
<1>1. CASE Validate
    <2>1. eligible' = Keys
        BY <1>0, <1>1, AvailableKeys DEF Validate
    <2>2. Keys' = Keys
        BY <1>1, SameTable DEF Validate
    <2> QED BY <1>1, <2>1, <2>2 DEF Validate, PipelineInv, Early, Late
<1>2. CASE BuildFeatures
    <2>1. Keys' = Keys
        BY <1>2, SameTable DEF BuildFeatures
    <2>2. features' = Keys
        <3>1. eligible = Keys /\ features' = {k \in eligible : Available(table[k])}
            BY <1>2 DEF BuildFeatures, PipelineInv
        <3> QED BY <1>0, <3>1, AvailableKeys
    <2> QED BY <1>2, <2>1, <2>2 DEF BuildFeatures, PipelineInv, Early, Late
<1>3. CASE SaveFeatures \/ SaveAudit \/ SaveRecommendations
    <2>1. /\ Keys' = Keys /\ Filtered' = Filtered
          /\ Portfolio' = Portfolio
        <3>1. table' = table /\ chosen' = chosen
            BY <1>3 DEF SaveFeatures, SaveAudit, SaveRecommendations, Save
        <3> QED BY <3>1, SameTable, SamePortfolio
    <2>2. Vols' = Vols /\ Picked' = Picked /\ weight' = weight
        <3>1. table' = table /\ features' = features /\ chosen' = chosen /\ weight' = weight
            BY <1>3 DEF SaveFeatures, SaveAudit, SaveRecommendations, Save
        <3> QED BY <3>1, SameVols DEF Picked
    <2>3. Weighed(weight, Picked, Vols) => Weighed(weight', Picked', Vols')
        BY <2>2
    <2> QED BY <1>3, <2>1, <2>3 DEF SaveFeatures, SaveAudit, SaveRecommendations, Save,
                                    PipelineInv, Early, Late, Weighed
<1>4. CASE LatestCandidates
    <2>1. Keys' = Keys
        BY <1>4, SameTable DEF LatestCandidates
    <2>2. features = Keys
        BY <1>4 DEF LatestCandidates, PipelineInv
    <2>3. candidates' = {s \in Securities : History(Keys', s) # {}}
        BY <1>4, <2>1, <2>2 DEF LatestCandidates
    <2> QED BY <1>4, <2>1, <2>2, <2>3 DEF LatestCandidates, PipelineInv, Early, Late, History
<1>5. CASE FilterCandidates
    <2>1. Keys' = Keys /\ Filtered' = Filtered
        BY <1>5, SameTable DEF FilterCandidates
    <2>2. ranked' = Filtered
        BY <1>5 DEF FilterCandidates, PipelineInv, Filtered
    <2> QED BY <1>5, <2>1, <2>2 DEF FilterCandidates, PipelineInv, Early, Late
<1>6. CASE Rank
    <2>1. Keys' = Keys /\ Good' = Good /\ Order' = Order
        BY <1>6, SameTable DEF Rank
    <2>2. left' = Good /\ chosen' = <<>>
        BY <1>6 DEF Rank, PipelineInv, Early, Good
    <2>3. Picked' = {}
        BY <2>2 DEF Picked
    <2>4. Loop(Order, Good, Good, {})
        BY StartLoop
    <2>5. Len(<<>>) = Cardinality({}) /\ <<>> \in Seq(Good)
        BY FS_EmptySet
    <2>6. Loop(Order', Good', left', Picked')
        BY <2>1, <2>2, <2>3, <2>4
    <2> QED BY <1>6, <2>1, <2>2, <2>3, <2>5, <2>6 DEF Rank, PipelineInv, Early, Late, Loop
<1>7. CASE Select
    <2>1. /\ Keys' = Keys /\ Good' = Good /\ Order' = Order
          /\ pc = "select" /\ pc' = "select" /\ table' = table /\ features' = features
        BY <1>7, SameTable DEF Select
    <2>2. /\ Loop(Order, Good, left, Picked) /\ features = Keys
          /\ chosen \in Seq(Good) /\ Len(chosen) = Cardinality(Picked)
        BY <2>1 DEF PipelineInv
    <2>3. left \subseteq Good /\ Picked \subseteq Good \ left
        BY <2>2 DEF Loop
    <2>4. /\ IsFiniteSet(Good) /\ StrictOrder(Order, Good)
          /\ \A r, s \in Good : <<r, s>> \in Order <=> Before(Keys, r, s)
        BY <1>0, OrderIsStrict
    <2>5. IsFiniteSet(Picked)
        BY <2>3, <2>4, FS_Subset
    <2>6. PICK s \in left :
            /\ \A r \in left \ {s} : Before(features, s, r)
            /\ \/ /\ Cardinality(InMarket(Picked, s)) >= MaxPerMarket
                  /\ left' = left \ {s}
                  /\ chosen' = chosen
               \/ /\ Cardinality(InMarket(Picked, s)) < MaxPerMarket
                  /\ chosen' = Append(chosen, s)
                  /\ left' = IF Len(chosen') >= MaxPositions THEN {} ELSE left \ {s}
        BY <1>7 DEF Select
    <2>7. \A r \in left \ {s} : <<s, r>> \in Order
        BY <2>2, <2>3, <2>4, <2>6
    <2>8. /\ Loop(Order, Good, left', Picked')
          /\ chosen' \in Seq(Good) /\ Len(chosen') = Cardinality(Picked')
        <3>1. CASE Cardinality(InMarket(Picked, s)) >= MaxPerMarket /\ left' = left \ {s} /\ chosen' = chosen
            <4>1. Picked' = Picked
                BY <3>1 DEF Picked
            <4> QED BY <2>2, <2>5, <2>7, <3>1, <4>1, SkipKeepsLoop
        <3>2. CASE /\ Cardinality(InMarket(Picked, s)) < MaxPerMarket
                   /\ chosen' = Append(chosen, s)
                   /\ left' = IF Len(chosen') >= MaxPositions THEN {} ELSE left \ {s}
            <4>1. /\ Picked' = Picked \cup {s} /\ chosen' \in Seq(Good)
                  /\ Len(chosen') = Len(chosen) + 1
                BY <2>2, <2>3, <3>2, PickedAppend
            <4>2. Cardinality(Picked \cup {s}) = Len(chosen')
                BY <2>2, <2>3, <2>5, <4>1, FS_AddElement
            <4>3. left' = IF Cardinality(Picked \cup {s}) >= MaxPositions THEN {} ELSE left \ {s}
                BY <3>2, <4>2
            <4>4. Loop(Order, Good, left', Picked \cup {s})
                BY <2>2, <2>4, <2>5, <2>7, <3>2, <4>3, TakeKeepsLoop
            <4> QED BY <4>1, <4>2, <4>4
        <3> QED BY <2>6, <3>1, <3>2
    <2>9. Loop(Order', Good', left', Picked') /\ chosen' \in Seq(Good')
        BY <2>1, <2>8
    <2> QED BY <2>1, <2>2, <2>8, <2>9 DEF PipelineInv, Early, Late, Loop
<1>8. CASE SelectDone
    <2>1. /\ Keys' = Keys /\ pc = "select" /\ left = {} /\ pc' = "weigh" /\ table' = table
          /\ features' = features /\ chosen' = chosen
        BY <1>8, SameTable DEF SelectDone
    <2>2. Portfolio
        BY <2>1, LoopDone DEF PipelineInv, Portfolio
    <2>3. Portfolio'
        BY <2>1, <2>2, SamePortfolio
    <2> QED BY <2>1, <2>3 DEF PipelineInv, Early, Late
<1>9. CASE Weigh
    <2>1. /\ Keys' = Keys /\ pc = "weigh" /\ pc' = "save" /\ table' = table
          /\ features' = features /\ chosen' = chosen
        BY <1>9, SameTable DEF Weigh
    <2>2. Portfolio'
        BY <2>1, SamePortfolio DEF PipelineInv, Late
    <2>3. Portfolio /\ features = Keys
        BY <2>1 DEF PipelineInv, Late
    <2>4. Picked \subseteq Good /\ Good \subseteq Securities /\ Cardinality(Picked) <= MaxPositions
        BY <1>0, <2>3, OrderIsStrict DEF Portfolio
    <2>5. \A s \in Picked : Vol(s) \in Pos /\ (FineGrained => Vol(s) <= MaxVolatility)
        BY <1>0, <2>3, <2>4, VolOfGood
    <2>6. weight' = [s \in Securities |-> IF s \in Picked THEN WeightOf(Picked, s) ELSE 0]
        BY <1>9 DEF Weigh
    <2>7. Weighed(weight', Picked, Vols)
        <3>1. CASE Picked = {}
            <4>1. weight' = NoWeight
                BY <2>6, <3>1 DEF NoWeight
            <4> QED BY <3>1, <4>1, NothingToWeigh
        <3>2. CASE Picked # {}
            <4> HIDE DEF Picked
            <4> QED BY <2>4, <2>5, <2>6, <3>2, WeighedShares
        <3> QED BY <3>1, <3>2
    <2>8. Picked' = Picked /\ Vols' = Vols
        BY <2>1, SameVols DEF Picked
    <2>9. Weighed(weight', Picked', Vols')
        BY <2>7, <2>8
    <2> QED BY <2>1, <2>2, <2>9 DEF PipelineInv, Early, Late, Weighed
<1>10. CASE UNCHANGED vars
    <2>1. /\ table' = table /\ pc' = pc /\ eligible' = eligible /\ features' = features
          /\ candidates' = candidates /\ ranked' = ranked /\ left' = left /\ chosen' = chosen
          /\ weight' = weight
        BY <1>10 DEF vars
    <2>2. /\ Keys' = Keys /\ Filtered' = Filtered /\ Good' = Good /\ Order' = Order
          /\ Picked' = Picked
        BY <2>1, SameTable DEF Picked
    <2>3. Portfolio' = Portfolio
        BY <2>1, SamePortfolio
    <2>4. Loop(Order, Good, left, Picked) => Loop(Order', Good', left', Picked')
        BY <2>1, <2>2
    <2>5. Weighed(weight, Picked, Vols) => Weighed(weight', Picked', Vols')
        BY <2>1, <2>2, SameVols
    <2> QED BY <2>1, <2>2, <2>3, <2>4, <2>5 DEF PipelineInv, Early, Late, Loop, Weighed, History
<1> QED BY <1>1, <1>2, <1>3, <1>4, <1>5, <1>6, <1>7, <1>8, <1>9, <1>10 DEF Next, Step, Ended

\* PortfolioByDefinition, for every set of securities and dates, every daily
\* table and every scoring: the greedy loop of construct_portfolio leaves the
\* portfolio the definition gives for the rows available at the decision time.
THEOREM GreedyPortfolio == Spec => []PortfolioByDefinition
<1>1. PipelineInv => PortfolioByDefinition
    BY FitsIsPortfolio DEF PipelineInv, Portfolio, PortfolioByDefinition, Late, Keys
<1> QED BY <1>1, PipelineInit, PipelineStep, PTL DEF Spec

\* WeightsFit, for every portfolio that inverse volatility weights can be worked
\* out for: whatever the volatilities, rounding to six decimals never makes the
\* weights ask for more than the account and half a millionth each, the cap
\* holds, and steadier securities get no less.  That every selected row gets
\* something needs the filter on the volatility and the limit on the positions
\* to keep each share above half a millionth: FineGrained.
THEOREM WeightsAlwaysFit == FineGrained /\ Spec => []WeightsFit
<1> SUFFICES ASSUME FineGrained PROVE Spec => []WeightsFit
    OBVIOUS
<1>1. ASSUME PipelineInv PROVE WeightsFit
    <2> SUFFICES ASSUME pc \in {"save", "done"} PROVE WeightsFit
        BY DEF WeightsFit
    <2>1. /\ table \in Tables /\ Portfolio /\ Weighed(weight, Picked, Vols)
        BY <1>1 DEF PipelineInv, Late
    <2>2. Picked \subseteq Securities
        BY <2>1, OrderIsStrict DEF Portfolio
    <2>3. weight \in [Securities -> Nat] /\ \A s \in Securities : weight[s] \in 0 .. MaxWeight
        <3>1. 0 .. MaxWeight \subseteq Nat
            BY MaxWeightNat
        <3>2. weight \in [Securities -> 0 .. MaxWeight]
            BY <2>1 DEF Weighed
        <3> QED BY <3>1, <3>2
    <2>4. 2 * MapThenSumSet(LAMBDA s : weight[s], Securities) <= 2 * Million + Cardinality(Picked)
        <3>1. PICK W : /\ IsSum(W, weight, Securities)
                       /\ MapThenSumSet(LAMBDA r : weight[r], Securities) = W[Securities]
            BY <2>3, TotalWeightOf
        <3>2. 2 * W[Securities] <= 2 * Million + Cardinality(Picked)
            BY <2>1, <3>1 DEF Weighed
        <3> QED BY <3>1, <3>2
    <2>5. \A s \in Securities : weight[s] <= MaxWeight /\ (weight[s] > 0 <=> s \in Picked)
        <3>1. ASSUME NEW s \in Securities PROVE weight[s] <= MaxWeight
            BY <2>3, MaxWeightNat
        <3>2. ASSUME NEW s \in Securities PROVE weight[s] > 0 <=> s \in Picked
            BY <2>1 DEF Weighed
        <3> QED BY <3>1, <3>2
    <2>6. \A r, s \in Picked : Vol(r) <= Vol(s) => weight[r] >= weight[s]
        BY <2>1, <2>2 DEF Weighed, Vols
    <2> QED BY <2>4, <2>5, <2>6 DEF WeightsFit
<1> QED BY <1>1, PipelineInit, PipelineStep, PTL DEF Spec

-----------------------------------------------------------------------------
(* Types.  A step fills a variable that nothing has filled before it. *)

Unfilled ==
    /\ pc = "validate" => eligible = {}
    /\ pc \in {"validate", "features"} => features = {}
    /\ pc \in {"validate", "features", "save_features", "candidates"} => candidates = {}
    /\ pc \in Early \ {"save_audit", "rank"} => audit = <<>> /\ ranked = {}
    /\ pc \in Early => left = {} /\ chosen = <<>>

LEMMA TypeInit == Init => TypeOK /\ Unfilled
<1> SUFFICES ASSUME Init PROVE TypeOK /\ Unfilled
    OBVIOUS
<1>1. weight \in [Securities -> 0 .. Million]
    BY MillionNat DEF Init, NoWeight
<1>2. table \in [Securities \X Dates -> Quote]
    BY RecommendationAssumption DEF Init
<1>3. chosen \in Seq(ranked) /\ Picked = {} /\ Len(chosen) = Cardinality(Picked)
    <2>1. chosen = <<>> /\ chosen \in Seq(ranked) /\ Len(chosen) = 0
        BY DEF Init
    <2>2. Picked = {}
        BY <2>1 DEF Picked
    <2> QED BY <2>1, <2>2, FS_EmptySet
<1>4. audit \in [DOMAIN audit -> Reasons] /\ DOMAIN audit \subseteq candidates
    BY DEF Init
<1> QED BY <1>1, <1>2, <1>3, <1>4 DEF Init, TypeOK, Unfilled, Early

LEMMA TypeStep == PipelineInv /\ PipelineInv' /\ TypeOK /\ Unfilled /\ [Next]_vars => TypeOK' /\ Unfilled'
<1> SUFFICES ASSUME PipelineInv, PipelineInv', TypeOK, Unfilled, [Next]_vars
             PROVE  TypeOK' /\ Unfilled'
    OBVIOUS
<1>1. CASE Validate
    BY <1>1 DEF Validate, TypeOK, Unfilled, Early, Picked
<1>2. CASE BuildFeatures
    BY <1>2 DEF BuildFeatures, TypeOK, Unfilled, Early, Picked
<1>3. CASE SaveFeatures
    BY <1>3 DEF SaveFeatures, Save, TypeOK, Unfilled, Early, Picked, Snapshots
<1>4. CASE LatestCandidates
    BY <1>4 DEF LatestCandidates, TypeOK, Unfilled, Early, Picked
<1>5. CASE FilterCandidates
    <2>1. \A r \in candidates : Verdict(features, r) # "none" => Verdict(features, r) \in Reasons
        BY DEF Verdict, Reasons
    <2>2. /\ audit' \in [DOMAIN audit' -> Reasons] /\ DOMAIN audit' \subseteq candidates
          /\ ranked' \subseteq candidates /\ candidates' = candidates
        BY <1>5, <2>1 DEF FilterCandidates
    <2>3. left' = {} /\ chosen' = <<>> /\ chosen' \in Seq(ranked') /\ Picked' = {} /\ Len(chosen') = 0
        BY <1>5 DEF FilterCandidates, Unfilled, Early, Picked
    <2>4. Cardinality(Picked') = 0
        BY <2>3, FS_EmptySet
    <2> QED BY <1>5, <2>2, <2>3, <2>4 DEF FilterCandidates, TypeOK, Unfilled, Early
<1>6. CASE SaveAudit
    BY <1>6 DEF SaveAudit, Save, TypeOK, Unfilled, Early, Picked, Snapshots
<1>7. CASE Rank
    <2>1. left' \subseteq ranked
        BY <1>7 DEF Rank, Investable
    <2> QED BY <1>7, <2>1 DEF Rank, TypeOK, Unfilled, Early, Picked
<1>8. CASE Select
    <2>1. pc' = "select" /\ Len(chosen') = Cardinality(Picked') /\ ranked' = ranked
        BY <1>8 DEF Select, PipelineInv
    <2>2. left' \subseteq left /\ chosen' \in Seq(ranked)
        <3>1. PICK s \in left : /\ left' = left \ {s} \/ left' = {}
                                /\ chosen' = chosen \/ chosen' = Append(chosen, s)
            BY <1>8 DEF Select
        <3>2. chosen \in Seq(ranked) /\ s \in ranked
            BY DEF TypeOK
        <3> QED BY <3>1, <3>2
    <2> QED BY <1>8, <2>1, <2>2 DEF Select, TypeOK, Unfilled, Early
<1>9. CASE SelectDone
    BY <1>9 DEF SelectDone, TypeOK, Unfilled, Early, Picked
<1>10. CASE Weigh
    <2>1. weight' \in [Securities -> 0 .. MaxWeight]
        BY <1>10 DEF Weigh, PipelineInv, Weighed
    <2>2. weight' \in [Securities -> 0 .. Million]
        <3>1. 0 .. MaxWeight \subseteq 0 .. Million
            BY MillionNat, MaxWeightNat
        <3> QED BY <2>1, <3>1
    <2>3. /\ pc' = "save"
          /\ UNCHANGED <<table, eligible, features, candidates, audit, ranked, left, chosen, stored>>
        BY <1>10 DEF Weigh
    <2> QED BY <2>2, <2>3 DEF TypeOK, Unfilled, Early, Picked
<1>11. CASE SaveRecommendations
    BY <1>11 DEF SaveRecommendations, Save, TypeOK, Unfilled, Early, Picked, Snapshots
<1>12. CASE UNCHANGED vars
    BY <1>12 DEF vars, TypeOK, Unfilled, Early, Picked
<1> QED BY <1>1, <1>2, <1>3, <1>4, <1>5, <1>6, <1>7, <1>8, <1>9, <1>10, <1>11, <1>12
           DEF Next, Step, Ended

\* TypeOK: every variable keeps its type, features come from validated rows
\* only, ranked rows from the candidates, no security is selected twice, and
\* every weight is a fraction of the account.
THEOREM RecommendationTypeCorrect == Spec => []TypeOK
BY PipelineInit, PipelineStep, TypeInit, TypeStep, PTL DEF Spec
=============================================================================
