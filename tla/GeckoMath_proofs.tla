---------------------------- MODULE GeckoMath_proofs ---------------------------
(***************************************************************************)
(* Facts about natural-number products and basis-point arithmetic, and     *)
(* about sums over finite sets.  The facts about sums go by induction over *)
(* the subsets of a finite set, which strict inclusion makes well-founded. *)
(***************************************************************************)
EXTENDS GeckoMath, Functions, FiniteSets, FiniteSetTheorems, WellFoundedInduction, TLAPS

\* Multiplying by a natural number preserves the order.
LEMMA TimesMonotone ==
    ASSUME NEW a \in Nat, NEW b \in Nat, NEW d \in Nat, a <= b
    PROVE  /\ a * d \in Nat /\ b * d \in Nat
           /\ a * d <= b * d
           /\ d * a = a * d /\ d * b = b * d
  <1>1. PICK k \in Nat : b = a + k
    <2>1. b - a \in Nat /\ b = a + (b - a)
      OBVIOUS
    <2> QED BY <2>1
  <1>2. b * d = a * d + k * d
    BY <1>1
  <1>3. k * d \in Nat /\ a * d \in Nat
    OBVIOUS
  <1> QED
    BY <1>2, <1>3

\* A factor of a larger product is larger.
LEMMA TimesCancel ==
    ASSUME NEW a \in Nat, NEW b \in Nat, NEW d \in Nat \ {0}, a * d <= b * d
    PROVE  a <= b
  <1>1. SUFFICES ASSUME b + 1 <= a PROVE FALSE
    OBVIOUS
  <1>2. (b + 1) * d <= a * d
    BY <1>1, TimesMonotone
  <1>3. (b + 1) * d = b * d + d
    OBVIOUS
  <1>4. a * d \in Nat /\ b * d \in Nat
    BY TimesMonotone
  <1> QED
    BY <1>2, <1>3, <1>4

\* Integer division by a positive number, characterised.
LEMMA DivFacts ==
    ASSUME NEW a \in Nat, NEW b \in Nat \ {0}
    PROVE  /\ a \div b \in Nat
           /\ (a \div b) * b <= a
           /\ a < (a \div b) * b + b
  OBVIOUS

\* A share of an amount in basis points, rounded down, never exceeds the amount:
\* fees leave a share to pay, and payouts leave a principal to keep.
LEMMA BpsOfBounds ==
    ASSUME NEW amount \in Nat, NEW bps \in 0..BPS_DENOMINATOR
    PROVE  /\ BpsOf(amount, bps) \in Nat
           /\ BpsOf(amount, bps) <= amount
           /\ BpsOf(amount, bps) * BPS_DENOMINATOR <= amount * bps
  <1>1. BPS_DENOMINATOR \in Nat \ {0} /\ bps \in Nat /\ bps <= BPS_DENOMINATOR
    BY DEF BPS_DENOMINATOR
  <1>2. amount * bps \in Nat /\ amount * BPS_DENOMINATOR \in Nat
    BY <1>1, TimesMonotone
  <1>3. amount * bps <= amount * BPS_DENOMINATOR
    BY <1>1, TimesMonotone
  <1>4. /\ BpsOf(amount, bps) \in Nat
        /\ BpsOf(amount, bps) * BPS_DENOMINATOR <= amount * bps
    BY <1>1, <1>2, DivFacts DEF BpsOf
  <1>5. BpsOf(amount, bps) * BPS_DENOMINATOR \in Nat
    BY <1>1, <1>4, TimesMonotone
  <1>6. BpsOf(amount, bps) * BPS_DENOMINATOR <= amount * BPS_DENOMINATOR
    BY <1>2, <1>3, <1>4, <1>5
  <1> QED
    BY <1>1, <1>4, <1>6, TimesCancel

\* Induction over the subsets of a finite set, for a set `good` of them: it needs no
\* operator as a parameter, only that inclusion is well founded on finite sets.
LEMMA StrongSubsetInduction ==
    ASSUME NEW S, IsFiniteSet(S), NEW good,
           \A T \in SUBSET S : (\A U \in SUBSET T : U # T => U \in good) => T \in good
    PROVE  S \in good
  <1> SUFFICES ASSUME S \notin good PROVE FALSE
    OBVIOUS
  <1> DEFINE Bad == {T \in SUBSET S : T \notin good}
  <1>1. IsWellFoundedOn(StrictSubsetOrdering(S), SUBSET S)
    <2>1. IsWellFoundedOn(StrictSubsetOrdering(S), FiniteSubsetsOf(S))
      BY FS_StrictSubsetOrderingWellFounded
    <2>2. FiniteSubsetsOf(S) = SUBSET S
      BY FS_FiniteSubsetsOfFinite
    <2> QED
      BY <2>1, <2>2
  <1>2. PICK T \in Bad : \A U \in Bad : ~(<<U, T>> \in StrictSubsetOrdering(S))
    <2>1. Bad \subseteq SUBSET S /\ Bad # {}
      OBVIOUS
    <2> HIDE DEF Bad
    <2> QED
      BY <1>1, <2>1, WFMin
  <1>3. ASSUME NEW U \in SUBSET T, U # T PROVE U \in good
    <2>1. U \in SUBSET S /\ T \in SUBSET S
      BY <1>2
    <2>2. <<U, T>> \in StrictSubsetOrdering(S)
      BY <2>1, <1>3 DEF StrictSubsetOrdering
    <2> QED
      BY <2>1, <2>2, <1>2
  <1> QED
    BY <1>2, <1>3

\* The same, one element at a time.
LEMMA SubsetInduction ==
    ASSUME NEW S, IsFiniteSet(S), NEW good, {} \in good,
           \A T \in SUBSET S, x \in S : T \in good /\ x \notin T => T \cup {x} \in good
    PROVE  S \in good
  <1>1. ASSUME NEW T \in SUBSET S, \A U \in SUBSET T : U # T => U \in good
        PROVE  T \in good
    <2>1. CASE T = {}
      BY <2>1
    <2>2. CASE T # {}
      <3>1. PICK x \in T : TRUE
        BY <2>2
      <3>2. T \ {x} \in good /\ T \ {x} \in SUBSET S /\ x \in S /\ x \notin T \ {x}
        BY <1>1, <3>1
      <3>3. (T \ {x}) \cup {x} = T
        BY <3>1
      <3>4. (T \ {x}) \cup {x} \in good
        BY <3>2
      <3> QED
        BY <3>3, <3>4
    <2> QED
      BY <2>1, <2>2
  <1> QED
    BY <1>1, StrongSubsetInduction

--------------------------------------------------------------------------------
(* Sums over finite sets: SumFunctionOnSet and SumFunction of module Functions *)

\* The element a fold takes first, and the recursion that SumFunctionOnSet(f, S)
\* expands to.
Pick(T) == CHOOSE x \in T : TRUE

IsSum(g, f, S) ==
    g = [T \in SUBSET S |-> IF T = {} THEN 0 ELSE f[Pick(T)] + g[T \ {Pick(T)}]]

SumOver(f, S) == CHOOSE g : IsSum(g, f, S)

LEMMA SumExpands ==
    ASSUME NEW f, NEW S PROVE SumFunctionOnSet(f, S) = SumOver(f, S)[S]
  BY DEF SumFunctionOnSet, FoldFunctionOnSet, MapThenFoldSet, SumOver, IsSum, Pick

LEMMA PickIn == ASSUME NEW T, T # {} PROVE Pick(T) \in T /\ T \ {Pick(T)} # T
  BY DEF Pick

LEMMA SumRecursion ==
    ASSUME NEW f, NEW S, NEW g, IsSum(g, f, S), NEW T \in SUBSET S
    PROVE  /\ T = {} => g[T] = 0
           /\ T # {} => g[T] = f[Pick(T)] + g[T \ {Pick(T)}]
  <1>1. g = [U \in SUBSET S |-> IF U = {} THEN 0 ELSE f[Pick(U)] + g[U \ {Pick(U)}]]
    BY DEF IsSum
  <1> DEFINE h == [U \in SUBSET S |-> IF U = {} THEN 0 ELSE f[Pick(U)] + g[U \ {Pick(U)}]]
  <1>2. h[T] = IF T = {} THEN 0 ELSE f[Pick(T)] + g[T \ {Pick(T)}]
    OBVIOUS
  <1> QED
    BY <1>1, <1>2

\* Wherever two such recursions are both defined, they agree.
LEMMA SumsAgree ==
    ASSUME NEW f, NEW R, NEW S, NEW g, NEW h, IsSum(g, f, R), IsSum(h, f, S),
           NEW T, IsFiniteSet(T), T \subseteq R, T \subseteq S
    PROVE  g[T] = h[T]
  <1>a. \A U \in SUBSET R : /\ U = {} => g[U] = 0
                            /\ U # {} => g[U] = f[Pick(U)] + g[U \ {Pick(U)}]
    BY SumRecursion
  <1>b. \A U \in SUBSET S : /\ U = {} => h[U] = 0
                            /\ U # {} => h[U] = f[Pick(U)] + h[U \ {Pick(U)}]
    BY SumRecursion
  <1> DEFINE good == {U \in SUBSET T : g[U] = h[U]}
  <1>1. ASSUME NEW U \in SUBSET T, \A V \in SUBSET U : V # U => V \in good
        PROVE  U \in good
    <2>1. U \in SUBSET R /\ U \in SUBSET S
      OBVIOUS
    <2>2. /\ U = {} => g[U] = 0
          /\ U # {} => g[U] = f[Pick(U)] + g[U \ {Pick(U)}]
      BY <2>1, <1>a
    <2>3. /\ U = {} => h[U] = 0
          /\ U # {} => h[U] = f[Pick(U)] + h[U \ {Pick(U)}]
      BY <2>1, <1>b
    <2>4. U # {} => g[U \ {Pick(U)}] = h[U \ {Pick(U)}]
      BY <1>1, PickIn
    <2> QED
      BY <2>2, <2>3, <2>4
  <1> HIDE DEF good
  <1>2. T \in good
    BY <1>1, StrongSubsetInduction
  <1> QED
    BY <1>2 DEF good

\* The recursion has a solution on every finite set.
LEMMA SumExists ==
    ASSUME NEW f, NEW S, IsFiniteSet(S)
    PROVE  IsSum(SumOver(f, S), f, S)
  <1> DEFINE good == {T \in SUBSET S : IsSum(SumOver(f, T), f, T)}
  <1>1. ASSUME NEW T \in SUBSET S, \A U \in SUBSET T : U # T => U \in good
        PROVE  T \in good
    <2> DEFINE v(U) == SumOver(f, U)[U]
               g    == [U \in SUBSET T |->
                          IF U = {} THEN 0 ELSE f[Pick(U)] + v(U \ {Pick(U)})]
    <2>1. ASSUME NEW U \in SUBSET T, U # {}
          PROVE  g[U \ {Pick(U)}] = v(U \ {Pick(U)})
      <3> DEFINE W == U \ {Pick(U)}
      <3>1. W \in SUBSET T /\ W # T /\ W \in SUBSET W
        BY <2>1, PickIn
      <3>2. IsSum(SumOver(f, W), f, W)
        BY <3>1, <1>1
      <3>3. /\ W = {} => v(W) = 0
            /\ W # {} => v(W) = f[Pick(W)] + SumOver(f, W)[W \ {Pick(W)}]
        <4>1. W \in SUBSET W
          OBVIOUS
        <4> HIDE DEF W
        <4> QED
          BY <4>1, <3>2, SumRecursion
      <3>4. g[W] = IF W = {} THEN 0 ELSE f[Pick(W)] + v(W \ {Pick(W)})
        BY <3>1
      <3>5. ASSUME W # {} PROVE SumOver(f, W)[W \ {Pick(W)}] = v(W \ {Pick(W)})
        <4> DEFINE X == W \ {Pick(W)}
        <4>1. X \in SUBSET T /\ X # T /\ X \subseteq W /\ X \subseteq X
          BY <3>1, <3>5, PickIn
        <4>2. IsSum(SumOver(f, X), f, X) /\ IsFiniteSet(X)
          BY <4>1, <1>1, FS_Subset
        <4> HIDE DEF X, W
        <4> QED
          BY <4>1, <4>2, <3>2, SumsAgree DEF X
      <3> HIDE DEF W, g
      <3> QED
        BY <3>3, <3>4, <3>5 DEF W
    <2>2. g = [U \in SUBSET T |-> IF U = {} THEN 0 ELSE f[Pick(U)] + g[U \ {Pick(U)}]]
      <3> DEFINE h == [U \in SUBSET T |->
                         IF U = {} THEN 0 ELSE f[Pick(U)] + g[U \ {Pick(U)}]]
      <3>1. \A U \in SUBSET T : g[U] = h[U]
        <4> SUFFICES ASSUME NEW U \in SUBSET T PROVE g[U] = h[U]
          OBVIOUS
        <4>1. g[U] = IF U = {} THEN 0 ELSE f[Pick(U)] + v(U \ {Pick(U)})
          OBVIOUS
        <4>2. h[U] = IF U = {} THEN 0 ELSE f[Pick(U)] + g[U \ {Pick(U)}]
          OBVIOUS
        <4> HIDE DEF g, h, v
        <4> QED
          BY <4>1, <4>2, <2>1
      <3> QED
        BY <3>1
    <2>3. IsSum(g, f, T)
      <3> HIDE DEF g
      <3> QED
        BY <2>2 DEF IsSum
    <2> HIDE DEF g
    <2>4. IsSum(SumOver(f, T), f, T)
      BY <2>3 DEF SumOver
    <2> QED
      BY <2>4
  <1> HIDE DEF good
  <1>2. S \in good
    BY <1>1, StrongSubsetInduction
  <1> QED
    BY <1>2 DEF good

LEMMA SumUnfolds ==
    ASSUME NEW f, NEW S, IsFiniteSet(S)
    PROVE  /\ S = {} => SumFunctionOnSet(f, S) = 0
           /\ S # {} => SumFunctionOnSet(f, S) =
                           f[Pick(S)] + SumFunctionOnSet(f, S \ {Pick(S)})
  <1>1. IsSum(SumOver(f, S), f, S) /\ S \in SUBSET S
    BY SumExists
  <1>2. /\ S = {} => SumOver(f, S)[S] = 0
        /\ S # {} => SumOver(f, S)[S] = f[Pick(S)] + SumOver(f, S)[S \ {Pick(S)}]
    BY <1>1, SumRecursion
  <1> DEFINE R == S \ {Pick(S)}
  <1>3. IsFiniteSet(R) /\ R \subseteq S /\ R \subseteq R
    BY FS_Subset
  <1>4. IsSum(SumOver(f, R), f, R)
    BY <1>3, SumExists
  <1> HIDE DEF R
  <1>5. SumOver(f, S)[R] = SumOver(f, R)[R]
    BY <1>1, <1>3, <1>4, SumsAgree
  <1> QED
    BY <1>2, <1>5, SumExpands DEF R

\* Order does not matter: any element of S can be taken first.
LEMMA SumRemove ==
    ASSUME NEW S, IsFiniteSet(S), NEW f, \A x \in S : f[x] \in Int
    PROVE  /\ SumFunctionOnSet(f, S) \in Int
           /\ \A x \in S : SumFunctionOnSet(f, S) = f[x] + SumFunctionOnSet(f, S \ {x})
  <1> DEFINE Sum(T) == SumFunctionOnSet(f, T)
             good   == {T \in SUBSET S : /\ Sum(T) \in Int
                                         /\ \A x \in T : Sum(T) = f[x] + Sum(T \ {x})}
  <1>1. ASSUME NEW T \in SUBSET S, \A U \in SUBSET T : U # T => U \in good
        PROVE  T \in good
    <2>1. IsFiniteSet(T)
      BY FS_Subset
    <2>2. CASE T = {}
      <3>1. Sum(T) = 0
        BY <2>1, <2>2, SumUnfolds
      <3> QED
        BY <3>1, <2>2
    <2>3. CASE T # {}
      <3> DEFINE p == Pick(T)
      <3>1. p \in T /\ p \in S /\ T \ {p} # T /\ Sum(T) = f[p] + Sum(T \ {p})
        BY <2>1, <2>3, SumUnfolds, PickIn
      <3>2. T \ {p} \in good
        BY <3>1, <1>1
      <3>3. Sum(T \ {p}) \in Int /\ f[p] \in Int
        BY <3>1, <3>2
      <3>4. ASSUME NEW x \in T, x # p PROVE Sum(T) = f[x] + Sum(T \ {x})
        <4>1. T \ {x} \in good /\ T \ {p, x} \in good
          BY <1>1
        <4>2. (T \ {p}) \ {x} = T \ {p, x} /\ (T \ {x}) \ {p} = T \ {p, x}
          OBVIOUS
        <4>3. x \in T \ {p} /\ p \in T \ {x}
          BY <3>1, <3>4
        <4>4. Sum(T \ {p}) = f[x] + Sum(T \ {p, x})
          BY <3>2, <4>2, <4>3
        <4>5. Sum(T \ {x}) = f[p] + Sum(T \ {p, x})
          BY <4>1, <4>2, <4>3
        <4>6. Sum(T \ {p, x}) \in Int /\ f[x] \in Int
          BY <4>1
        <4> HIDE DEF Sum, p, good
        <4> QED
          BY <3>1, <3>3, <4>4, <4>5, <4>6
      <3>5. Sum(T) \in Int
        BY <3>1, <3>3
      <3> HIDE DEF Sum, p
      <3> QED
        BY <3>1, <3>4, <3>5
    <2> QED
      BY <2>2, <2>3
  <1> HIDE DEF good
  <1>2. S \in good
    BY <1>1, StrongSubsetInduction
  <1> QED
    BY <1>2 DEF good

LEMMA SumEmpty == ASSUME NEW f PROVE SumFunctionOnSet(f, {}) = 0
  BY SumUnfolds, FS_EmptySet

LEMMA SumAdd ==
    ASSUME NEW S, IsFiniteSet(S), NEW f, NEW c, c \notin S,
           \A x \in S \cup {c} : f[x] \in Int
    PROVE  /\ SumFunctionOnSet(f, S) \in Int
           /\ SumFunctionOnSet(f, S \cup {c}) = f[c] + SumFunctionOnSet(f, S)
  <1>1. IsFiniteSet(S \cup {c}) /\ (S \cup {c}) \ {c} = S
    BY FS_AddElement
  <1>2. /\ SumFunctionOnSet(f, S) \in Int
        /\ SumFunctionOnSet(f, S \cup {c}) = f[c] + SumFunctionOnSet(f, (S \cup {c}) \ {c})
    BY <1>1, SumRemove
  <1> QED
    BY <1>1, <1>2

\* A bound that every term satisfies, with a slack of c each, is a bound of the sums.
LEMMA SumBound ==
    ASSUME NEW S, IsFiniteSet(S), NEW f, NEW g, NEW a \in Int, NEW b \in Int, NEW c \in Int,
           \A x \in S : f[x] \in Int /\ g[x] \in Int /\ a * f[x] <= b * g[x] + c
    PROVE  a * SumFunctionOnSet(f, S)
              <= b * SumFunctionOnSet(g, S) + c * Cardinality(S)
  <1> DEFINE F(T) == SumFunctionOnSet(f, T)
             G(T) == SumFunctionOnSet(g, T)
             good == {T \in SUBSET S : a * F(T) <= b * G(T) + c * Cardinality(T)}
  <1>1. {} \in good
    BY SumEmpty, FS_EmptySet
  <1>2. ASSUME NEW T \in SUBSET S, NEW x \in S, T \in good, x \notin T
        PROVE  T \cup {x} \in good
    <2>1. IsFiniteSet(T) /\ Cardinality(T) \in Nat
      BY FS_Subset, FS_CardinalityType
    <2>2. Cardinality(T \cup {x}) = Cardinality(T) + 1
      BY <2>1, <1>2, FS_AddElement
    <2>3. F(T) \in Int /\ F(T \cup {x}) = f[x] + F(T)
      BY <2>1, <1>2, SumAdd
    <2>4. G(T) \in Int /\ G(T \cup {x}) = g[x] + G(T)
      BY <2>1, <1>2, SumAdd
    <2>5. f[x] \in Int /\ g[x] \in Int /\ a * f[x] <= b * g[x] + c
      OBVIOUS
    <2>6. a * F(T) <= b * G(T) + c * Cardinality(T)
      BY <1>2
    <2> HIDE DEF F, G
    <2>7. /\ a * (f[x] + F(T)) = a * f[x] + a * F(T)
          /\ b * (g[x] + G(T)) = b * g[x] + b * G(T)
          /\ c * (Cardinality(T) + 1) = c * Cardinality(T) + c
          /\ a * f[x] \in Int /\ a * F(T) \in Int /\ b * g[x] \in Int /\ b * G(T) \in Int
          /\ c * Cardinality(T) \in Int
      BY <2>1, <2>3, <2>4, <2>5
    <2>8. a * F(T \cup {x}) <= b * G(T \cup {x}) + c * Cardinality(T \cup {x})
      BY <2>2, <2>3, <2>4, <2>5, <2>6, <2>7
    <2> QED
      BY <2>8
  <1> HIDE DEF good
  <1>3. S \in good
    BY <1>1, <1>2, SubsetInduction
  <1> QED
    BY <1>3 DEF good

LEMMA SumMonotone ==
    ASSUME NEW S, IsFiniteSet(S), NEW f, NEW g,
           \A x \in S : f[x] \in Int /\ g[x] \in Int /\ f[x] <= g[x]
    PROVE  SumFunctionOnSet(f, S) <= SumFunctionOnSet(g, S)
  <1>1. \A x \in S : f[x] \in Int /\ g[x] \in Int /\ 1 * f[x] <= 1 * g[x] + 0
    OBVIOUS
  <1>2. 1 * SumFunctionOnSet(f, S) <= 1 * SumFunctionOnSet(g, S) + 0 * Cardinality(S)
    <2>1. 1 \in Int /\ 0 \in Int
      OBVIOUS
    <2> QED
      BY <2>1, <1>1, SumBound, Zenon
  <1>3. SumFunctionOnSet(f, S) \in Int /\ SumFunctionOnSet(g, S) \in Int
    BY SumRemove
  <1>4. Cardinality(S) \in Int
    BY FS_CardinalityType
  <1> QED
    BY <1>2, <1>3, <1>4

LEMMA SumEqual ==
    ASSUME NEW S, IsFiniteSet(S), NEW f, NEW g,
           \A x \in S : f[x] \in Int /\ g[x] = f[x]
    PROVE  SumFunctionOnSet(g, S) = SumFunctionOnSet(f, S)
  <1>1. SumFunctionOnSet(f, S) <= SumFunctionOnSet(g, S)
    BY SumMonotone
  <1>2. SumFunctionOnSet(g, S) <= SumFunctionOnSet(f, S)
    BY SumMonotone
  <1>3. SumFunctionOnSet(f, S) \in Int /\ SumFunctionOnSet(g, S) \in Int
    BY SumRemove
  <1> QED
    BY <1>1, <1>2, <1>3

\* A sum of natural numbers is natural and no smaller than any of them.
LEMMA SumNatural ==
    ASSUME NEW S, IsFiniteSet(S), NEW f, \A x \in S : f[x] \in Nat
    PROVE  /\ SumFunctionOnSet(f, S) \in Nat
           /\ \A x \in S : f[x] <= SumFunctionOnSet(f, S)
  <1>1. ASSUME NEW T \in SUBSET S PROVE SumFunctionOnSet(f, T) \in Nat
    <2> DEFINE z == [x \in T |-> 0]
    <2>1. IsFiniteSet(T)
      BY FS_Subset
    <2>2. SumFunctionOnSet(f, T) \in Int /\ Cardinality(T) \in Int
      BY <2>1, SumRemove, FS_CardinalityType
    <2>3. \A x \in T : z[x] \in Int /\ f[x] \in Int /\ 0 * f[x] <= 1 * f[x] + 0
      OBVIOUS
    <2>4. 0 * SumFunctionOnSet(f, T) <= 1 * SumFunctionOnSet(f, T) + 0 * Cardinality(T)
      BY <2>1, <2>3, SumBound
    <2> QED
      BY <2>2, <2>4
  <1>2. ASSUME NEW x \in S PROVE f[x] <= SumFunctionOnSet(f, S)
    <2>1. SumFunctionOnSet(f, S) = f[x] + SumFunctionOnSet(f, S \ {x})
      BY SumRemove
    <2>2. SumFunctionOnSet(f, S \ {x}) \in Nat
      BY <1>1
    <2> QED
      BY <2>1, <2>2
  <1> QED
    BY <1>1, <1>2

LEMMA SumZero ==
    ASSUME NEW S, IsFiniteSet(S), NEW f, \A x \in S : f[x] = 0
    PROVE  SumFunctionOnSet(f, S) = 0
  <1>1. 0 \in Int /\ \A x \in S : f[x] \in Int /\ f[x] \in Nat
    OBVIOUS
  <1>2. SumFunctionOnSet(f, S) \in Nat
    BY <1>1, SumNatural
  <1>3. \A x \in S : f[x] \in Int /\ 1 * f[x] <= 0 * f[x] + 0
    OBVIOUS
  <1>4. 1 * SumFunctionOnSet(f, S) <= 0 * SumFunctionOnSet(f, S) + 0 * Cardinality(S)
    <2>1. 1 \in Int
      OBVIOUS
    <2> QED
      BY <2>1, <1>1, <1>3, SumBound, Zenon
  <1>5. Cardinality(S) \in Int
    BY FS_CardinalityType
  <1> QED
    BY <1>2, <1>4, <1>5

\* Changing one term changes the sum by the difference.
LEMMA SumChange ==
    ASSUME NEW S, IsFiniteSet(S), NEW f, NEW g, NEW c \in S,
           \A x \in S : f[x] \in Int, g[c] \in Int,
           \A x \in S \ {c} : g[x] = f[x]
    PROVE  SumFunctionOnSet(g, S) = SumFunctionOnSet(f, S) - f[c] + g[c]
  <1>1. \A x \in S : g[x] \in Int
    OBVIOUS
  <1>2. IsFiniteSet(S \ {c})
    BY FS_Subset
  <1>3. SumFunctionOnSet(f, S) = f[c] + SumFunctionOnSet(f, S \ {c})
    BY SumRemove
  <1>4. SumFunctionOnSet(g, S) = g[c] + SumFunctionOnSet(g, S \ {c})
    BY <1>1, SumRemove
  <1>5. SumFunctionOnSet(g, S \ {c}) = SumFunctionOnSet(f, S \ {c})
    BY <1>2, SumEqual
  <1>6. SumFunctionOnSet(f, S \ {c}) \in Int /\ f[c] \in Int
    BY <1>2, SumRemove
  <1> QED
    BY <1>3, <1>4, <1>5, <1>6

LEMMA SumUnion ==
    ASSUME NEW S, IsFiniteSet(S), NEW R, IsFiniteSet(R), S \cap R = {},
           NEW f, \A x \in S \cup R : f[x] \in Int
    PROVE  SumFunctionOnSet(f, S \cup R) = SumFunctionOnSet(f, S) + SumFunctionOnSet(f, R)
  <1> DEFINE Sum(T) == SumFunctionOnSet(f, T)
             good   == {T \in SUBSET R : Sum(S \cup T) = Sum(S) + Sum(T)}
  <1>1. {} \in good
    <2>1. Sum(S) \in Int /\ Sum({}) = 0 /\ S \cup {} = S
      BY SumEmpty, SumRemove
    <2> HIDE DEF Sum
    <2> QED
      BY <2>1
  <1>2. ASSUME NEW T \in SUBSET R, NEW x \in R, T \in good, x \notin T
        PROVE  T \cup {x} \in good
    <2>1. IsFiniteSet(T) /\ IsFiniteSet(S \cup T)
      BY FS_Subset, FS_Union
    <2>2. Sum(T) \in Int /\ Sum(T \cup {x}) = f[x] + Sum(T)
      BY <2>1, <1>2, SumAdd
    <2>3. Sum((S \cup T) \cup {x}) = f[x] + Sum(S \cup T)
      BY <2>1, <1>2, SumAdd
    <2>4. Sum(S) \in Int /\ f[x] \in Int /\ Sum(S \cup T) = Sum(S) + Sum(T)
      BY <1>2, SumRemove
    <2>5. Sum(S \cup (T \cup {x})) = Sum((S \cup T) \cup {x})
      <3>1. (S \cup T) \cup {x} = S \cup (T \cup {x})
        OBVIOUS
      <3> HIDE DEF Sum
      <3> QED
        BY <3>1, Zenon
    <2> HIDE DEF Sum
    <2>6. Sum(S \cup (T \cup {x})) = Sum(S) + Sum(T \cup {x})
      BY <2>2, <2>3, <2>4, <2>5
    <2> QED
      BY <2>6
  <1> HIDE DEF good
  <1>3. R \in good
    BY <1>1, <1>2, SubsetInduction
  <1> QED
    BY <1>3 DEF good
================================================================================
