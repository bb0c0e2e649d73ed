---------------------------- MODULE SumTheorems ----------------------------
(***************************************************************************)
(* Facts about SumFunctionOnSet, which adds up weights, balances, payments *)
(* and gas in the models: what it is on finite sets of any size.           *)
(***************************************************************************)
EXTENDS Integers, Functions, FiniteSetTheorems, WellFoundedInduction, TLAPS

\* The element the fold takes first.
Pick(s) == CHOOSE x \in s : TRUE

\* The function that the fold over U defines by recursion on the subsets of U.
Partial(f, U) ==
    CHOOSE iter : iter = [s \in SUBSET U |->
        IF s = {} THEN 0 ELSE f[Pick(s)] + iter[s \ {Pick(s)}]]

LEMMA SumIsPartial ==
    ASSUME NEW f, NEW U
    PROVE  SumFunctionOnSet(f, U) = Partial(f, U)[U]
  BY DEF SumFunctionOnSet, FoldFunctionOnSet, MapThenFoldSet, Partial, Pick

\* Induction over the subsets of a finite set: a set of them that is not empty
\* has a smallest one.
LEMMA SmallestSubset ==
    ASSUME NEW S, IsFiniteSet(S), NEW B \in SUBSET (SUBSET S), B # {}
    PROVE  \E T \in B : \A U \in B : ~(U \subseteq T /\ U # T)
  <1>1. B \subseteq FiniteSubsetsOf(S)
    BY FS_Subset DEF FiniteSubsetsOf
  <1>2. \E T \in B : \A U \in B : ~(<<U, T>> \in StrictSubsetOrdering(S))
    BY <1>1, FS_StrictSubsetOrderingWellFounded, WFMin
  <1> QED
    BY <1>2 DEF StrictSubsetOrdering

Equation(f, U, g) ==
    g = [s \in SUBSET U |->
            IF s = {} THEN 0 ELSE f[Pick(s)] + g[s \ {Pick(s)}]]

LEMMA PickIn == \A s : s # {} => Pick(s) \in s
  BY DEF Pick

\* Two solutions of the equation agree where both are defined.
LEMMA EquationUnique ==
    ASSUME NEW f, NEW S, IsFiniteSet(S),
           NEW U \in SUBSET S, NEW V \in SUBSET S, NEW g, NEW h,
           Equation(f, U, g), Equation(f, V, h),
           NEW s \in SUBSET (U \cap V)
    PROVE  g[s] = h[s]
  <1> DEFINE B == {t \in SUBSET (U \cap V) : g[t] # h[t]}
  <1> SUFFICES ASSUME B # {} PROVE FALSE
    OBVIOUS
  <1>1. B \in SUBSET (SUBSET S)
    OBVIOUS
  <1>2. PICK T \in B : \A W \in B : ~(W \subseteq T /\ W # T)
    <2> HIDE DEF B
    <2> QED
      BY <1>1, SmallestSubset
  <1>3. CASE T = {}
    BY <1>3, <1>2 DEF Equation
  <1>4. CASE T # {}
    <2> DEFINE W == T \ {Pick(T)}
    <2>1. W \subseteq T /\ W # T /\ W \in SUBSET (U \cap V)
      BY <1>4, PickIn
    <2>2. g[W] = h[W]
      BY <1>2, <2>1
    <2>3. g[T] = f[Pick(T)] + g[W] /\ h[T] = f[Pick(T)] + h[W]
      BY <1>2, <1>4 DEF Equation
    <2> QED
      BY <1>2, <2>2, <2>3
  <1> QED
    BY <1>3, <1>4

\* The equation has a solution on every finite set.
LEMMA EquationSolved ==
    ASSUME NEW f, NEW S, IsFiniteSet(S), NEW U \in SUBSET S
    PROVE  Equation(f, U, Partial(f, U))
  <1> DEFINE B == {T \in SUBSET S : ~ \E g : Equation(f, T, g)}
  <1>1. B = {}
    <2> SUFFICES ASSUME B # {} PROVE FALSE
      OBVIOUS
    <2>1. PICK T \in B : \A W \in B : ~(W \subseteq T /\ W # T)
      <3>1. B \in SUBSET (SUBSET S)
        OBVIOUS
      <3> HIDE DEF B
      <3> QED
        BY <3>1, SmallestSubset
    <2>2. ASSUME NEW W \in SUBSET T, W # T
          PROVE  Equation(f, W, Partial(f, W))
      <3>1. \E g : Equation(f, W, g)
        BY <2>1, <2>2
      <3> QED
        BY <3>1 DEF Equation, Partial
    <2> DEFINE h == [s \in SUBSET T |->
                       IF s = {} THEN 0
                       ELSE f[Pick(s)] + Partial(f, s \ {Pick(s)})[s \ {Pick(s)}]]
    <2>3. ASSUME NEW W \in SUBSET T, W # T
          PROVE  h[W] = Partial(f, W)[W]
      <3>1. CASE W = {}
        <4>1. Partial(f, W)[W] = 0
          BY <2>2, <3>1, <2>3 DEF Equation
        <4> QED
          BY <3>1, <4>1
      <3>2. CASE W # {}
        <4> DEFINE X == W \ {Pick(W)}
        <4>1. X \in SUBSET W /\ X \in SUBSET T /\ X # T /\ X \in SUBSET S /\ W \in SUBSET S
          BY <2>3, <2>1
        <4>2. Equation(f, W, Partial(f, W)) /\ Equation(f, X, Partial(f, X))
          BY <2>2, <2>3, <4>1
        <4>3. Partial(f, W)[X] = Partial(f, X)[X]
          BY <4>1, <4>2, EquationUnique
        <4>4. Partial(f, W)[W] = f[Pick(W)] + Partial(f, W)[X]
          BY <4>2, <3>2 DEF Equation
        <4>5. h[W] = f[Pick(W)] + Partial(f, X)[X]
          BY <3>2
        <4> QED
          BY <4>3, <4>4, <4>5
      <3> QED
        BY <3>1, <3>2
    <2>4. Equation(f, T, h)
      <3>1. ASSUME NEW s \in SUBSET T, s # {}
            PROVE  h[s] = f[Pick(s)] + h[s \ {Pick(s)}]
        <4> DEFINE X == s \ {Pick(s)}
        <4>1. X \in SUBSET T /\ X # T
          BY <3>1, PickIn
        <4>2. h[X] = Partial(f, X)[X]
          BY <4>1, <2>3
        <4>3. h[s] = f[Pick(s)] + Partial(f, X)[X]
          BY <3>1
        <4> QED
          BY <4>2, <4>3
      <3>2. h[{}] = 0
        OBVIOUS
      <3>3. h = [s \in SUBSET T |-> h[s]]
        OBVIOUS
      <3> HIDE DEF h
      <3>4. \A s \in SUBSET T :
               h[s] = IF s = {} THEN 0 ELSE f[Pick(s)] + h[s \ {Pick(s)}]
        BY <3>1, <3>2
      <3> QED
        BY <3>3, <3>4 DEF Equation
    <2> QED
      BY <2>1, <2>4
  <1>2. \E g : Equation(f, U, g)
    BY <1>1
  <1> QED
    BY <1>2 DEF Equation, Partial

\* The sum over the empty set, and over a set by the element taken first.
LEMMA SumEmpty == ASSUME NEW f PROVE SumFunctionOnSet(f, {}) = 0
  <1>1. Equation(f, {}, Partial(f, {}))
    BY EquationSolved, FS_EmptySet
  <1> QED
    BY <1>1, SumIsPartial DEF Equation

LEMMA SumFirst ==
    ASSUME NEW f, NEW S, IsFiniteSet(S), S # {}
    PROVE  SumFunctionOnSet(f, S)
              = f[Pick(S)] + SumFunctionOnSet(f, S \ {Pick(S)})
  <1> DEFINE X == S \ {Pick(S)}
  <1>1. Equation(f, S, Partial(f, S)) /\ Equation(f, X, Partial(f, X))
    BY EquationSolved
  <1>2. Partial(f, S)[X] = Partial(f, X)[X]
    BY <1>1, EquationUnique
  <1>3. Partial(f, S)[S] = f[Pick(S)] + Partial(f, S)[X]
    BY <1>1 DEF Equation
  <1> QED
    BY <1>2, <1>3, SumIsPartial

-----------------------------------------------------------------------------
(* What the other proofs use.                                              *)

\* A sum of integers is an integer.
LEMMA SumInt ==
    ASSUME NEW f, NEW S, IsFiniteSet(S), \A x \in S : f[x] \in Int
    PROVE  SumFunctionOnSet(f, S) \in Int
  <1> DEFINE B == {T \in SUBSET S : SumFunctionOnSet(f, T) \notin Int}
  <1> SUFFICES ASSUME B # {} PROVE FALSE
    OBVIOUS
  <1>1. PICK T \in B : \A U \in B : ~(U \subseteq T /\ U # T)
    <2>1. B \in SUBSET (SUBSET S)
      OBVIOUS
    <2> HIDE DEF B
    <2> QED
      BY <2>1, SmallestSubset
  <1>2. T # {}
    <2> SUFFICES ASSUME T = {} PROVE FALSE
      OBVIOUS
    <2>1. SumFunctionOnSet(f, T) = 0
      BY SumEmpty
    <2> QED
      BY <1>1, <2>1
  <1>3. Pick(T) \in T /\ IsFiniteSet(T)
    BY <1>2, PickIn, FS_Subset
  <1>4. SumFunctionOnSet(f, T \ {Pick(T)}) \in Int /\ f[Pick(T)] \in Int
    BY <1>1, <1>3
  <1>5. SumFunctionOnSet(f, T) = f[Pick(T)] + SumFunctionOnSet(f, T \ {Pick(T)})
    BY <1>2, <1>3, SumFirst
  <1> QED
    BY <1>1, <1>4, <1>5

\* Any element may be taken first.
LEMMA SumElement ==
    ASSUME NEW f, NEW S, IsFiniteSet(S), \A z \in S : f[z] \in Int, NEW x \in S
    PROVE  SumFunctionOnSet(f, S) = f[x] + SumFunctionOnSet(f, S \ {x})
  <1> DEFINE Sum(T) == SumFunctionOnSet(f, T)
             B == {T \in SUBSET S : \E z \in T : Sum(T) # f[z] + Sum(T \ {z})}
  <1> SUFFICES ASSUME B # {} PROVE FALSE
    OBVIOUS
  <1>1. PICK T \in B : \A U \in B : ~(U \subseteq T /\ U # T)
    <2>1. B \in SUBSET (SUBSET S)
      OBVIOUS
    <2> HIDE DEF B
    <2> QED
      BY <2>1, SmallestSubset
  <1>2. PICK z \in T : Sum(T) # f[z] + Sum(T \ {z})
    BY <1>1
  <1> DEFINE y == Pick(T)
  <1>3. y \in T /\ Sum(T) = f[y] + Sum(T \ {y})
    <2>1. IsFiniteSet(T) /\ T # {}
      BY FS_Subset
    <2> QED
      BY <2>1, PickIn, SumFirst
  <1>4. y # z
    BY <1>2, <1>3
  <1> HIDE DEF y
  <1>5. Sum(T \ {y}) = f[z] + Sum((T \ {y}) \ {z})
    BY <1>1, <1>3, <1>4
  <1>6. Sum(T \ {z}) = f[y] + Sum((T \ {z}) \ {y})
    BY <1>1, <1>3, <1>4
  <1>7. Sum((T \ {y}) \ {z}) = Sum((T \ {z}) \ {y})
    <2>1. (T \ {y}) \ {z} = (T \ {z}) \ {y}
      OBVIOUS
    <2> QED
      BY <2>1
  <1>8. Sum((T \ {z}) \ {y}) \in Int /\ f[y] \in Int /\ f[z] \in Int
    <2>1. (T \ {z}) \ {y} \in SUBSET S
      OBVIOUS
    <2>2. IsFiniteSet((T \ {z}) \ {y})
      BY <2>1, FS_Subset
    <2> QED
      BY <1>3, <2>1, <2>2, SumInt
  <1> HIDE DEF Sum
  <1> QED
    BY <1>2, <1>3, <1>5, <1>6, <1>7, <1>8

\* Sums are ordered as their terms are.
LEMMA SumMonotone ==
    ASSUME NEW f, NEW g, NEW S, IsFiniteSet(S),
           \A x \in S : f[x] \in Int /\ g[x] \in Int /\ f[x] <= g[x]
    PROVE  SumFunctionOnSet(f, S) <= SumFunctionOnSet(g, S)
  <1> DEFINE B == {T \in SUBSET S : ~(SumFunctionOnSet(f, T) <= SumFunctionOnSet(g, T))}
  <1> SUFFICES ASSUME B # {} PROVE FALSE
    OBVIOUS
  <1>1. PICK T \in B : \A U \in B : ~(U \subseteq T /\ U # T)
    <2>1. B \in SUBSET (SUBSET S)
      OBVIOUS
    <2> HIDE DEF B
    <2> QED
      BY <2>1, SmallestSubset
  <1>2. T # {}
    <2> SUFFICES ASSUME T = {} PROVE FALSE
      OBVIOUS
    <2>1. SumFunctionOnSet(f, T) = 0 /\ SumFunctionOnSet(g, T) = 0
      BY SumEmpty
    <2> QED
      BY <1>1, <2>1
  <1> DEFINE x == Pick(T)
             U == T \ {x}
  <1>3. x \in T /\ IsFiniteSet(T) /\ IsFiniteSet(U)
    BY <1>2, PickIn, FS_Subset
  <1>4. SumFunctionOnSet(f, U) <= SumFunctionOnSet(g, U)
    BY <1>1, <1>3
  <1>5. /\ SumFunctionOnSet(f, T) = f[x] + SumFunctionOnSet(f, U)
        /\ SumFunctionOnSet(g, T) = g[x] + SumFunctionOnSet(g, U)
    BY <1>2, <1>3, SumFirst
  <1>6. /\ SumFunctionOnSet(f, U) \in Int /\ SumFunctionOnSet(g, U) \in Int
        /\ f[x] \in Int /\ g[x] \in Int /\ f[x] <= g[x]
    BY <1>3, SumInt
  <1> HIDE DEF x, U
  <1> QED
    BY <1>1, <1>4, <1>5, <1>6

\* Functions that agree on a set have the same sum over it.
LEMMA SumCongruent ==
    ASSUME NEW f, NEW g, NEW S, IsFiniteSet(S),
           \A x \in S : f[x] \in Int /\ g[x] = f[x]
    PROVE  SumFunctionOnSet(g, S) = SumFunctionOnSet(f, S)
  <1>1. /\ SumFunctionOnSet(f, S) <= SumFunctionOnSet(g, S)
        /\ SumFunctionOnSet(g, S) <= SumFunctionOnSet(f, S)
    BY SumMonotone
  <1>2. SumFunctionOnSet(f, S) \in Int /\ SumFunctionOnSet(g, S) \in Int
    BY SumInt
  <1> QED
    BY <1>1, <1>2

\* A change of one term changes the sum by as much.
LEMMA SumChange ==
    ASSUME NEW f, NEW g, NEW S, IsFiniteSet(S), NEW x \in S,
           \A y \in S : f[y] \in Int /\ g[y] \in Int,
           \A y \in S \ {x} : g[y] = f[y]
    PROVE  SumFunctionOnSet(g, S) = SumFunctionOnSet(f, S) - f[x] + g[x]
  <1> DEFINE U == S \ {x}
  <1>1. IsFiniteSet(U)
    BY FS_Subset
  <1>2. SumFunctionOnSet(g, U) = SumFunctionOnSet(f, U)
    BY <1>1, SumCongruent
  <1>3. SumFunctionOnSet(f, U) \in Int /\ f[x] \in Int /\ g[x] \in Int
    BY <1>1, SumInt
  <1>4. /\ SumFunctionOnSet(f, S) = f[x] + SumFunctionOnSet(f, U)
        /\ SumFunctionOnSet(g, S) = g[x] + SumFunctionOnSet(g, U)
    BY SumElement
  <1> HIDE DEF U
  <1> QED
    BY <1>2, <1>3, <1>4

\* A sum of natural numbers is one, and grows with the set.
LEMMA SumNat ==
    ASSUME NEW f, NEW S, IsFiniteSet(S), \A x \in S : f[x] \in Nat
    PROVE  SumFunctionOnSet(f, S) \in Nat
  <1> DEFINE B == {T \in SUBSET S : SumFunctionOnSet(f, T) \notin Nat}
  <1> SUFFICES ASSUME B # {} PROVE FALSE
    OBVIOUS
  <1>1. PICK T \in B : \A U \in B : ~(U \subseteq T /\ U # T)
    <2>1. B \in SUBSET (SUBSET S)
      OBVIOUS
    <2> HIDE DEF B
    <2> QED
      BY <2>1, SmallestSubset
  <1>2. T # {}
    <2> SUFFICES ASSUME T = {} PROVE FALSE
      OBVIOUS
    <2>1. SumFunctionOnSet(f, T) = 0
      BY SumEmpty
    <2> QED
      BY <1>1, <2>1
  <1>3. Pick(T) \in T /\ IsFiniteSet(T)
    BY <1>2, PickIn, FS_Subset
  <1>4. SumFunctionOnSet(f, T \ {Pick(T)}) \in Nat /\ f[Pick(T)] \in Nat
    BY <1>1, <1>3
  <1>5. SumFunctionOnSet(f, T) = f[Pick(T)] + SumFunctionOnSet(f, T \ {Pick(T)})
    BY <1>2, <1>3, SumFirst
  <1> QED
    BY <1>1, <1>4, <1>5

LEMMA SumSubset ==
    ASSUME NEW f, NEW S, IsFiniteSet(S), \A x \in S : f[x] \in Nat,
           NEW R \in SUBSET S
    PROVE  SumFunctionOnSet(f, R) <= SumFunctionOnSet(f, S)
  <1> DEFINE B == {T \in SUBSET S :
                      R \subseteq T /\ ~(SumFunctionOnSet(f, R) <= SumFunctionOnSet(f, T))}
  <1> SUFFICES ASSUME B # {} PROVE FALSE
    OBVIOUS
  <1>1. PICK T \in B : \A U \in B : ~(U \subseteq T /\ U # T)
    <2>1. B \in SUBSET (SUBSET S)
      OBVIOUS
    <2> HIDE DEF B
    <2> QED
      BY <2>1, SmallestSubset
  <1>2. IsFiniteSet(T) /\ IsFiniteSet(R)
    BY FS_Subset
  <1>3. SumFunctionOnSet(f, R) \in Nat
    BY <1>2, SumNat
  <1>4. T # R
    BY <1>1, <1>3
  <1>5. PICK x \in T : x \notin R
    BY <1>1, <1>4
  <1>6. SumFunctionOnSet(f, R) <= SumFunctionOnSet(f, T \ {x})
    BY <1>1, <1>5
  <1>7. SumFunctionOnSet(f, T) = f[x] + SumFunctionOnSet(f, T \ {x})
    BY <1>2, SumElement
  <1>8. SumFunctionOnSet(f, T \ {x}) \in Nat /\ f[x] \in Nat
    <2>1. IsFiniteSet(T \ {x})
      BY <1>2, FS_Subset
    <2> QED
      BY <2>1, SumNat
  <1> QED
    BY <1>1, <1>3, <1>6, <1>7, <1>8

\* The sum of two functions added term by term.
LEMMA SumPlus ==
    ASSUME NEW f, NEW g, NEW h, NEW S, IsFiniteSet(S),
           \A x \in S : f[x] \in Int /\ g[x] \in Int /\ h[x] = f[x] + g[x]
    PROVE  SumFunctionOnSet(h, S) = SumFunctionOnSet(f, S) + SumFunctionOnSet(g, S)
  <1> DEFINE B == {T \in SUBSET S : SumFunctionOnSet(h, T) #
                      SumFunctionOnSet(f, T) + SumFunctionOnSet(g, T)}
  <1> SUFFICES ASSUME B # {} PROVE FALSE
    OBVIOUS
  <1>1. PICK T \in B : \A U \in B : ~(U \subseteq T /\ U # T)
    <2>1. B \in SUBSET (SUBSET S)
      OBVIOUS
    <2> HIDE DEF B
    <2> QED
      BY <2>1, SmallestSubset
  <1>2. T # {}
    <2> SUFFICES ASSUME T = {} PROVE FALSE
      OBVIOUS
    <2>1. /\ SumFunctionOnSet(f, T) = 0 /\ SumFunctionOnSet(g, T) = 0
          /\ SumFunctionOnSet(h, T) = 0
      BY SumEmpty
    <2> QED
      BY <1>1, <2>1
  <1> DEFINE x == Pick(T)
             U == T \ {x}
  <1>3. x \in T /\ IsFiniteSet(T) /\ IsFiniteSet(U)
    BY <1>2, PickIn, FS_Subset
  <1>4. SumFunctionOnSet(h, U) = SumFunctionOnSet(f, U) + SumFunctionOnSet(g, U)
    BY <1>1, <1>3
  <1>5. /\ SumFunctionOnSet(f, T) = f[x] + SumFunctionOnSet(f, U)
        /\ SumFunctionOnSet(g, T) = g[x] + SumFunctionOnSet(g, U)
        /\ SumFunctionOnSet(h, T) = h[x] + SumFunctionOnSet(h, U)
    BY <1>2, <1>3, SumFirst
  <1>6. /\ SumFunctionOnSet(f, U) \in Int /\ SumFunctionOnSet(g, U) \in Int
        /\ f[x] \in Int /\ g[x] \in Int /\ h[x] = f[x] + g[x]
    BY <1>3, SumInt
  <1> HIDE DEF x, U
  <1> QED
    BY <1>1, <1>4, <1>5, <1>6

LEMMA SumZero ==
    ASSUME NEW f, NEW S, IsFiniteSet(S), \A x \in S : f[x] = 0
    PROVE  SumFunctionOnSet(f, S) = 0
  <1>1. \A x \in S : f[x] \in Int
    OBVIOUS
  <1>2. SumFunctionOnSet(f, S) \in Int
    BY <1>1, SumInt
  <1>3. \A x \in S : f[x] = f[x] + f[x]
    OBVIOUS
  <1>4. SumFunctionOnSet(f, S) = SumFunctionOnSet(f, S) + SumFunctionOnSet(f, S)
    BY <1>1, <1>3, SumPlus
  <1>5. \A x \in Int : x = x + x => x = 0
    OBVIOUS
  <1> QED
    BY <1>2, <1>4, <1>5
=============================================================================
