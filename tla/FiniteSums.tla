----------------------------- MODULE FiniteSums -----------------------------
(***************************************************************************)
(* Facts about numbers and finite sets that the proofs of several modules  *)
(* need: the least and the greatest of some numbers, and sums over finite  *)
(* sets.                                                                   *)
(***************************************************************************)
EXTENDS Integers, FiniteSets, FiniteSetsExt, FiniteSetTheorems, TLAPS

-----------------------------------------------------------------------------
(* The least and the greatest of some numbers.                             *)

LEMMA LeastNat ==
  ASSUME NEW S \in SUBSET Nat, S # {}
  PROVE  \E n \in S : \A m \in S : n <= m
<1>1. IsWellFoundedOn(OpToRel(<, Nat), Nat)
  BY NatLessThanWellFounded, Zenon
<1>2. PICK n \in S : \A m \in S : <<m, n>> \notin OpToRel(<, Nat)
  BY <1>1, WFMin, Zenon
<1>3. \A m \in S : ~(m < n)
  BY <1>2 DEF OpToRel
<1> QED BY <1>3

LEMMA GreatestNat ==
  ASSUME NEW n \in Nat, NEW S \in SUBSET (1..n), S # {}
  PROVE  Max(S) \in S
<1> DEFINE T == {m \in 0..n : n - m \in S}
<1>1. T \in SUBSET Nat
  OBVIOUS
<1>2. PICK x \in S : TRUE
  OBVIOUS
<1>3. n - x \in T
  OBVIOUS
<1>4. PICK m \in T : \A k \in T : m <= k
  <2> HIDE DEF T
  <2> QED BY <1>1, <1>3, LeastNat
<1>5. \A y \in S : n - y \in T
  OBVIOUS
<1>6. n - m \in S /\ \A y \in S : n - m >= y
  BY <1>4, <1>5
<1> QED BY <1>6 DEF Max

-----------------------------------------------------------------------------
(* Sums over finite sets.  The library's fold picks the elements in an     *)
(* order of its own; the lemmas say that the order does not matter.        *)

\* g adds f up over the subsets of S, element by element, the way a fold does.
AddsUp(f, S, g) ==
  g = [s \in SUBSET S |->
         IF s = {} THEN 0
         ELSE LET x == CHOOSE x \in s : TRUE IN f[x] + g[s \ {x}]]

Chosen(S) == CHOOSE x \in S : TRUE

Total(f, S) == (CHOOSE g : AddsUp(f, S, g))[S]

\* Among the subsets of a finite set that have a property, one has no proper
\* subset that has it: the induction the lemmas on sums use.
LEMMA SmallestSubset ==
  ASSUME NEW S, IsFiniteSet(S), NEW B \in SUBSET (SUBSET S), B # {}
  PROVE  \E T \in B : \A U \in SUBSET T : U # T => U \notin B
<1>1. IsWellFoundedOn(StrictSubsetOrdering(S), FiniteSubsetsOf(S))
  BY FS_StrictSubsetOrderingWellFounded
<1>2. FiniteSubsetsOf(S) = SUBSET S
  BY FS_FiniteSubsetsOfFinite
<1>3. PICK T \in B : \A U \in B : <<U, T>> \notin StrictSubsetOrdering(S)
  BY <1>1, <1>2, WFMin
<1> QED BY <1>3 DEF StrictSubsetOrdering

LEMMA AddsOnce ==
  ASSUME NEW S, IsFiniteSet(S), NEW f, NEW g, NEW h, AddsUp(f, S, g), AddsUp(f, S, h)
  PROVE  g = h
<1> DEFINE B == {T \in SUBSET S : g[T] # h[T]}
<1>1. /\ g = [T \in SUBSET S |-> g[T]] /\ h = [T \in SUBSET S |-> h[T]]
  BY DEF AddsUp
<1>2. ASSUME B # {}
      PROVE  FALSE
  <2>1. PICK T \in B : \A U \in SUBSET T : U # T => U \notin B
    <3>1. B \in SUBSET (SUBSET S)
      OBVIOUS
    <3> HIDE DEF B
    <3> QED BY <1>2, <3>1, SmallestSubset
  <2>2. CASE T = {}
    BY <2>1, <2>2 DEF AddsUp
  <2>3. CASE T # {}
    <3> DEFINE x == CHOOSE x \in T : TRUE
    <3>1. x \in T
      BY <2>3
    <3>2. g[T] = f[x] + g[T \ {x}] /\ h[T] = f[x] + h[T \ {x}]
      BY <2>1, <2>3 DEF AddsUp
    <3>3. T \ {x} \notin B /\ T \ {x} \in SUBSET S
      BY <2>1, <3>1
    <3>4. g[T \ {x}] = h[T \ {x}]
      BY <3>3
    <3> QED BY <2>1, <3>2, <3>4
  <2> QED BY <2>2, <2>3
<1>3. \A T \in SUBSET S : g[T] = h[T]
  BY <1>2
<1> QED BY <1>1, <1>3

LEMMA AddsLess ==
  ASSUME NEW S, NEW f, NEW g, AddsUp(f, S, g), NEW U \in SUBSET S
  PROVE  AddsUp(f, U, [s \in SUBSET U |-> g[s]])
<1> DEFINE h == [s \in SUBSET U |-> g[s]]
<1>1. ASSUME NEW s \in SUBSET U, s # {}
      PROVE  g[s] = (LET x == CHOOSE x \in s : TRUE IN f[x] + h[s \ {x}])
  BY <1>1 DEF AddsUp
<1>2. ASSUME NEW s \in SUBSET U, s = {}
      PROVE  g[s] = 0
  BY <1>2 DEF AddsUp
<1>3. h = [s \in SUBSET U |-> IF s = {} THEN 0
                              ELSE LET x == CHOOSE x \in s : TRUE IN f[x] + h[s \ {x}]]
  BY <1>1, <1>2
<1> QED BY <1>3 DEF AddsUp

LEMMA AddsSomehow ==
  ASSUME NEW S, IsFiniteSet(S), NEW f
  PROVE  \E g : AddsUp(f, S, g)
<1> DEFINE B == {T \in SUBSET S : ~ \E g : AddsUp(f, T, g)}
<1>1. ASSUME B # {}
      PROVE  FALSE
  <2>1. PICK T \in B : \A U \in SUBSET T : U # T => U \notin B
    <3>1. B \in SUBSET (SUBSET S)
      OBVIOUS
    <3> HIDE DEF B
    <3> QED BY <1>1, <3>1, SmallestSubset
  <2>2. ASSUME NEW U \in SUBSET T, U # T
        PROVE  \E g : AddsUp(f, U, g)
    BY <2>1, <2>2
  <2> DEFINE G(U) == CHOOSE g : AddsUp(f, U, g)
             v(s) == IF s = {} THEN 0
                     ELSE LET x == CHOOSE x \in s : TRUE IN f[x] + G(s \ {x})[s \ {x}]
             g == [s \in SUBSET T |-> v(s)]
  <2>3. ASSUME NEW U \in SUBSET T, U # T, NEW V \in SUBSET U
        PROVE  G(U)[V] = G(V)[V]
    <3>1. AddsUp(f, U, G(U))
      BY <2>2, <2>3
    <3>2. AddsUp(f, V, [s \in SUBSET V |-> G(U)[s]])
      BY <3>1, AddsLess
    <3>3. V # T
      BY <2>3
    <3>4. AddsUp(f, V, G(V))
      BY <2>2, <2>3, <3>3
    <3>5. IsFiniteSet(V)
      BY <2>1, <2>3, FS_Subset
    <3>6. G(V) = [s \in SUBSET V |-> G(U)[s]]
      <4> HIDE DEF G
      <4> QED BY <3>2, <3>4, <3>5, AddsOnce
    <3> QED BY <3>6
  <2>4. ASSUME NEW U \in SUBSET T, U # T
        PROVE  G(U)[U] = v(U)
    <3>1. AddsUp(f, U, G(U))
      BY <2>2, <2>4
    <3>2. CASE U = {}
      BY <3>1, <3>2 DEF AddsUp
    <3>3. CASE U # {}
      <4> DEFINE x == CHOOSE x \in U : TRUE
      <4>1. G(U)[U] = f[x] + G(U)[U \ {x}]
        <5> HIDE DEF G
        <5> QED BY <3>1, <3>3 DEF AddsUp
      <4>2. G(U)[U \ {x}] = G(U \ {x})[U \ {x}]
        BY <2>3, <2>4
      <4> QED BY <3>3, <4>1, <4>2
    <3> QED BY <3>2, <3>3
  <2>5. ASSUME NEW s \in SUBSET T, s # {}
        PROVE  g[s] = (LET x == CHOOSE x \in s : TRUE IN f[x] + g[s \ {x}])
    <3> DEFINE x == CHOOSE x \in s : TRUE
    <3>1. x \in s
      BY <2>5
    <3>2. s \ {x} \in SUBSET T /\ s \ {x} # T
      BY <3>1
    <3>3. G(s \ {x})[s \ {x}] = v(s \ {x})
      BY <2>4, <3>2
    <3>4. g[s \ {x}] = v(s \ {x})
      BY <3>2
    <3>5. g[s] = f[x] + G(s \ {x})[s \ {x}]
      BY <2>5
    <3> QED BY <3>3, <3>4, <3>5
  <2>6. g[{}] = 0
    OBVIOUS
  <2>7. g = [s \in SUBSET T |-> IF s = {} THEN 0
                              ELSE LET x == CHOOSE x \in s : TRUE IN f[x] + g[s \ {x}]]
    <3>1. g = [s \in SUBSET T |-> g[s]]
      OBVIOUS
    <3> HIDE DEF g
    <3> QED BY <2>5, <2>6, <3>1
  <2>8. AddsUp(f, T, g)
    BY <2>7 DEF AddsUp
  <2> QED BY <2>1, <2>8
<1> QED BY <1>1

\* What a sum is: nothing, or one element and the sum of the rest.
LEMMA TotalUnfolds ==
  ASSUME NEW S, IsFiniteSet(S), NEW f
  PROVE  /\ S = {} => Total(f, S) = 0
         /\ S # {} => /\ Chosen(S) \in S
                      /\ Total(f, S) = f[Chosen(S)] + Total(f, S \ {Chosen(S)})
<1> DEFINE G(U) == CHOOSE g : AddsUp(f, U, g)
<1>1. AddsUp(f, S, G(S))
  BY AddsSomehow
<1>2. S = {} => Total(f, S) = 0
  BY <1>1 DEF AddsUp, Total
<1>3. ASSUME S # {}
      PROVE  Chosen(S) \in S /\ Total(f, S) = f[Chosen(S)] + Total(f, S \ {Chosen(S)})
  <2> DEFINE x == Chosen(S)
             U == S \ {x}
  <2>1. x \in S
    BY <1>3 DEF Chosen
  <2>2. G(S)[S] = f[x] + G(S)[U]
    <3> HIDE DEF G
    <3> QED BY <1>1, <1>3 DEF AddsUp, Chosen
  <2>3. AddsUp(f, U, G(U)) /\ IsFiniteSet(U)
    BY FS_Subset, AddsSomehow
  <2>4. AddsUp(f, U, [s \in SUBSET U |-> G(S)[s]])
    <3> HIDE DEF G
    <3> QED BY <1>1, AddsLess
  <2>5. G(U) = [s \in SUBSET U |-> G(S)[s]]
    <3> HIDE DEF G, U
    <3> QED BY <2>3, <2>4, AddsOnce
  <2>6. G(U)[U] = G(S)[U]
    BY <2>5
  <2> QED BY <2>1, <2>2, <2>6 DEF Total
<1> QED BY <1>2, <1>3

LEMMA TotalIsNat ==
  ASSUME NEW S, IsFiniteSet(S), NEW f, \A x \in S : f[x] \in Nat
  PROVE  Total(f, S) \in Nat
<1> DEFINE B == {T \in SUBSET S : Total(f, T) \notin Nat}
<1>1. ASSUME B # {}
      PROVE  FALSE
  <2>1. PICK T \in B : \A U \in SUBSET T : U # T => U \notin B
    <3>1. B \in SUBSET (SUBSET S)
      OBVIOUS
    <3> HIDE DEF B
    <3> QED BY <1>1, <3>1, SmallestSubset
  <2>2. IsFiniteSet(T)
    BY <2>1, FS_Subset
  <2>3. T # {}
    <3>1. Total(f, T) # 0
      BY <2>1
    <3>2. T = {} => Total(f, T) = 0
      BY <2>2, TotalUnfolds
    <3> QED BY <3>1, <3>2
  <2>4. PICK x \in T : Total(f, T) = f[x] + Total(f, T \ {x})
    <3> HIDE DEF B
    <3> QED BY <2>2, <2>3, TotalUnfolds
  <2>5. Total(f, T \ {x}) \in Nat /\ f[x] \in Nat
    BY <2>1, <2>4
  <2> QED BY <2>1, <2>4, <2>5
<1> QED BY <1>1

\* Two functions that agree have the same sum, whatever the order; one more at
\* one element is one more in the sum.
LEMMA TotalMoves ==
  ASSUME NEW S, IsFiniteSet(S), NEW f, NEW h, NEW r,
         \A x \in S : f[x] \in Nat /\ h[x] = (IF x = r THEN f[x] + 1 ELSE f[x])
  PROVE  Total(h, S) = (IF r \in S THEN Total(f, S) + 1 ELSE Total(f, S))
<1> DEFINE B == {T \in SUBSET S :
                   Total(h, T) # (IF r \in T THEN Total(f, T) + 1 ELSE Total(f, T))}
<1>1. ASSUME B # {}
      PROVE  FALSE
  <2>1. PICK T \in B : \A U \in SUBSET T : U # T => U \notin B
    <3>1. B \in SUBSET (SUBSET S)
      OBVIOUS
    <3> HIDE DEF B
    <3> QED BY <1>1, <3>1, SmallestSubset
  <2>2. IsFiniteSet(T)
    BY <2>1, FS_Subset
  <2>3. T # {}
    BY <2>1, <2>2, TotalUnfolds
  <2>4. PICK x \in T : /\ Total(f, T) = f[x] + Total(f, T \ {x})
                      /\ Total(h, T) = h[x] + Total(h, T \ {x})
    <3> HIDE DEF B
    <3> QED BY <2>2, <2>3, TotalUnfolds
  <2> DEFINE U == T \ {x}
  <2>5. IsFiniteSet(U) /\ \A y \in U : f[y] \in Nat
    BY <2>1, <2>2, FS_Subset
  <2>6. Total(f, U) \in Nat /\ f[x] \in Nat
    BY <2>1, <2>4, <2>5, TotalIsNat
  <2>7. Total(h, U) = (IF r \in U THEN Total(f, U) + 1 ELSE Total(f, U))
    BY <2>1, <2>4
  <2>8. h[x] = (IF x = r THEN f[x] + 1 ELSE f[x])
    BY <2>1, <2>4
  <2>9. Total(h, T) = (IF r \in T THEN Total(f, T) + 1 ELSE Total(f, T))
    <3>1. CASE x = r
      <4>1. Total(h, U) = Total(f, U) /\ h[x] = f[x] + 1 /\ r \in T
        BY <2>4, <2>7, <2>8, <3>1
      <4> HIDE DEF U, B
      <4> QED BY <2>4, <2>6, <4>1 DEF U
    <3>2. CASE x # r
      <4>1. r \in U <=> r \in T
        BY <3>2
      <4>2. h[x] = f[x]
        BY <2>8, <3>2
      <4> QED BY <2>4, <2>6, <2>7, <4>1, <4>2
    <3> QED BY <3>1, <3>2
  <2> QED BY <2>1, <2>9
<1> QED BY <1>1

LEMMA TotalOfNothing ==
  ASSUME NEW S, IsFiniteSet(S), NEW f, \A x \in S : f[x] = 0
  PROVE  Total(f, S) = 0
<1> DEFINE B == {T \in SUBSET S : Total(f, T) # 0}
<1>1. ASSUME B # {}
      PROVE  FALSE
  <2>1. PICK T \in B : \A U \in SUBSET T : U # T => U \notin B
    <3>1. B \in SUBSET (SUBSET S)
      OBVIOUS
    <3> HIDE DEF B
    <3> QED BY <1>1, <3>1, SmallestSubset
  <2>2. IsFiniteSet(T)
    BY <2>1, FS_Subset
  <2>3. T # {}
    BY <2>1, <2>2, TotalUnfolds
  <2>4. PICK x \in T : Total(f, T) = f[x] + Total(f, T \ {x})
    <3> HIDE DEF B
    <3> QED BY <2>2, <2>3, TotalUnfolds
  <2>5. Total(f, T \ {x}) = 0 /\ f[x] = 0
    BY <2>1, <2>4
  <2> QED BY <2>1, <2>4, <2>5
<1> QED BY <1>1

\* Any element may be the first: a sum is that element and the rest.
LEMMA TotalSplits ==
  ASSUME NEW S, IsFiniteSet(S), NEW f, \A y \in S : f[y] \in Nat, NEW x \in S
  PROVE  Total(f, S) = f[x] + Total(f, S \ {x})
<1> DEFINE B == {T \in SUBSET S : \E z \in T : Total(f, T) # f[z] + Total(f, T \ {z})}
<1>1. ASSUME B # {}
      PROVE  FALSE
  <2>1. PICK T \in B : \A U \in SUBSET T : U # T => U \notin B
    <3>1. B \in SUBSET (SUBSET S)
      OBVIOUS
    <3> HIDE DEF B
    <3> QED BY <1>1, <3>1, SmallestSubset
  <2>2. IsFiniteSet(T)
    BY <2>1, FS_Subset
  <2>3. PICK z \in T : Total(f, T) # f[z] + Total(f, T \ {z})
    BY <2>1
  <2>4. PICK y \in T : Total(f, T) = f[y] + Total(f, T \ {y})
    <3> HIDE DEF B
    <3> QED BY <2>2, <2>3, TotalUnfolds
  <2>5. y # z
    BY <2>3, <2>4
  <2>6. Total(f, T \ {y}) = f[z] + Total(f, (T \ {y}) \ {z})
    <3>1. T \ {y} \in SUBSET T /\ T \ {y} # T /\ z \in T \ {y}
      BY <2>5
    <3> QED BY <2>1, <3>1
  <2>7. Total(f, T \ {z}) = f[y] + Total(f, (T \ {z}) \ {y})
    <3>1. T \ {z} \in SUBSET T /\ T \ {z} # T /\ y \in T \ {z}
      BY <2>5
    <3> QED BY <2>1, <3>1
  <2>8. (T \ {y}) \ {z} = (T \ {z}) \ {y}
    OBVIOUS
  <2>9. f[y] \in Nat /\ f[z] \in Nat /\ Total(f, (T \ {z}) \ {y}) \in Nat
    <3>1. IsFiniteSet((T \ {z}) \ {y}) /\ \A w \in (T \ {z}) \ {y} : f[w] \in Nat
      BY <2>1, <2>2, FS_Subset
    <3>2. Total(f, (T \ {z}) \ {y}) \in Nat
      <4> HIDE DEF B
      <4> QED BY <3>1, TotalIsNat
    <3> QED BY <2>1, <3>2
  <2> HIDE DEF B
  <2> QED BY <2>3, <2>4, <2>6, <2>7, <2>8, <2>9
<1>2. S \notin B
  BY <1>1
<1> QED BY <1>2

\* A sum of naturals over more elements is not less.
LEMMA TotalGrows ==
  ASSUME NEW S, IsFiniteSet(S), NEW R \in SUBSET S, NEW f, NEW h,
         \A x \in S : h[x] \in Nat, \A x \in R : f[x] = h[x]
  PROVE  Total(f, R) <= Total(h, S)
<1> DEFINE B == {T \in SUBSET S : ~ Total(f, T \cap R) <= Total(h, T)}
<1>1. ASSUME B # {}
      PROVE  FALSE
  <2>1. PICK T \in B : \A U \in SUBSET T : U # T => U \notin B
    <3>1. B \in SUBSET (SUBSET S)
      OBVIOUS
    <3> HIDE DEF B
    <3> QED BY <1>1, <3>1, SmallestSubset
  <2>2. /\ IsFiniteSet(T) /\ IsFiniteSet(T \cap R)
        /\ \A y \in T : h[y] \in Nat
        /\ \A y \in T \cap R : f[y] \in Nat
    BY <2>1, FS_Subset
  <2>3. T # {}
    <3>1. CASE T = {}
      <4>1. T \cap R = {} /\ Total(f, T \cap R) = 0 /\ Total(h, T) = 0
        BY <2>2, <3>1, TotalUnfolds
      <4> QED BY <2>1, <4>1
    <3> QED BY <3>1
  <2>4. PICK x \in T : Total(h, T) = h[x] + Total(h, T \ {x})
    <3> HIDE DEF B
    <3> QED BY <2>2, <2>3, TotalUnfolds
  <2> DEFINE U == T \ {x}
  <2>5. Total(f, U \cap R) <= Total(h, U)
    BY <2>1, <2>4
  <2>6. /\ h[x] \in Nat /\ Total(h, U) \in Nat /\ Total(f, U \cap R) \in Nat
    <3>1. IsFiniteSet(U) /\ IsFiniteSet(U \cap R)
      BY <2>2, FS_Subset
    <3> HIDE DEF B
    <3> QED BY <2>2, <2>4, <3>1, TotalIsNat
  <2>7. Total(f, T \cap R) <= Total(h, T)
    <3>1. CASE x \in R
      <4>1. Total(f, T \cap R) = f[x] + Total(f, (T \cap R) \ {x})
        <5> HIDE DEF B
        <5> QED BY <2>2, <2>4, <3>1, TotalSplits
      <4>2. (T \cap R) \ {x} = U \cap R /\ f[x] = h[x]
        BY <3>1
      <4> HIDE DEF U
      <4>3. PICK a \in Nat, c \in Nat, m \in Nat :
              m = h[x] /\ a = Total(f, U \cap R) /\ c = Total(h, U) /\ a <= c
        BY <2>5, <2>6
      <4>4. Total(h, T) = m + c /\ Total(f, T \cap R) = m + a
        BY <2>4, <4>1, <4>2, <4>3 DEF U
      <4> QED BY <4>3, <4>4
    <3>2. CASE x \notin R
      <4>1. T \cap R = U \cap R
        BY <3>2
      <4> HIDE DEF U
      <4>2. PICK a \in Nat, c \in Nat, m \in Nat :
              m = h[x] /\ a = Total(f, U \cap R) /\ c = Total(h, U) /\ a <= c
        BY <2>5, <2>6
      <4>3. Total(h, T) = m + c /\ Total(f, T \cap R) = a
        BY <2>4, <4>1, <4>2 DEF U
      <4> QED BY <4>2, <4>3
    <3> QED BY <3>1, <3>2
  <2> QED BY <2>1, <2>7
<1>2. S \notin B /\ S \cap R = R
  BY <1>1
<1> QED BY <1>2

LEMMA TotalAgrees ==
  ASSUME NEW S, IsFiniteSet(S), NEW f, NEW h, \A x \in S : f[x] \in Nat /\ f[x] = h[x]
  PROVE  Total(f, S) = Total(h, S)
<1>1. Total(f, S) <= Total(h, S) /\ Total(h, S) <= Total(f, S)
  BY TotalGrows
<1>2. Total(f, S) \in Nat /\ Total(h, S) \in Nat
  BY TotalIsNat
<1> QED BY <1>1, <1>2

\* Two sums count twice what both sets hold.
LEMMA TotalOverlaps ==
  ASSUME NEW S, IsFiniteSet(S), NEW f, \A y \in S : f[y] \in Nat,
         NEW X \in SUBSET S, NEW Y \in SUBSET S
  PROVE  Total(f, X) + Total(f, Y) = Total(f, X \cup Y) + Total(f, X \cap Y)
<1> DEFINE Off(U) == Total(f, X) + Total(f, U) # Total(f, X \cup U) + Total(f, X \cap U)
           B == {U \in SUBSET Y : Off(U)}
<1>1. \A U \in SUBSET S : IsFiniteSet(U) /\ Total(f, U) \in Nat
  BY FS_Subset, TotalIsNat
<1>2. ASSUME B # {}
      PROVE  FALSE
  <2>1. PICK U \in B : \A V \in SUBSET U : V # U => V \notin B
    <3>1. B \in SUBSET (SUBSET Y) /\ IsFiniteSet(Y)
      BY <1>1
    <3> HIDE DEF B
    <3> QED BY <1>2, <3>1, SmallestSubset
  <2>2. U \in SUBSET Y /\ U \in SUBSET S /\ Off(U)
    BY <2>1
  <2>3. U # {}
    <3>1. X \cup {} = X /\ X \cap {} = {}
      OBVIOUS
    <3>2. Total(f, X) \in Nat /\ Total(f, {}) \in Nat
      BY <1>1
    <3> QED BY <2>2, <3>1, <3>2
  <2>4. PICK x \in U : TRUE
    BY <2>3
  <2> DEFINE V == U \ {x}
  <2>5. Total(f, X) + Total(f, V) = Total(f, X \cup V) + Total(f, X \cap V)
    BY <2>1, <2>2, <2>4
  <2>6. Total(f, U) = f[x] + Total(f, V)
    <3>1. IsFiniteSet(U) /\ \A y \in U : f[y] \in Nat
      BY <1>1, <2>2
    <3> HIDE DEF B, Off
    <3> QED BY <2>4, <3>1, TotalSplits
  <2>7. /\ f[x] \in Nat /\ Total(f, X) \in Nat /\ Total(f, V) \in Nat
        /\ Total(f, X \cup V) \in Nat /\ Total(f, X \cap V) \in Nat
    <3>1. V \in SUBSET S /\ X \cup V \in SUBSET S /\ X \cap V \in SUBSET S
      BY <2>2
    <3>2. f[x] \in Nat
      BY <2>2, <2>4
    <3> HIDE DEF V
    <3> QED BY <1>1, <3>1, <3>2
  <2>8. CASE x \in X
    <3>1. X \cup V = X \cup U /\ X \cap V = (X \cap U) \ {x} /\ x \in X \cap U
      BY <2>4, <2>8
    <3>2. Total(f, X \cap U) = f[x] + Total(f, (X \cap U) \ {x})
      <4>1. IsFiniteSet(X \cap U) /\ \A y \in X \cap U : f[y] \in Nat
        BY <1>1, <2>2
      <4> HIDE DEF B, Off, V
      <4> QED BY <3>1, <4>1, TotalSplits
    <3>3. Total(f, X \cup V) = Total(f, X \cup U) /\ Total(f, X \cap V) = Total(f, (X \cap U) \ {x})
      BY <3>1, Zenon
    <3> HIDE DEF B, V
    <3>4. Total(f, X) + Total(f, U) = Total(f, X \cup U) + Total(f, X \cap U)
      BY <2>5, <2>6, <2>7, <3>2, <3>3
    <3> QED BY <2>2, <3>4
  <2>9. CASE x \notin X
    <3>1. X \cap V = X \cap U /\ X \cup V = (X \cup U) \ {x} /\ x \in X \cup U
      BY <2>4, <2>9
    <3>2. Total(f, X \cup U) = f[x] + Total(f, (X \cup U) \ {x})
      <4>1. IsFiniteSet(X \cup U) /\ \A y \in X \cup U : f[y] \in Nat
        BY <1>1, <2>2
      <4> HIDE DEF B, Off, V
      <4> QED BY <3>1, <4>1, TotalSplits
    <3>3. Total(f, X \cap V) = Total(f, X \cap U) /\ Total(f, X \cup V) = Total(f, (X \cup U) \ {x})
      BY <3>1, Zenon
    <3> HIDE DEF B, V
    <3>4. Total(f, X) + Total(f, U) = Total(f, X \cup U) + Total(f, X \cap U)
      BY <2>5, <2>6, <2>7, <3>2, <3>3
    <3> QED BY <2>2, <3>4
  <2> QED BY <2>8, <2>9
<1>3. Y \notin B
  BY <1>2
<1> QED BY <1>3

\* The community modules' sum is this one.
LEMMA SumIsTotal ==
  ASSUME NEW f, NEW S
  PROVE  MapThenSumSet(LAMBDA x : f[x], S) = Total(f, S)
BY DEF MapThenSumSet, MapThenFoldSet, Total, AddsUp
=============================================================================
