------------------------------- MODULE Induction -------------------------------
(***************************************************************************)
(* Induction over data, in terms of sets instead of predicates: a set of   *)
(* numbers has a least one, and what holds for 0 and for each successor    *)
(* holds for all.  With it, what a sum over a finite set computes.         *)
(***************************************************************************)
EXTENDS Integers, Functions, FiniteSets, FiniteSetTheorems, WellFoundedInduction, TLAPS

LEMMA LeastNatural ==
  ASSUME NEW T, T \subseteq Nat, T # {}
  PROVE  \E x \in T : \A y \in T : x <= y
<1> DEFINE R == OpToRel(<, Nat)
<1>1. IsWellFoundedOn(R, Nat)
  BY NatLessThanWellFounded
<1>2. \A x, y \in Nat : y < x => <<y, x>> \in R
  BY DEF OpToRel
<1> HIDE DEF R
<1>3. PICK x \in T : \A y \in T : ~ (<<y, x>> \in R)
  BY <1>1, WFMin
<1>4. x \in Nat
  BY <1>3
<1>5. \A y \in T : y \in Nat /\ ~ (y < x)
  BY <1>2, <1>3
<1> QED
  BY <1>3, <1>4, <1>5

LEMMA NatInduct ==
  ASSUME NEW S, 0 \in S, \A n \in Nat : n \in S => n + 1 \in S
  PROVE  Nat \subseteq S
<1> SUFFICES ASSUME Nat \ S # {}
             PROVE  FALSE
  OBVIOUS
<1>1. PICK x \in Nat \ S : \A y \in Nat \ S : x <= y
  BY LeastNatural
<1>2. x # 0 /\ x - 1 \in Nat
  BY <1>1
<1>3. x - 1 \in S
  BY <1>1, <1>2
<1> QED
  BY <1>1, <1>2, <1>3
-----------------------------------------------------------------------------
\* The recursive function by which a sum over a finite set is defined.
SumBy(f, T, v) ==
  f = [s \in SUBSET T |->
         IF s = {} THEN 0
         ELSE LET x == CHOOSE x \in s : TRUE IN v[x] + f[s \ {x}]]

\* It exists: by induction on the size of the sets that it is defined for.
LEMMA SumExists ==
  ASSUME NEW T, IsFiniteSet(T), NEW v
  PROVE  \E f : SumBy(f, T, v)
<1> DEFINE Small(n) == {s \in SUBSET T : Cardinality(s) <= n}
           Step(f, s) == IF s = {} THEN 0
                         ELSE LET x == CHOOSE x \in s : TRUE IN v[x] + f[s \ {x}]
           Sizes == {n \in Nat : \E f : f = [s \in Small(n) |-> Step(f, s)]}
<1>1. \A s \in SUBSET T : /\ IsFiniteSet(s) /\ Cardinality(s) \in Nat
                          /\ Cardinality(s) <= Cardinality(T)
                          /\ s = {} <=> Cardinality(s) = 0
  BY FS_Subset, FS_CardinalityType, FS_EmptySet
<1>2. \A s \in SUBSET T : \A x \in s : /\ s \ {x} \in SUBSET T
                                   /\ Cardinality(s \ {x}) = Cardinality(s) - 1
  BY <1>1, FS_RemoveElement
<1>3. 0 \in Sizes
  <2> DEFINE f == [s \in Small(0) |-> 0]
  <2>1. \A s \in Small(0) : s = {}
    BY <1>1
  <2>2. f = [s \in Small(0) |-> Step(f, s)]
    BY <2>1
  <2> QED
    BY <2>2
<1>4. ASSUME NEW n \in Nat, n \in Sizes
      PROVE  n + 1 \in Sizes
  <2>1. PICK f : f = [s \in Small(n) |-> Step(f, s)]
    BY <1>4
  <2> DEFINE g == [s \in Small(n + 1) |-> Step(f, s)]
  <2>2. ASSUME NEW s \in Small(n + 1)
        PROVE  Step(f, s) = Step(g, s)
    <3>1. CASE s = {}
      BY <3>1
    <3>2. CASE s # {}
      <4> DEFINE x == CHOOSE x \in s : TRUE
      <4>1. x \in s
        BY <3>2
      <4> HIDE DEF x
      <4>2. Cardinality(s) \in Nat /\ Cardinality(s) <= n + 1
        BY <1>1
      <4>3. s \ {x} \in SUBSET T /\ Cardinality(s \ {x}) <= n
        BY <1>2, <4>1, <4>2
      <4>4. s \ {x} \in Small(n) /\ s \ {x} \in Small(n + 1)
        BY <4>3, <1>1
      <4>5. f[s \ {x}] = Step(f, s \ {x})
        BY <2>1, <4>4
      <4>6. g[s \ {x}] = Step(f, s \ {x})
        BY <4>4
      <4> QED
        BY <3>2, <4>5, <4>6 DEF x
    <3> QED
      BY <3>1, <3>2
  <2>3. g = [s \in Small(n + 1) |-> Step(g, s)]
    BY <2>2
  <2> HIDE DEF g
  <2>4. \E h : h = [s \in Small(n + 1) |-> Step(h, s)]
    BY <2>3
  <2> HIDE DEF Small, Step
  <2> QED
    BY <2>4
<1> HIDE DEF Sizes
<1>5. Nat \subseteq Sizes
  BY <1>3, <1>4, NatInduct
<1>6. Cardinality(T) \in Sizes
  BY <1>1, <1>5
<1>7. PICK f : f = [s \in Small(Cardinality(T)) |-> Step(f, s)]
  BY <1>6 DEF Sizes
<1>8. Small(Cardinality(T)) = SUBSET T
  BY <1>1
<1>9. f = [s \in SUBSET T |-> Step(f, s)]
  BY <1>7, <1>8
<1> QED
  BY <1>9 DEF SumBy

\* A sum of natural numbers is one.
LEMMA SumIsNat ==
  ASSUME NEW T, IsFiniteSet(T), NEW v, \A x \in T : v[x] \in Nat, NEW f, SumBy(f, T, v)
  PROVE  f[T] \in Nat
<1> DEFINE Sizes == {n \in Nat : \A s \in SUBSET T : Cardinality(s) = n => f[s] \in Nat}
<1>1. \A s \in SUBSET T : /\ IsFiniteSet(s) /\ Cardinality(s) \in Nat
                          /\ s = {} <=> Cardinality(s) = 0
  BY FS_Subset, FS_CardinalityType, FS_EmptySet
<1>2. 0 \in Sizes
  BY <1>1 DEF SumBy
<1>3. ASSUME NEW n \in Nat, n \in Sizes
      PROVE  n + 1 \in Sizes
  <2> SUFFICES ASSUME NEW s \in SUBSET T, Cardinality(s) = n + 1
               PROVE  f[s] \in Nat
    OBVIOUS
  <2>1. s # {}
    BY <1>1
  <2> DEFINE x == CHOOSE x \in s : TRUE
  <2>2. x \in s
    BY <2>1
  <2>3. f[s] = v[x] + f[s \ {x}]
    BY <2>1 DEF SumBy
  <2> HIDE DEF x
  <2>4. Cardinality(s \ {x}) = n
    BY <1>1, <2>2, FS_RemoveElement
  <2>5. f[s \ {x}] \in Nat
    BY <1>3, <2>4
  <2> QED
    BY <2>2, <2>3, <2>5
<1> HIDE DEF Sizes
<1>4. Nat \subseteq Sizes
  BY <1>2, <1>3, NatInduct
<1>5. Cardinality(T) \in Sizes
  BY <1>1, <1>4
<1> QED
  BY <1>5 DEF Sizes
-----------------------------------------------------------------------------
\* A value that is computed in n steps from a first one.
StepsTo(f, n, base, step) ==
  f = [k \in 0 .. n |-> IF k = 0 THEN base ELSE step[k - 1][f[k - 1]]]

LEMMA StepByStep ==
  ASSUME NEW f, NEW n \in Nat, NEW base, NEW step
  PROVE  StepsTo(f, n, base, step)
           <=> /\ f = [k \in 0 .. n |-> f[k]]
               /\ f[0] = base
               /\ \A k \in 0 .. n - 1 : f[k + 1] = step[k][f[k]]
<1>1. ASSUME StepsTo(f, n, base, step)
      PROVE  /\ f = [k \in 0 .. n |-> f[k]]
             /\ f[0] = base
             /\ \A k \in 0 .. n - 1 : f[k + 1] = step[k][f[k]]
  <2>1. f = [k \in 0 .. n |-> IF k = 0 THEN base ELSE step[k - 1][f[k - 1]]]
    BY <1>1 DEF StepsTo
  <2>2. f = [k \in 0 .. n |-> f[k]]
    BY <2>1
  <2>3. \A k \in 0 .. n : f[k] = IF k = 0 THEN base ELSE step[k - 1][f[k - 1]]
    BY <2>1
  <2>4. \A k \in 0 .. n - 1 : k + 1 \in 0 .. n /\ k + 1 # 0 /\ (k + 1) - 1 = k
    OBVIOUS
  <2>5. 0 \in 0 .. n
    OBVIOUS
  <2>6. \A k \in 0 .. n - 1 : f[k + 1] = step[k][f[k]]
    BY <2>3, <2>4
  <2> QED
    BY <2>2, <2>3, <2>5, <2>6
<1>2. ASSUME f = [k \in 0 .. n |-> f[k]],
             f[0] = base,
             \A k \in 0 .. n - 1 : f[k + 1] = step[k][f[k]]
      PROVE  StepsTo(f, n, base, step)
  <2>1. \A k \in 0 .. n : k # 0 => k - 1 \in 0 .. n - 1 /\ (k - 1) + 1 = k
    OBVIOUS
  <2>2. \A k \in 0 .. n : f[k] = IF k = 0 THEN base ELSE step[k - 1][f[k - 1]]
    BY <1>2, <2>1
  <2>3. [k \in 0 .. n |-> f[k]] = [k \in 0 .. n |-> IF k = 0 THEN base ELSE step[k - 1][f[k - 1]]]
    BY <2>2
  <2> QED
    BY <1>2, <2>3 DEF StepsTo
<1> QED
  BY <1>1, <1>2

\* The values of any number of steps.
Iterates(F, V, base, step) ==
  /\ F \in [Nat -> V]
  /\ F[0] = base
  /\ \A n \in Nat : F[n + 1] = step[n][F[n]]

LEMMA Iterated ==
  ASSUME NEW V, NEW base \in V, NEW step \in [Nat -> [V -> V]]
  PROVE  \E F : Iterates(F, V, base, step)
<1> DEFINE Right(f, n) == StepsTo(f, n, base, step)
           Far == {n \in Nat : \E f \in [0 .. n -> V] : Right(f, n)}
<1>1. 0 \in Far
  <2> DEFINE h == [k \in 0 .. 0 |-> base]
  <2>1. h = [k \in 0 .. 0 |-> h[k]] /\ h[0] = base /\ h \in [0 .. 0 -> V]
    OBVIOUS
  <2>2. \A k \in 0 .. 0 - 1 : h[k + 1] = step[k][h[k]]
    OBVIOUS
  <2> HIDE DEF h
  <2>3. Right(h, 0)
    BY <2>1, <2>2, StepByStep
  <2> QED
    BY <2>1, <2>3
<1>2. ASSUME NEW n \in Nat, n \in Far
      PROVE  n + 1 \in Far
  <2>1. PICK f \in [0 .. n -> V] : Right(f, n)
    BY <1>2
  <2>2. /\ f[0] = base
        /\ \A k \in 0 .. n - 1 : f[k + 1] = step[k][f[k]]
    BY <2>1, StepByStep
  <2>3. f[n] \in V
    BY <2>1
  <2>4. step[n][f[n]] \in V
    BY <2>3
  <2> DEFINE h == [k \in 0 .. n + 1 |-> IF k = n + 1 THEN step[n][f[n]] ELSE f[k]]
  <2>5. h \in [0 .. n + 1 -> V]
    BY <2>1, <2>4
  <2>6. h[0] = base
    BY <2>2
  <2>7. \A k \in 0 .. (n + 1) - 1 : h[k + 1] = step[k][h[k]]
    <3> SUFFICES ASSUME NEW k \in 0 .. (n + 1) - 1 PROVE h[k + 1] = step[k][h[k]]
      OBVIOUS
    <3>1. k \in Nat /\ h[k] = f[k] /\ k + 1 \in 0 .. n + 1
      OBVIOUS
    <3>2. CASE k = n
      BY <3>1, <3>2
    <3>3. CASE k # n
      <4>1. k \in 0 .. n - 1 /\ k + 1 # n + 1
        BY <3>3
      <4>2. h[k + 1] = f[k + 1]
        BY <3>1, <4>1
      <4>3. f[k + 1] = step[k][f[k]]
        BY <2>2, <4>1
      <4> QED
        BY <3>1, <4>2, <4>3
    <3> QED
      BY <3>2, <3>3
  <2>9. h = [k \in 0 .. n + 1 |-> h[k]] /\ n + 1 \in Nat
    OBVIOUS
  <2> HIDE DEF h
  <2>8. Right(h, n + 1)
    BY <2>6, <2>7, <2>9, StepByStep
  <2> QED
    BY <2>5, <2>8
<1> HIDE DEF Far
<1>3. Nat \subseteq Far
  BY <1>1, <1>2, NatInduct
<1> DEFINE G == [n \in Nat |-> CHOOSE f \in [0 .. n -> V] : Right(f, n)]
           F == [n \in Nat |-> G[n][n]]
<1>4. ASSUME NEW n \in Nat
      PROVE  /\ G[n] \in [0 .. n -> V]
             /\ G[n][0] = base
             /\ \A k \in 0 .. n - 1 : G[n][k + 1] = step[k][G[n][k]]
  <2>1. \E f \in [0 .. n -> V] : Right(f, n)
    BY <1>3 DEF Far
  <2>2. G[n] \in [0 .. n -> V] /\ Right(G[n], n)
    BY <2>1
  <2> QED
    BY <2>2, StepByStep
<1> HIDE DEF G
<1> DEFINE Runs(f, m) == f[0] = base /\ \A k \in 0 .. m - 1 : f[k + 1] = step[k][f[k]]
<1>5. \A m \in Nat, n \in Nat : \A f :
        Runs(f, m) => \A k \in 0 .. m : k <= n => f[k] = G[n][k]
  <2> SUFFICES ASSUME NEW m \in Nat, NEW n \in Nat, NEW f, Runs(f, m)
               PROVE  \A k \in 0 .. m : k <= n => f[k] = G[n][k]
    OBVIOUS
  <2> DEFINE Agree == {k \in Nat : k <= m /\ k <= n => f[k] = G[n][k]}
  <2>1. 0 \in Agree
    BY <1>4
  <2>2. ASSUME NEW k \in Nat, k \in Agree
        PROVE  k + 1 \in Agree
    <3> SUFFICES ASSUME k + 1 <= m, k + 1 <= n PROVE f[k + 1] = G[n][k + 1]
      OBVIOUS
    <3>1. k \in 0 .. m - 1 /\ k \in 0 .. n - 1 /\ k <= m /\ k <= n
      OBVIOUS
    <3>2. f[k + 1] = step[k][f[k]] /\ G[n][k + 1] = step[k][G[n][k]]
      BY <1>4, <3>1
    <3>3. f[k] = G[n][k]
      BY <2>2, <3>1
    <3> QED
      BY <3>2, <3>3
  <2> HIDE DEF Agree
  <2>3. Nat \subseteq Agree
    BY <2>1, <2>2, NatInduct
  <2> QED
    BY <2>3 DEF Agree
<1>6. \A m \in Nat : \A k \in 0 .. m : k \in Nat /\ k <= k /\ G[m][k] = G[k][k]
  <2> SUFFICES ASSUME NEW m \in Nat, NEW k \in 0 .. m PROVE G[m][k] = G[k][k]
    OBVIOUS
  <2>1. k \in Nat /\ k <= k
    OBVIOUS
  <2>2. Runs(G[m], m)
    BY <1>4
  <2> HIDE DEF Runs
  <2>3. \A i \in 0 .. m : i <= k => G[m][i] = G[k][i]
    BY <1>5, <2>1, <2>2
  <2> QED
    BY <2>1, <2>3
<1>7. F \in [Nat -> V]
  <2>1. \A n \in Nat : G[n][n] \in V
    <3> SUFFICES ASSUME NEW n \in Nat PROVE G[n][n] \in V
      OBVIOUS
    <3>1. n \in 0 .. n
      OBVIOUS
    <3> QED
      BY <1>4, <3>1
  <2> QED
    BY <2>1
<1>8. F[0] = base
  BY <1>4
<1>9. \A n \in Nat : F[n + 1] = step[n][F[n]]
  <2> SUFFICES ASSUME NEW n \in Nat PROVE G[n + 1][n + 1] = step[n][G[n][n]]
    OBVIOUS
  <2>1. n \in 0 .. (n + 1) - 1 /\ n \in 0 .. n + 1 /\ n + 1 \in Nat
    OBVIOUS
  <2>2. G[n + 1][n + 1] = step[n][G[n + 1][n]]
    BY <1>4, <2>1
  <2>3. G[n + 1][n] = G[n][n]
    BY <1>6, <2>1
  <2> QED
    BY <2>2, <2>3
<1> HIDE DEF F
<1>10. Iterates(F, V, base, step)
  BY <1>7, <1>8, <1>9 DEF Iterates
<1> QED
  BY <1>10
-----------------------------------------------------------------------------
\* What holds for the empty set and with each element that is added holds for a
\* finite set.
LEMMA FiniteSetInduct ==
  ASSUME NEW T, IsFiniteSet(T), NEW S, {} \in S,
         \A A \in SUBSET T : \A x \in T \ A : A \in S => A \union {x} \in S
  PROVE  T \in S
<1> DEFINE Sizes == {n \in Nat : \A A \in SUBSET T : Cardinality(A) = n => A \in S}
<1>1. \A A \in SUBSET T : /\ IsFiniteSet(A) /\ Cardinality(A) \in Nat
                          /\ A = {} <=> Cardinality(A) = 0
  BY FS_Subset, FS_CardinalityType, FS_EmptySet
<1>2. 0 \in Sizes
  BY <1>1
<1>3. ASSUME NEW n \in Nat, n \in Sizes
      PROVE  n + 1 \in Sizes
  <2> SUFFICES ASSUME NEW A \in SUBSET T, Cardinality(A) = n + 1
               PROVE  A \in S
    OBVIOUS
  <2>5. A # {}
    BY <1>1
  <2>1. PICK x : x \in A
    BY <2>5
  <2>2. Cardinality(A \ {x}) = n
    <3>1. IsFiniteSet(A)
      BY <1>1
    <3>2. Cardinality(A \ {x}) = Cardinality(A) - 1
      BY <2>1, <3>1, FS_RemoveElement
    <3> QED
      BY <3>2
  <2>3. A \ {x} \in SUBSET T /\ x \in T \ (A \ {x}) /\ (A \ {x}) \union {x} = A
    BY <2>1
  <2>4. A \ {x} \in S
    BY <1>3, <2>2, <2>3
  <2> QED
    BY <2>3, <2>4
<1> HIDE DEF Sizes
<1>4. Nat \subseteq Sizes
  BY <1>2, <1>3, NatInduct
<1>5. Cardinality(T) \in Sizes
  BY <1>1, <1>4
<1> QED
  BY <1>5 DEF Sizes

\* The sums of the integers v over the parts of T.
IsSum(s, T, v) ==
  /\ s \in [SUBSET T -> Int]
  /\ s[{}] = 0
  /\ \A A \in SUBSET T : \A x \in T \ A : s[A \union {x}] = s[A] + v[x]

\* Which element a sum takes first makes no difference.
LEMMA SumIsSum ==
  ASSUME NEW T, IsFiniteSet(T), NEW v, \A x \in T : v[x] \in Int, NEW f, SumBy(f, T, v)
  PROVE  IsSum(f, T, v)
<1> DEFINE Sizes == {n \in Nat : \A s \in SUBSET T : Cardinality(s) = n =>
                       /\ f[s] \in Int
                       /\ \A x \in T \ s : f[s \union {x}] = f[s] + v[x]}
<1>1. \A s \in SUBSET T : /\ IsFiniteSet(s) /\ Cardinality(s) \in Nat
                          /\ s = {} <=> Cardinality(s) = 0
  BY FS_Subset, FS_CardinalityType, FS_EmptySet
<1>2. f[{}] = 0
  BY DEF SumBy
<1>3. \A s \in SUBSET T : s # {} =>
        \E c \in s : f[s] = v[c] + f[s \ {c}]
  <2> SUFFICES ASSUME NEW s \in SUBSET T, s # {}
               PROVE  \E c \in s : f[s] = v[c] + f[s \ {c}]
    OBVIOUS
  <2> DEFINE c == CHOOSE x \in s : TRUE
  <2>1. c \in s
    OBVIOUS
  <2>2. f[s] = v[c] + f[s \ {c}]
    BY DEF SumBy
  <2> HIDE DEF c
  <2> QED
    BY <2>1, <2>2
<1>4. 0 \in Sizes
  <2> SUFFICES ASSUME NEW s \in SUBSET T, s = {}
               PROVE  /\ f[s] \in Int
                      /\ \A x \in T \ s : f[s \union {x}] = f[s] + v[x]
    BY <1>1
  <2>1. ASSUME NEW x \in T
        PROVE  f[{x}] = v[x]
    <3>1. {x} \in SUBSET T /\ {x} # {} /\ {x} \ {x} = {}
      OBVIOUS
    <3>2. PICK c \in {x} : f[{x}] = v[c] + f[{x} \ {c}]
      BY <1>3, <3>1
    <3>3. c = x
      OBVIOUS
    <3>4. f[{x}] = v[x] + f[{}]
      BY <3>1, <3>2, <3>3
    <3> QED
      BY <1>2, <3>4
  <2> QED
    BY <1>2, <2>1
<1>5. ASSUME NEW n \in Nat, n \in Sizes
      PROVE  n + 1 \in Sizes
  <2> SUFFICES ASSUME NEW s \in SUBSET T, Cardinality(s) = n + 1
               PROVE  /\ f[s] \in Int
                      /\ \A x \in T \ s : f[s \union {x}] = f[s] + v[x]
    OBVIOUS
  <2>1. s # {}
    BY <1>1
  <2>2. \A c \in s : /\ Cardinality(s \ {c}) = n /\ s \ {c} \in SUBSET T
                     /\ (s \ {c}) \union {c} = s /\ c \in T \ (s \ {c})
    <3> SUFFICES ASSUME NEW c \in s
                 PROVE  /\ Cardinality(s \ {c}) = n /\ s \ {c} \in SUBSET T
                        /\ (s \ {c}) \union {c} = s /\ c \in T \ (s \ {c})
      OBVIOUS
    <3>1. Cardinality(s \ {c}) = Cardinality(s) - 1
      BY <1>1, FS_RemoveElement
    <3>2. Cardinality(s \ {c}) = n
      BY <3>1
    <3> QED
      BY <3>2
  <2>3. \A c \in s : /\ f[s \ {c}] \in Int
                     /\ \A x \in T \ (s \ {c}) : f[(s \ {c}) \union {x}] = f[s \ {c}] + v[x]
    BY <1>5, <2>2
  <2>4. \A c \in s : f[s] = f[s \ {c}] + v[c]
    BY <2>2, <2>3
  <2>5. f[s] \in Int
    <3>1. PICK c : c \in s
      BY <2>1
    <3>2. v[c] \in Int /\ f[s \ {c}] \in Int /\ f[s] = f[s \ {c}] + v[c]
      BY <2>3, <2>4, <3>1
    <3> QED
      BY <3>2
  <2>6. ASSUME NEW x \in T \ s
        PROVE  f[s \union {x}] = f[s] + v[x]
    <3>1. PICK c \in s \union {x} : f[s \union {x}] = v[c] + f[(s \union {x}) \ {c}]
      BY <1>3
    <3>2. CASE c = x
      <4>1. (s \union {x}) \ {c} = s
        BY <3>2
      <4>2. f[s \union {x}] = v[x] + f[s]
        BY <3>1, <3>2, <4>1
      <4>3. v[x] \in Int
        OBVIOUS
      <4> QED
        BY <2>5, <4>2, <4>3
    <3>3. CASE c \in s
      <4>1. (s \union {x}) \ {c} = (s \ {c}) \union {x} /\ x \in T \ (s \ {c})
        BY <3>3
      <4>2. f[(s \ {c}) \union {x}] = f[s \ {c}] + v[x]
        BY <2>3, <3>3, <4>1
      <4>3. f[s] = f[s \ {c}] + v[c] /\ f[s \ {c}] \in Int
        BY <2>3, <2>4, <3>3
      <4>4. f[s \union {x}] = v[c] + (f[s \ {c}] + v[x])
        BY <3>1, <4>1, <4>2
      <4>5. v[c] \in Int /\ v[x] \in Int
        BY <3>3
      <4> QED
        BY <4>3, <4>4, <4>5
    <3> QED
      BY <3>2, <3>3
  <2> QED
    BY <2>5, <2>6
<1> HIDE DEF Sizes
<1>6. Nat \subseteq Sizes
  BY <1>4, <1>5, NatInduct
<1>7. \A s \in SUBSET T : /\ f[s] \in Int
                          /\ \A x \in T \ s : f[s \union {x}] = f[s] + v[x]
  <2> SUFFICES ASSUME NEW s \in SUBSET T
               PROVE  /\ f[s] \in Int
                      /\ \A x \in T \ s : f[s \union {x}] = f[s] + v[x]
    OBVIOUS
  <2>1. Cardinality(s) \in Sizes
    BY <1>1, <1>6
  <2> QED
    BY <2>1 DEF Sizes
<1>8. f \in [SUBSET T -> Int]
  <2>1. f = [s \in SUBSET T |-> f[s]]
    BY DEF SumBy
  <2> QED
    BY <1>7, <2>1
<1> QED
  BY <1>2, <1>7, <1>8 DEF IsSum

\* The community modules' sum of a function is such a sum.
LEMMA SumFunctionIsSum ==
  ASSUME NEW v, NEW T, T = DOMAIN v, IsFiniteSet(T), \A x \in T : v[x] \in Int
  PROVE  \E s : IsSum(s, T, v) /\ SumFunction(v) = s[T]
<1> DEFINE g == CHOOSE g : g = [s \in SUBSET T |->
                   IF s = {} THEN 0 ELSE LET x == CHOOSE x \in s : TRUE IN v[x] + g[s \ {x}]]
<1>1. \E f : f = [s \in SUBSET T |->
                   IF s = {} THEN 0 ELSE LET x == CHOOSE x \in s : TRUE IN v[x] + f[s \ {x}]]
  <2>1. PICK f : SumBy(f, T, v)
    BY SumExists
  <2>2. f = [s \in SUBSET T |->
               IF s = {} THEN 0 ELSE LET x == CHOOSE x \in s : TRUE IN v[x] + f[s \ {x}]]
    BY <2>1 DEF SumBy
  <2> QED
    BY <2>2
<1>2. g = [s \in SUBSET T |->
             IF s = {} THEN 0 ELSE LET x == CHOOSE x \in s : TRUE IN v[x] + g[s \ {x}]]
  BY <1>1
<1>3. SumBy(g, T, v)
  BY <1>2 DEF SumBy
<1>4. SumFunction(v) = g[T]
  BY DEF SumFunction, SumFunctionOnSet, FoldFunctionOnSet, MapThenFoldSet
<1> HIDE DEF g
<1> QED
  BY <1>3, <1>4, SumIsSum

LEMMA SumInt ==
  ASSUME NEW T, IsFiniteSet(T), NEW v \in [T -> Int]
  PROVE  SumFunction(v) \in Int
<1>1. T = DOMAIN v /\ \A x \in T : v[x] \in Int
  OBVIOUS
<1>2. PICK s : IsSum(s, T, v) /\ SumFunction(v) = s[T]
  BY <1>1, SumFunctionIsSum
<1> QED
  BY <1>2 DEF IsSum

LEMMA SumZero ==
  ASSUME NEW T, IsFiniteSet(T), NEW v \in [T -> Int], \A x \in T : v[x] = 0
  PROVE  SumFunction(v) = 0
<1>1. T = DOMAIN v /\ \A x \in T : v[x] \in Int
  OBVIOUS
<1>2. PICK s : IsSum(s, T, v) /\ SumFunction(v) = s[T]
  BY <1>1, SumFunctionIsSum
<1> DEFINE S == {A \in SUBSET T : s[A] = 0}
<1>3. {} \in S
  BY <1>2 DEF IsSum
<1>4. \A A \in SUBSET T : \A x \in T \ A : A \in S => A \union {x} \in S
  BY <1>2 DEF IsSum
<1> HIDE DEF S
<1>5. T \in S
  BY <1>3, <1>4, FiniteSetInduct
<1> QED
  BY <1>2, <1>5 DEF S

\* A sum with one term that is not zero.
ZeroBut(v, T, p) == \A x \in T \ {p} : v[x] = 0

LEMMA SumSingle ==
  ASSUME NEW T, IsFiniteSet(T), NEW v \in [T -> Int], NEW p \in T, ZeroBut(v, T, p)
  PROVE  SumFunction(v) = v[p]
<1>1. T = DOMAIN v /\ \A x \in T : v[x] \in Int
  OBVIOUS
<1>2. PICK s : IsSum(s, T, v) /\ SumFunction(v) = s[T]
  BY <1>1, SumFunctionIsSum
<1> DEFINE S == {A \in SUBSET T : s[A] = IF p \in A THEN v[p] ELSE 0}
<1>3. {} \in S
  BY <1>2 DEF IsSum
<1>4. ASSUME NEW A \in SUBSET T, NEW x \in T \ A, A \in S
      PROVE  A \union {x} \in S
  <2>1. s[A \union {x}] = s[A] + v[x] /\ v[x] \in Int /\ v[p] \in Int
    BY <1>1, <1>2 DEF IsSum
  <2>2. s[A] = IF p \in A THEN v[p] ELSE 0
    BY <1>4
  <2>3. CASE x = p
    <3>1. s[A] = 0
      BY <2>2, <2>3
    <3> QED
      BY <2>1, <2>3, <3>1
  <2>4. CASE x # p
    <3>1. v[x] = 0 /\ (p \in A \union {x} <=> p \in A)
      BY <2>4 DEF ZeroBut
    <3>2. s[A] \in Int
      BY <1>2 DEF IsSum
    <3>3. s[A \union {x}] = s[A]
      BY <2>1, <3>1, <3>2
    <3> QED
      BY <2>2, <3>1, <3>3
  <2> QED
    BY <2>3, <2>4
<1> HIDE DEF S
<1>5. T \in S
  BY <1>3, <1>4, FiniteSetInduct
<1> QED
  BY <1>2, <1>5 DEF S

\* Two functions, term by term.
TermsAdded(v, w) == [x \in DOMAIN v |-> v[x] + w[x]]

LEMMA SumAdd ==
  ASSUME NEW T, IsFiniteSet(T), NEW v \in [T -> Int], NEW w \in [T -> Int]
  PROVE  /\ TermsAdded(v, w) \in [T -> Int]
         /\ SumFunction(TermsAdded(v, w)) = SumFunction(v) + SumFunction(w)
<1>0. PICK u \in [T -> Int] : u = TermsAdded(v, w) /\ \A x \in T : u[x] = v[x] + w[x]
  <2>1. TermsAdded(v, w) = [x \in T |-> v[x] + w[x]]
    BY DEF TermsAdded
  <2>2. \A x \in T : v[x] + w[x] \in Int
    OBVIOUS
  <2>3. TermsAdded(v, w) \in [T -> Int] /\ \A x \in T : TermsAdded(v, w)[x] = v[x] + w[x]
    BY <2>1, <2>2
  <2> QED
    BY <2>3
<1>1. /\ T = DOMAIN u /\ T = DOMAIN v /\ T = DOMAIN w
      /\ \A x \in T : u[x] \in Int /\ v[x] \in Int /\ w[x] \in Int
  OBVIOUS
<1>2. PICK s : IsSum(s, T, u) /\ SumFunction(u) = s[T]
  BY <1>1, SumFunctionIsSum
<1>3. PICK t : IsSum(t, T, v) /\ SumFunction(v) = t[T]
  BY <1>1, SumFunctionIsSum
<1>4. PICK r : IsSum(r, T, w) /\ SumFunction(w) = r[T]
  BY <1>1, SumFunctionIsSum
<1> DEFINE S == {A \in SUBSET T : s[A] = t[A] + r[A]}
<1>5. {} \in S
  BY <1>2, <1>3, <1>4 DEF IsSum
<1>6. ASSUME NEW A \in SUBSET T, NEW x \in T \ A, A \in S
      PROVE  A \union {x} \in S
  <2>1. PICK k \in Int, m \in Int, n \in Int : k = s[A] /\ m = t[A] /\ n = r[A]
    BY <1>2, <1>3, <1>4 DEF IsSum
  <2>2. PICK d \in Int, e \in Int, f \in Int : d = u[x] /\ e = v[x] /\ f = w[x]
    BY <1>1
  <2>3. /\ s[A \union {x}] = k + d /\ t[A \union {x}] = m + e /\ r[A \union {x}] = n + f
    BY <1>2, <1>3, <1>4, <2>1, <2>2 DEF IsSum
  <2>4. k = m + n /\ d = e + f
    BY <1>0, <1>6, <2>1, <2>2
  <2> QED
    BY <2>3, <2>4
<1> HIDE DEF S
<1>7. T \in S
  BY <1>5, <1>6, FiniteSetInduct
<1> QED
  BY <1>0, <1>2, <1>3, <1>4, <1>7 DEF S

\* Every term times a.
Times(a, v) == [x \in DOMAIN v |-> a * v[x]]

LEMMA SumScale ==
  ASSUME NEW T, IsFiniteSet(T), NEW v \in [T -> Int], NEW a \in Int
  PROVE  Times(a, v) \in [T -> Int] /\ SumFunction(Times(a, v)) = a * SumFunction(v)
<1>1. T = DOMAIN v /\ \A x \in T : v[x] \in Int
  OBVIOUS
<1>2. PICK u \in [T -> Int] : u = Times(a, v) /\ \A x \in T : u[x] = a * v[x]
  <2>1. Times(a, v) = [x \in T |-> a * v[x]]
    BY <1>1 DEF Times
  <2>2. \A x \in T : a * v[x] \in Int
    BY <1>1
  <2>3. Times(a, v) \in [T -> Int]
    BY <2>1, <2>2
  <2>4. \A x \in T : Times(a, v)[x] = a * v[x]
    BY <2>1
  <2> QED
    BY <2>3, <2>4
<1>3. T = DOMAIN u /\ \A x \in T : u[x] \in Int
  OBVIOUS
<1>4. PICK s : IsSum(s, T, u) /\ SumFunction(u) = s[T]
  BY <1>3, SumFunctionIsSum
<1>5. PICK t : IsSum(t, T, v) /\ SumFunction(v) = t[T]
  BY <1>1, SumFunctionIsSum
<1> DEFINE S == {A \in SUBSET T : s[A] = a * t[A]}
<1>6. {} \in S
  BY <1>4, <1>5 DEF IsSum
<1>7. ASSUME NEW A \in SUBSET T, NEW x \in T \ A, A \in S
      PROVE  A \union {x} \in S
  <2>1. PICK k \in Int, m \in Int : k = s[A] /\ m = t[A]
    BY <1>4, <1>5 DEF IsSum
  <2>2. PICK d \in Int, e \in Int : d = u[x] /\ e = v[x]
    BY <1>1, <1>3
  <2>3. s[A \union {x}] = k + d /\ t[A \union {x}] = m + e
    BY <1>4, <1>5, <2>1, <2>2 DEF IsSum
  <2>4. k = a * m /\ d = a * e
    BY <1>2, <1>7, <2>1, <2>2
  <2>5. k + d = a * (m + e)
    BY <2>4
  <2> QED
    BY <2>3, <2>5
<1> HIDE DEF S
<1>8. T \in S
  BY <1>6, <1>7, FiniteSetInduct
<1> QED
  BY <1>2, <1>4, <1>5, <1>8 DEF S

LEMMA SumLinear ==
  ASSUME NEW T, IsFiniteSet(T), NEW v \in [T -> Int], NEW w \in [T -> Int],
         NEW a \in Int, NEW b \in Int
  PROVE  /\ TermsAdded(Times(a, v), Times(b, w)) \in [T -> Int]
         /\ \A x \in T : TermsAdded(Times(a, v), Times(b, w))[x] = a * v[x] + b * w[x]
         /\ SumFunction(TermsAdded(Times(a, v), Times(b, w))) = a * SumFunction(v) + b * SumFunction(w)
<1>1. Times(a, v) \in [T -> Int] /\ Times(b, w) \in [T -> Int]
  BY SumScale
<1>2. PICK s \in [T -> Int], t \in [T -> Int] : s = Times(a, v) /\ t = Times(b, w)
  BY <1>1
<1>3. SumFunction(TermsAdded(s, t)) = SumFunction(s) + SumFunction(t) /\ TermsAdded(s, t) \in [T -> Int]
  BY SumAdd
<1>4. SumFunction(s) = a * SumFunction(v) /\ SumFunction(t) = b * SumFunction(w)
  BY <1>2, SumScale
<1>5. \A x \in T : s[x] = a * v[x] /\ t[x] = b * w[x]
  BY <1>2 DEF Times
<1>6. \A x \in T : TermsAdded(s, t)[x] = a * v[x] + b * w[x]
  BY <1>5 DEF TermsAdded
<1> QED
  BY <1>2, <1>3, <1>4, <1>6

\* A double sum, row by row and column by column.
RowSums(v) == [t \in DOMAIN v |-> SumFunction(v[t])]
ColumnSums(U, v) == [u \in U |-> SumFunction([t \in DOMAIN v |-> v[t][u]])]

LEMMA SumSwap ==
  ASSUME NEW T, IsFiniteSet(T), NEW U, IsFiniteSet(U), NEW v \in [T -> [U -> Int]]
  PROVE  SumFunction(RowSums(v)) = SumFunction(ColumnSums(U, v))
<1> DEFINE row == [t \in T |-> SumFunction(v[t])]
           column(u) == [t \in T |-> v[t][u]]
           C == [u \in U |-> CHOOSE s : IsSum(s, T, column(u)) /\ SumFunction(column(u)) = s[T]]
           part(A) == [u \in U |-> C[u][A]]
<1>1. \A t \in T : v[t] \in [U -> Int] /\ SumFunction(v[t]) \in Int
  BY SumInt
<1>2. row \in [T -> Int] /\ T = DOMAIN row /\ \A t \in T : row[t] = SumFunction(v[t])
  BY <1>1
<1> HIDE DEF row
<1>3. PICK s : IsSum(s, T, row) /\ SumFunction(row) = s[T]
  BY <1>2, SumFunctionIsSum
<1>4. ASSUME NEW u \in U
      PROVE  IsSum(C[u], T, column(u)) /\ SumFunction(column(u)) = C[u][T]
  <2>1. column(u) \in [T -> Int] /\ T = DOMAIN column(u) /\ \A t \in T : column(u)[t] \in Int
    BY <1>1
  <2> HIDE DEF column
  <2>2. \E c : IsSum(c, T, column(u)) /\ SumFunction(column(u)) = c[T]
    BY <2>1, SumFunctionIsSum
  <2> QED
    BY <2>2
<1> HIDE DEF C
<1>5. \A u \in U : \A t \in T : column(u)[t] = v[t][u]
  OBVIOUS
<1> HIDE DEF column
<1>6. \A A \in SUBSET T : part(A) \in [U -> Int] /\ \A u \in U : part(A)[u] = C[u][A]
  BY <1>4 DEF IsSum
<1> HIDE DEF part
<1> DEFINE S == {A \in SUBSET T : s[A] = SumFunction(part(A))}
<1>7. {} \in S
  <2>1. \A u \in U : part({})[u] = 0
    BY <1>4, <1>6 DEF IsSum
  <2>2. {} \in SUBSET T
    OBVIOUS
  <2>3. SumFunction(part({})) = 0
    BY <1>6, <2>1, <2>2, SumZero
  <2> QED
    BY <1>3, <2>3 DEF IsSum
<1>8. ASSUME NEW A \in SUBSET T, NEW t \in T \ A, A \in S
      PROVE  A \union {t} \in S
  <2>1. A \union {t} \in SUBSET T
    OBVIOUS
  <2>2. \A u \in U : part(A \union {t})[u] = part(A)[u] + v[t][u]
    <3> SUFFICES ASSUME NEW u \in U
                 PROVE  part(A \union {t})[u] = part(A)[u] + v[t][u]
      OBVIOUS
    <3>1. C[u][A \union {t}] = C[u][A] + v[t][u]
      <4>1. IsSum(C[u], T, column(u)) /\ column(u)[t] = v[t][u]
        BY <1>4, <1>5
      <4> QED
        BY <4>1 DEF IsSum
    <3>2. part(A)[u] \in Int /\ v[t][u] \in Int
      BY <1>1, <1>6
    <3> QED
      BY <1>6, <2>1, <3>1, <3>2
  <2>3. part(A \union {t}) \in [U -> Int] /\ part(A) \in [U -> Int] /\ v[t] \in [U -> Int]
    BY <1>1, <1>6, <2>1
  <2>4. SumFunction(part(A \union {t})) = SumFunction(part(A)) + SumFunction(v[t])
    <3>1. PICK p \in [U -> Int], q \in [U -> Int], r \in [U -> Int] :
            p = part(A \union {t}) /\ q = part(A) /\ r = v[t]
      BY <2>3
    <3>2. \A u \in U : p[u] = q[u] + r[u]
      BY <2>2, <3>1
    <3>3. p = TermsAdded(q, r)
      BY <3>2 DEF TermsAdded
    <3>4. SumFunction(TermsAdded(q, r)) = SumFunction(q) + SumFunction(r)
      BY SumAdd
    <3> QED
      BY <3>1, <3>3, <3>4
  <2>5. SumFunction(part(A)) \in Int /\ SumFunction(v[t]) \in Int
    BY <1>1, <2>3, SumInt
  <2>6. s[A \union {t}] = s[A] + SumFunction(v[t])
    BY <1>2, <1>3 DEF IsSum
  <2>7. s[A] = SumFunction(part(A))
    BY <1>8
  <2> QED
    BY <2>1, <2>4, <2>5, <2>6, <2>7
<1> HIDE DEF S
<1>9. T \in S
  BY <1>7, <1>8, FiniteSetInduct
<1>10. part(T) = [u \in U |-> SumFunction(column(u))]
  BY <1>4 DEF part
<1>11. SumFunction(row) = SumFunction([u \in U |-> SumFunction(column(u))])
  BY <1>3, <1>9, <1>10 DEF S
<1>12. T = DOMAIN v
  OBVIOUS
<1> QED
  BY <1>11, <1>12 DEF row, column, RowSums, ColumnSums

\* The sum over a part of the domain.
LEMMA SumOfPart ==
  ASSUME NEW T, IsFiniteSet(T), NEW v, NEW s, IsSum(s, T, v), \A x \in T : v[x] \in Int,
         NEW B \in SUBSET T, NEW w \in [B -> Int], \A x \in B : w[x] = v[x]
  PROVE  SumFunction(w) = s[B]
<1>1. IsFiniteSet(B)
  BY FS_Subset
<1>2. B = DOMAIN w /\ \A x \in B : w[x] \in Int
  OBVIOUS
<1>3. PICK t : IsSum(t, B, w) /\ SumFunction(w) = t[B]
  BY <1>1, <1>2, SumFunctionIsSum
<1> DEFINE S == {A \in SUBSET B : t[A] = s[A]}
<1>4. {} \in S
  BY <1>3 DEF IsSum
<1>5. ASSUME NEW A \in SUBSET B, NEW x \in B \ A, A \in S
      PROVE  A \union {x} \in S
  <2>1. t[A \union {x}] = t[A] + w[x]
    BY <1>3 DEF IsSum
  <2>2. A \in SUBSET T /\ x \in T \ A
    OBVIOUS
  <2>3. s[A \union {x}] = s[A] + v[x]
    BY <2>2 DEF IsSum
  <2> QED
    BY <1>5, <2>1, <2>3
<1> HIDE DEF S
<1>6. B \in S
  BY <1>1, <1>4, <1>5, FiniteSetInduct
<1> QED
  BY <1>3, <1>6 DEF S

\* The last of the terms 0 .. n.
LEMMA SumLast ==
  ASSUME NEW n \in Nat, NEW v \in [0 .. n -> Int], NEW w \in [0 .. n - 1 -> Int],
         \A i \in 0 .. n - 1 : w[i] = v[i]
  PROVE  SumFunction(v) = SumFunction(w) + v[n]
<1>1. IsFiniteSet(0 .. n)
  BY FS_Interval
<1>2. 0 .. n = DOMAIN v /\ \A x \in 0 .. n : v[x] \in Int
  OBVIOUS
<1>3. PICK s : IsSum(s, 0 .. n, v) /\ SumFunction(v) = s[0 .. n]
  BY <1>1, <1>2, SumFunctionIsSum
<1>4. 0 .. n - 1 \in SUBSET (0 .. n) /\ n \in (0 .. n) \ (0 .. n - 1) /\ (0 .. n - 1) \union {n} = 0 .. n
  OBVIOUS
<1>5. SumFunction(w) = s[0 .. n - 1]
  BY <1>1, <1>2, <1>3, <1>4, SumOfPart
<1>6. s[(0 .. n - 1) \union {n}] = s[0 .. n - 1] + v[n]
  <2>1. \A A \in SUBSET (0 .. n) : \A x \in (0 .. n) \ A : s[A \union {x}] = s[A] + v[x]
    BY <1>3 DEF IsSum
  <2> QED
    BY <1>4, <2>1
<1> QED
  BY <1>3, <1>4, <1>5, <1>6

\* Terms that are moved up by one place.
LEMMA SumShift ==
  ASSUME NEW n \in Nat, NEW v \in [0 .. n -> Int], NEW w \in [0 .. n -> Int],
         w[0] = 0, \A i \in 0 .. n - 1 : w[i + 1] = v[i], v[n] = 0
  PROVE  SumFunction(w) = SumFunction(v)
<1>1. IsFiniteSet(0 .. n)
  BY FS_Interval
<1>2. /\ 0 .. n = DOMAIN v /\ \A x \in 0 .. n : v[x] \in Int
      /\ 0 .. n = DOMAIN w /\ \A x \in 0 .. n : w[x] \in Int
  OBVIOUS
<1>3. PICK s : IsSum(s, 0 .. n, v) /\ SumFunction(v) = s[0 .. n]
  BY <1>1, <1>2, SumFunctionIsSum
<1>4. PICK t : IsSum(t, 0 .. n, w) /\ SumFunction(w) = t[0 .. n]
  BY <1>1, <1>2, SumFunctionIsSum
<1>5. \A k \in 0 .. n : /\ 0 .. k - 1 \in SUBSET (0 .. n) /\ k \in (0 .. n) \ (0 .. k - 1)
                        /\ (0 .. k - 1) \union {k} = 0 .. k
  OBVIOUS
<1>6. \A k \in 0 .. n : /\ s[0 .. k] = s[0 .. k - 1] + v[k]
                        /\ t[0 .. k] = t[0 .. k - 1] + w[k]
  <2> SUFFICES ASSUME NEW k \in 0 .. n
               PROVE  /\ s[0 .. k] = s[0 .. k - 1] + v[k]
                      /\ t[0 .. k] = t[0 .. k - 1] + w[k]
    OBVIOUS
  <2>1. /\ s[(0 .. k - 1) \union {k}] = s[0 .. k - 1] + v[k]
        /\ t[(0 .. k - 1) \union {k}] = t[0 .. k - 1] + w[k]
    <3>1. \A A \in SUBSET (0 .. n) : \A x \in (0 .. n) \ A :
            s[A \union {x}] = s[A] + v[x] /\ t[A \union {x}] = t[A] + w[x]
      BY <1>3, <1>4 DEF IsSum
    <3>2. 0 .. k - 1 \in SUBSET (0 .. n) /\ k \in (0 .. n) \ (0 .. k - 1)
      BY <1>5
    <3> QED
      BY <3>1, <3>2
  <2> QED
    BY <1>5, <2>1
<1> DEFINE S == {k \in Nat : k <= n => t[0 .. k] = s[0 .. k - 1]}
<1>7. s[0 .. -1] = 0 /\ t[0 .. -1] = 0
  <2>1. 0 .. -1 = {}
    OBVIOUS
  <2> QED
    BY <1>3, <1>4, <2>1 DEF IsSum
<1>8. 0 \in S
  <2>1. t[0 .. 0] = 0
    <3>1. 0 \in 0 .. n /\ 0 - 1 = -1
      OBVIOUS
    <3>2. t[0 .. 0] = t[0 .. -1] + w[0]
      BY <1>6, <3>1
    <3> QED
      BY <1>7, <3>2
  <2>2. 0 - 1 = -1
    OBVIOUS
  <2> QED
    BY <1>7, <2>1, <2>2
<1>9. ASSUME NEW k \in Nat, k \in S
      PROVE  k + 1 \in S
  <2> SUFFICES ASSUME k + 1 <= n PROVE t[0 .. k + 1] = s[0 .. (k + 1) - 1]
    OBVIOUS
  <2>1. k \in 0 .. n /\ k + 1 \in 0 .. n /\ (k + 1) - 1 = k /\ k \in 0 .. n - 1 /\ k <= n
    OBVIOUS
  <2>2. t[0 .. k + 1] = t[0 .. k] + w[k + 1]
    BY <1>6, <2>1
  <2>3. s[0 .. k] = s[0 .. k - 1] + v[k]
    BY <1>6, <2>1
  <2>4. t[0 .. k] = s[0 .. k - 1]
    BY <1>9, <2>1
  <2>5. w[k + 1] = v[k]
    BY <2>1
  <2> QED
    BY <2>1, <2>2, <2>3, <2>4, <2>5
<1> HIDE DEF S
<1>10. Nat \subseteq S
  BY <1>8, <1>9, NatInduct
<1>11. t[0 .. n] = s[0 .. n - 1]
  BY <1>10 DEF S
<1>12. s[0 .. n] = s[0 .. n - 1] + v[n]
  BY <1>6
<1>13. s[0 .. n - 1] \in Int
  <2>1. n \in 0 .. n
    OBVIOUS
  <2> QED
    BY <1>3, <1>5, <2>1 DEF IsSum
<1> QED
  BY <1>3, <1>4, <1>11, <1>12, <1>13
=============================================================================
