---------------------------- MODULE FoldTheorems ---------------------------
(***************************************************************************)
(* Facts that need induction: what SumFunctionOnSet of the community         *)
(* modules computes, which the invariants on gold are stated with, and what  *)
(* holds along a trace.  SumFunctionOnSet is a recursive function on the     *)
(* subsets of a set.  The induction theorems of the library take a           *)
(* predicate, which the provers cannot instantiate; the proofs here take a   *)
(* smallest counterexample instead, which a nonempty set of subsets of a     *)
(* finite set has (WFMin).                                                   *)
(***************************************************************************)
EXTENDS Integers, Sequences, Functions, FiniteSets, FiniteSetTheorems, WellFoundedInduction, TLAPS

Pick(s) == CHOOSE x \in s : TRUE

\* g is the recursive function of SumFunctionOnSet on the sets of C.
Sums(f, C, g) ==
    g = [s \in C |-> IF s = {} THEN 0 ELSE f[Pick(s)] + g[s \ {Pick(s)}]]

LEMMA SumUnfold ==
    ASSUME NEW f, NEW S
    PROVE  SumFunctionOnSet(f, S) = (CHOOSE g : Sums(f, SUBSET S, g))[S]
  BY DEF SumFunctionOnSet, FoldFunctionOnSet, MapThenFoldSet, Sums, Pick

\* A nonempty collection of subsets of a finite set has a smallest member.
LEMMA SmallestSubset ==
    ASSUME NEW S, IsFiniteSet(S), NEW C \in SUBSET SUBSET S, C # {}
    PROVE  \E T \in C : \A U \in C : ~(U \subseteq T /\ U # T)
<1> DEFINE R == StrictSubsetOrdering(S)
<1>1. IsWellFoundedOn(R, SUBSET S)
  BY FS_StrictSubsetOrderingWellFounded, FS_FiniteSubsetsOfFinite
<1> HIDE DEF R
<1>2. PICK T \in C : \A U \in C : <<U, T>> \notin R
  BY <1>1, WFMin
<1>3. \A U \in C : ~(U \subseteq T /\ U # T)
  BY <1>2 DEF R, StrictSubsetOrdering
<1> QED BY <1>3

\* The recursive function exists.
LEMMA SumsExist ==
    ASSUME NEW f, NEW S, IsFiniteSet(S)
    PROVE  \E g : Sums(f, SUBSET S, g)
<1> DEFINE D(T) == {U \in SUBSET S : Cardinality(U) <= Cardinality(T)}
           P(T) == \E g : Sums(f, D(T), g)
           C == {T \in SUBSET S : ~P(T)}
<1>1. \A T \in SUBSET S : IsFiniteSet(T) /\ Cardinality(T) \in Nat
  BY FS_Subset, FS_CardinalityType
<1>2. SUFFICES ASSUME NEW T \in SUBSET S, ~P(T), \A U \in SUBSET T : U # T => P(U)
               PROVE  FALSE
  <2>1. CASE C = {}
    <3>1. P(S)
      BY <2>1
    <3>2. D(S) = SUBSET S
      <4>1. ASSUME NEW U \in SUBSET S PROVE Cardinality(U) <= Cardinality(S)
        BY FS_Subset
      <4> QED BY <4>1
    <3> HIDE DEF D
    <3> QED BY <3>1, <3>2
  <2>2. CASE C # {}
    <3>1. PICK T \in C : \A U \in C : ~(U \subseteq T /\ U # T)
      <4> HIDE DEF C
      <4>1. C \in SUBSET SUBSET S
        BY DEF C
      <4> QED BY <2>2, <4>1, SmallestSubset
    <3>2. T \in SUBSET S /\ ~P(T) /\ \A U \in SUBSET T : U # T => P(U)
      <4> HIDE DEF P
      <4> QED BY <3>1
    <3> QED BY <1>2, <3>2
  <2> QED BY <2>1, <2>2
<1>3. CASE T = {}
  <2> DEFINE g == [s \in D(T) |-> IF s = {} THEN 0 ELSE f[Pick(s)]]
  <2>1. \A s \in D(T) : s = {}
    BY <1>1, <1>3, FS_EmptySet
  <2>2. Sums(f, D(T), g)
    <3> HIDE DEF D
    <3> QED BY <2>1 DEF Sums
  <2> QED BY <1>2, <2>2
<1>4. CASE T # {}
  <2>1. PICK x \in T : TRUE
    BY <1>4
  <2> DEFINE U == T \ {x}
  <2>2. Cardinality(U) = Cardinality(T) - 1 /\ U \in SUBSET T /\ U # T /\ U \in SUBSET S
    BY <1>1, <2>1, FS_RemoveElement
  <2>3. PICK g : Sums(f, D(U), g)
    BY <1>2, <2>2
  <2> DEFINE h == [s \in D(T) |-> IF s = {} THEN 0 ELSE f[Pick(s)] + g[s \ {Pick(s)}]]
  <2>4. ASSUME NEW s \in D(T), s # {}
        PROVE  s \ {Pick(s)} \in D(U) /\ Pick(s) \in s
    <3>1. Pick(s) \in s
      BY <2>4 DEF Pick
    <3>2. Cardinality(s \ {Pick(s)}) = Cardinality(s) - 1
      BY <1>1, <3>1, FS_RemoveElement
    <3> QED BY <1>1, <2>2, <3>1, <3>2
  <2>5. ASSUME NEW s \in D(U) PROVE s \in D(T) /\ h[s] = g[s]
    <3>1. s \in D(T)
      BY <1>1, <2>2
    <3> HIDE DEF D
    <3> QED BY <2>3, <3>1 DEF Sums
  <2>6. Sums(f, D(T), h)
    <3> HIDE DEF D
    <3>1. \A s \in D(T) : s # {} => h[s \ {Pick(s)}] = g[s \ {Pick(s)}]
      BY <2>4, <2>5
    <3> QED BY <3>1 DEF Sums
  <2> QED BY <1>2, <2>6
<1> QED BY <1>3, <1>4

\* What the function computes: first by its definition, for one element,
\* then for any element that is taken out, in whatever order.
Total(f, S) == CHOOSE g : Sums(f, SUBSET S, g)

Computed(f, S, g) ==
    /\ g[{}] = 0
    /\ \A T \in SUBSET S : T # {} => Pick(T) \in T /\ g[T] = f[Pick(T)] + g[T \ {Pick(T)}]

LEMMA TotalStep ==
    ASSUME NEW f, NEW S, IsFiniteSet(S)
    PROVE  Computed(f, S, Total(f, S))
<1>1. Sums(f, SUBSET S, Total(f, S))
  BY SumsExist DEF Total
<1>2. \A T \in SUBSET S : T # {} => Pick(T) \in T
  BY DEF Pick
<1> HIDE DEF Total, Pick
<1> QED BY <1>1, <1>2 DEF Sums, Computed

\* The minimal counterexample: what holds of a set when it holds of its proper
\* subsets holds of all.
LEMMA SmallestOut ==
    ASSUME NEW S, IsFiniteSet(S), NEW C \in SUBSET SUBSET S,
           \A T \in SUBSET S : (\A U \in SUBSET T : U # T => U \in C) => T \in C
    PROVE  C = SUBSET S
<1> DEFINE D == (SUBSET S) \ C
<1>1. SUFFICES ASSUME D # {} PROVE FALSE
  OBVIOUS
<1>2. D \in SUBSET SUBSET S
  OBVIOUS
<1> HIDE DEF D
<1>3. PICK T \in D : \A U \in D : ~(U \subseteq T /\ U # T)
  BY <1>1, <1>2, SmallestSubset
<1>4. T \in SUBSET S /\ \A U \in SUBSET T : U # T => U \in C
  BY <1>2, <1>3 DEF D
<1> QED BY <1>3, <1>4 DEF D

\* What holds at 0 and is passed from each number to the next holds up to n.
LEMMA Steps ==
    ASSUME NEW n \in Nat, NEW C, 0 \in C, \A k \in 1 .. n : k - 1 \in C => k \in C
    PROVE  0 .. n \subseteq C
<1> DEFINE S == 0 .. n
           D == {T \in SUBSET S : \E k \in S : T = 0 .. k /\ k \notin C}
<1>1. SUFFICES ASSUME NEW k \in S, k \notin C PROVE FALSE
  OBVIOUS
<1>2. IsFiniteSet(S) /\ D \in SUBSET SUBSET S
  BY FS_Interval
<1>3. D # {}
  <2>1. 0 .. k \in D
    BY <1>1
  <2> QED BY <2>1
<1>4. PICK T \in D : \A U \in D : ~(U \subseteq T /\ U # T)
  <2> HIDE DEF S, D
  <2> QED BY <1>2, <1>3, SmallestSubset
<1>5. PICK j \in S : T = 0 .. j /\ j \notin C
  BY <1>4
<1>6. j # 0 /\ j - 1 \in S /\ j - 1 \notin C
  BY <1>5
<1>7. 0 .. (j - 1) \in D /\ 0 .. (j - 1) \subseteq T
  BY <1>5, <1>6
<1>8. j \in T /\ j \notin 0 .. (j - 1)
  BY <1>5
<1> QED BY <1>4, <1>7, <1>8

LEMMA TotalType ==
    ASSUME NEW f, NEW S, IsFiniteSet(S), \A x \in S : f[x] \in Int
    PROVE  \A T \in SUBSET S : Total(f, S)[T] \in Int
<1>0. Computed(f, S, Total(f, S))
  BY TotalStep
<1> DEFINE C == {T \in SUBSET S : Total(f, S)[T] \in Int}
<1>1. ASSUME NEW T \in SUBSET S, \A U \in SUBSET T : U # T => U \in C
      PROVE  T \in C
  <2>1. CASE T = {}
    BY <1>0, <2>1 DEF Computed
  <2>2. CASE T # {}
    <3>1. /\ Pick(T) \in T
          /\ Total(f, S)[T] = f[Pick(T)] + Total(f, S)[T \ {Pick(T)}]
      BY <1>0, <2>2 DEF Computed
    <3>2. Total(f, S)[T \ {Pick(T)}] \in Int
      BY <1>1, <3>1
    <3> QED BY <3>1, <3>2
  <2> QED BY <2>1, <2>2
<1>2. C \in SUBSET SUBSET S
  OBVIOUS
<1> HIDE DEF C
<1>3. C = SUBSET S
  BY <1>1, <1>2, SmallestOut
<1> QED BY <1>3 DEF C

LEMMA TotalTake ==
    ASSUME NEW f, NEW S, IsFiniteSet(S), \A x \in S : f[x] \in Int
    PROVE  \A T \in SUBSET S : \A x \in T :
               Total(f, S)[T] = f[x] + Total(f, S)[T \ {x}]
<1>0. Computed(f, S, Total(f, S))
  BY TotalStep
<1>a. \A T \in SUBSET S : Total(f, S)[T] \in Int
  BY TotalType, Zenon
<1> DEFINE g == Total(f, S)
           C == {T \in SUBSET S : \A x \in T : g[T] = f[x] + g[T \ {x}]}
<1>1. ASSUME NEW T \in SUBSET S, \A U \in SUBSET T : U # T => U \in C
      PROVE  T \in C
  <2>1. SUFFICES ASSUME NEW x \in T PROVE g[T] = f[x] + g[T \ {x}]
    OBVIOUS
  <2> DEFINE y == Pick(T)
  <2>2. y \in T /\ g[T] = f[y] + g[T \ {y}]
    BY <1>0 DEF Computed
  <2> HIDE DEF y
  <2>3. CASE x = y
    BY <2>2, <2>3
  <2>4. CASE x # y
    <3>1. g[T \ {y}] = f[x] + g[(T \ {y}) \ {x}]
      BY <1>1, <2>2, <2>4
    <3>2. g[T \ {x}] = f[y] + g[(T \ {x}) \ {y}]
      BY <1>1, <2>2, <2>4
    <3> DEFINE Z == (T \ {y}) \ {x}
    <3>3. (T \ {x}) \ {y} = Z /\ Z \in SUBSET S
      OBVIOUS
    <3>4. g[Z] \in Int /\ f[x] \in Int /\ f[y] \in Int
      BY <1>a, <2>2, <3>3
    <3>5. g[T \ {y}] = f[x] + g[Z] /\ g[T \ {x}] = f[y] + g[Z]
      BY <3>1, <3>2, <3>3
    <3> HIDE DEF g, Z
    <3> QED BY <2>2, <3>4, <3>5
  <2> QED BY <2>3, <2>4
<1>2. C \in SUBSET SUBSET S
  OBVIOUS
<1> HIDE DEF C
<1>3. C = SUBSET S
  BY <1>1, <1>2, SmallestOut
<1> QED BY <1>3 DEF C

LEMMA TotalAgree ==
    ASSUME NEW f, NEW S, IsFiniteSet(S), NEW h, NEW R, IsFiniteSet(R)
    PROVE  \A T \in SUBSET S : T \subseteq R /\ (\A x \in T : f[x] = h[x])
                                => Total(f, S)[T] = Total(h, R)[T]
<1>0. Computed(f, S, Total(f, S)) /\ Computed(h, R, Total(h, R))
  BY TotalStep
<1> DEFINE g == Total(f, S)
           k == Total(h, R)
           C == {T \in SUBSET S : T \subseteq R /\ (\A x \in T : f[x] = h[x]) => g[T] = k[T]}
<1> HIDE DEF g, k
<1>1. ASSUME NEW T \in SUBSET S, \A U \in SUBSET T : U # T => U \in C
      PROVE  T \in C
  <2>1. SUFFICES ASSUME T \subseteq R, \A x \in T : f[x] = h[x], T # {} PROVE g[T] = k[T]
    BY <1>0 DEF Computed, g, k
  <2> DEFINE y == Pick(T)
             U == T \ {y}
  <2>2. y \in T /\ g[T] = f[y] + g[U] /\ k[T] = h[y] + k[U]
    BY <1>0, <2>1 DEF Computed, g, k
  <2>3. U \in C /\ U \subseteq R /\ \A x \in U : f[x] = h[x]
    BY <1>1, <2>1, <2>2
  <2>4. g[U] = k[U]
    BY <2>3
  <2> HIDE DEF y, U
  <2> QED BY <2>1, <2>2, <2>4
<1>2. C \in SUBSET SUBSET S
  OBVIOUS
<1> HIDE DEF C
<1>3. C = SUBSET S
  BY <1>1, <1>2, SmallestOut
<1> QED BY <1>3 DEF C, g, k

LEMMA SumIsTotal ==
    ASSUME NEW f, NEW S, IsFiniteSet(S), NEW T \in SUBSET S
    PROVE  SumFunctionOnSet(f, T) = Total(f, S)[T] /\ IsFiniteSet(T)
<1>1. IsFiniteSet(T)
  BY FS_Subset
<1>2. SumFunctionOnSet(f, T) = Total(f, T)[T]
  BY SumUnfold DEF Total
<1>3. Total(f, T)[T] = Total(f, S)[T]
  BY <1>1, TotalAgree
<1> QED BY <1>1, <1>2, <1>3

----------------------------------------------------------------------------
(* What the other modules cite.                                             *)

\* The sum over nothing is 0.
LEMMA SumEmpty ==
    ASSUME NEW f
    PROVE  SumFunctionOnSet(f, {}) = 0
<1>1. IsFiniteSet({}) /\ {} \in SUBSET {}
  BY FS_EmptySet
<1>2. SumFunctionOnSet(f, {}) = Total(f, {})[{}]
  BY <1>1, SumIsTotal
<1>3. Computed(f, {}, Total(f, {}))
  BY <1>1, TotalStep
<1> QED BY <1>2, <1>3 DEF Computed

\* A sum of integers is an integer.
LEMMA SumInt ==
    ASSUME NEW f, NEW S, IsFiniteSet(S), \A x \in S : f[x] \in Int
    PROVE  SumFunctionOnSet(f, S) \in Int
<1>1. S \in SUBSET S
  OBVIOUS
<1>2. SumFunctionOnSet(f, S) = Total(f, S)[S]
  BY <1>1, SumIsTotal
<1>3. Total(f, S)[S] \in Int
  BY <1>1, TotalType
<1> QED BY <1>2, <1>3

\* One summand can be taken out.
LEMMA SumTake ==
    ASSUME NEW f, NEW S, IsFiniteSet(S), \A x \in S : f[x] \in Int, NEW x \in S
    PROVE  /\ SumFunctionOnSet(f, S) = f[x] + SumFunctionOnSet(f, S \ {x})
           /\ SumFunctionOnSet(f, S) \in Int /\ SumFunctionOnSet(f, S \ {x}) \in Int
           /\ IsFiniteSet(S \ {x})
<1> DEFINE U == S \ {x}
<1>1. S \in SUBSET S /\ U \in SUBSET S
  OBVIOUS
<1>2. SumFunctionOnSet(f, S) = Total(f, S)[S] /\ SumFunctionOnSet(f, U) = Total(f, S)[U]
  BY <1>1, SumIsTotal
<1>3. Total(f, S)[S] = f[x] + Total(f, S)[U]
  BY <1>1, TotalTake
<1>4. IsFiniteSet(U)
  BY <1>1, FS_Subset
<1>5. SumFunctionOnSet(f, U) \in Int
  BY <1>4, SumInt
<1>6. SumFunctionOnSet(f, S) \in Int
  BY SumInt
<1> QED BY <1>2, <1>3, <1>4, <1>5, <1>6

\* Functions that agree on a set have the same sum over it.
LEMMA SumAgree ==
    ASSUME NEW f, NEW h, NEW S, IsFiniteSet(S), \A x \in S : f[x] = h[x]
    PROVE  SumFunctionOnSet(f, S) = SumFunctionOnSet(h, S)
<1>1. S \in SUBSET S
  OBVIOUS
<1>2. SumFunctionOnSet(f, S) = Total(f, S)[S] /\ SumFunctionOnSet(h, S) = Total(h, S)[S]
  BY <1>1, SumIsTotal
<1>3. Total(f, S)[S] = Total(h, S)[S]
  BY <1>1, TotalAgree
<1> QED BY <1>2, <1>3

\* Changing one summand changes the sum by as much.
LEMMA SumChange ==
    ASSUME NEW f, NEW h, NEW S, IsFiniteSet(S), NEW x \in S,
           \A y \in S : f[y] \in Int /\ h[y] \in Int,
           \A y \in S \ {x} : h[y] = f[y]
    PROVE  SumFunctionOnSet(h, S) = SumFunctionOnSet(f, S) + (h[x] - f[x])
<1> DEFINE U == S \ {x}
<1>0. (\A y \in S : f[y] \in Int) /\ (\A y \in S : h[y] \in Int)
  OBVIOUS
<1>1. /\ SumFunctionOnSet(f, S) = f[x] + SumFunctionOnSet(f, U)
      /\ SumFunctionOnSet(f, U) \in Int /\ IsFiniteSet(U)
  BY <1>0, SumTake
<1>2. SumFunctionOnSet(h, S) = h[x] + SumFunctionOnSet(h, U)
  BY <1>0, SumTake
<1>3. SumFunctionOnSet(f, U) = SumFunctionOnSet(h, U)
  BY <1>1, SumAgree
<1> HIDE DEF U
<1> QED BY <1>1, <1>2, <1>3

\* A sum of sums.
LEMMA SumPlus ==
    ASSUME NEW f, NEW h, NEW k, NEW S, IsFiniteSet(S),
           \A x \in S : f[x] \in Int /\ h[x] \in Int /\ k[x] = f[x] + h[x]
    PROVE  SumFunctionOnSet(k, S) = SumFunctionOnSet(f, S) + SumFunctionOnSet(h, S)
<1> DEFINE P(T) == SumFunctionOnSet(k, T) = SumFunctionOnSet(f, T) + SumFunctionOnSet(h, T)
           C == {T \in SUBSET S : P(T)}
<1>1. ASSUME NEW T \in SUBSET S, \A U \in SUBSET T : U # T => U \in C
      PROVE  T \in C
  <2>1. CASE T = {}
    BY <2>1, SumEmpty
  <2>2. CASE T # {}
    <3>1. PICK x \in T : TRUE
      BY <2>2
    <3> DEFINE U == T \ {x}
    <3>2. IsFiniteSet(T)
      BY FS_Subset
    <3>3. SumFunctionOnSet(f, T) = f[x] + SumFunctionOnSet(f, U) /\ SumFunctionOnSet(f, U) \in Int
      <4>1. \A y \in T : f[y] \in Int
        OBVIOUS
      <4>2. SumFunctionOnSet(f, T) = f[x] + SumFunctionOnSet(f, U)
        BY <3>1, <3>2, <4>1, SumTake
      <4>3. IsFiniteSet(U) /\ \A y \in U : f[y] \in Int
        BY <3>2, <4>1, FS_Subset
      <4> QED BY <4>2, <4>3, SumInt
    <3>4. SumFunctionOnSet(h, T) = h[x] + SumFunctionOnSet(h, U) /\ SumFunctionOnSet(h, U) \in Int
      <4>1. \A y \in T : h[y] \in Int
        OBVIOUS
      <4>2. SumFunctionOnSet(h, T) = h[x] + SumFunctionOnSet(h, U)
        BY <3>1, <3>2, <4>1, SumTake
      <4>3. IsFiniteSet(U) /\ \A y \in U : h[y] \in Int
        BY <3>2, <4>1, FS_Subset
      <4> QED BY <4>2, <4>3, SumInt
    <3>5. SumFunctionOnSet(k, T) = k[x] + SumFunctionOnSet(k, U)
      <4>1. \A y \in T : k[y] \in Int
        OBVIOUS
      <4> QED BY <3>1, <3>2, <4>1, SumTake
    <3>6. P(U)
      BY <1>1, <3>1
    <3>7. f[x] \in Int /\ h[x] \in Int /\ k[x] = f[x] + h[x]
      BY <3>1
    <3> HIDE DEF U
    <3> QED BY <3>3, <3>4, <3>5, <3>6, <3>7
  <2> QED BY <2>1, <2>2
<1>2. C \in SUBSET SUBSET S /\ S \in SUBSET S
  OBVIOUS
<1> HIDE DEF C
<1>3. C = SUBSET S
  BY <1>1, <1>2, SmallestOut
<1> QED BY <1>2, <1>3 DEF C

\* A sum of natural numbers is one, and at least each of them.
LEMMA SumNat ==
    ASSUME NEW f, NEW S, IsFiniteSet(S), \A x \in S : f[x] \in Nat
    PROVE  /\ SumFunctionOnSet(f, S) \in Nat
           /\ \A x \in S : f[x] <= SumFunctionOnSet(f, S)
<1>0. \A x \in S : f[x] \in Int
  OBVIOUS
<1> DEFINE C == {T \in SUBSET S : SumFunctionOnSet(f, T) \in Nat}
<1>1. ASSUME NEW T \in SUBSET S, \A U \in SUBSET T : U # T => U \in C
      PROVE  T \in C
  <2>1. CASE T = {}
    BY <2>1, SumEmpty
  <2>2. CASE T # {}
    <3>1. PICK x \in T : TRUE
      BY <2>2
    <3>2. IsFiniteSet(T) /\ \A y \in T : f[y] \in Int
      BY <1>0, FS_Subset
    <3>3. SumFunctionOnSet(f, T) = f[x] + SumFunctionOnSet(f, T \ {x})
      BY <3>1, <3>2, SumTake
    <3>4. SumFunctionOnSet(f, T \ {x}) \in Nat /\ f[x] \in Nat
      BY <1>1, <3>1
    <3> QED BY <3>3, <3>4
  <2> QED BY <2>1, <2>2
<1>2. C \in SUBSET SUBSET S /\ S \in SUBSET S
  OBVIOUS
<1> HIDE DEF C
<1>3. C = SUBSET S
  BY <1>1, <1>2, SmallestOut
<1>4. \A T \in SUBSET S : SumFunctionOnSet(f, T) \in Nat
  BY <1>3 DEF C
<1>5. ASSUME NEW x \in S PROVE f[x] <= SumFunctionOnSet(f, S)
  <2>1. SumFunctionOnSet(f, S) = f[x] + SumFunctionOnSet(f, S \ {x})
    BY <1>0, SumTake
  <2>2. SumFunctionOnSet(f, S \ {x}) \in Nat /\ f[x] \in Nat
    BY <1>4
  <2> QED BY <2>1, <2>2
<1> QED BY <1>2, <1>4, <1>5

\* A sum of summands that are no larger.
LEMMA SumLeq ==
    ASSUME NEW f, NEW h, NEW S, IsFiniteSet(S),
           \A x \in S : f[x] \in Int /\ h[x] \in Int /\ f[x] <= h[x]
    PROVE  SumFunctionOnSet(f, S) <= SumFunctionOnSet(h, S)
<1> DEFINE k == [x \in S |-> h[x] - f[x]]
<1>1. \A x \in S : k[x] \in Nat
  OBVIOUS
<1>2. \A x \in S : f[x] \in Int /\ k[x] \in Int /\ h[x] = f[x] + k[x]
  OBVIOUS
<1> HIDE DEF k
<1>3. SumFunctionOnSet(h, S) = SumFunctionOnSet(f, S) + SumFunctionOnSet(k, S)
  BY <1>2, SumPlus
<1>4. SumFunctionOnSet(k, S) \in Nat
  BY <1>1, SumNat
<1>5. SumFunctionOnSet(f, S) \in Int
  <2>1. \A x \in S : f[x] \in Int
    OBVIOUS
  <2> QED BY <2>1, SumInt
<1> QED BY <1>3, <1>4, <1>5

\* A sum with no summand but 0.
LEMMA SumZero ==
    ASSUME NEW f, NEW S, IsFiniteSet(S), \A x \in S : f[x] = 0
    PROVE  SumFunctionOnSet(f, S) = 0
<1> DEFINE C == {T \in SUBSET S : SumFunctionOnSet(f, T) = 0}
<1>1. ASSUME NEW T \in SUBSET S, \A U \in SUBSET T : U # T => U \in C
      PROVE  T \in C
  <2>1. CASE T = {}
    BY <2>1, SumEmpty
  <2>2. CASE T # {}
    <3>1. PICK x \in T : TRUE
      BY <2>2
    <3>2. IsFiniteSet(T) /\ \A y \in T : f[y] \in Int
      BY FS_Subset
    <3>3. SumFunctionOnSet(f, T) = f[x] + SumFunctionOnSet(f, T \ {x})
      BY <3>1, <3>2, SumTake
    <3>4. SumFunctionOnSet(f, T \ {x}) = 0 /\ f[x] = 0
      BY <1>1, <3>1
    <3> QED BY <3>3, <3>4
  <2> QED BY <2>1, <2>2
<1>2. C \in SUBSET SUBSET S /\ S \in SUBSET S
  OBVIOUS
<1> HIDE DEF C
<1>3. C = SUBSET S
  BY <1>1, <1>2, SmallestOut
<1> QED BY <1>2, <1>3 DEF C

\* What is 0 outside a subset sums up to the sum over it.
LEMMA SumWithin ==
    ASSUME NEW f, NEW S, IsFiniteSet(S), NEW V \in SUBSET S,
           \A x \in V : f[x] \in Int, \A x \in S \ V : f[x] = 0
    PROVE  SumFunctionOnSet(f, S) = SumFunctionOnSet(f, V)
<1> DEFINE C == {T \in SUBSET S : SumFunctionOnSet(f, T) = SumFunctionOnSet(f, T \cap V)}
<1>1. ASSUME NEW T \in SUBSET S, \A U \in SUBSET T : U # T => U \in C
      PROVE  T \in C
  <2>1. CASE T = {}
    <3>1. T \cap V = {}
      BY <2>1
    <3> QED BY <2>1, <3>1
  <2>2. CASE T # {}
    <3>1. PICK x \in T : TRUE
      BY <2>2
    <3> DEFINE U == T \ {x}
    <3>2. IsFiniteSet(T) /\ IsFiniteSet(T \cap V) /\ \A y \in T : f[y] \in Int
      BY FS_Subset
    <3>3. SumFunctionOnSet(f, T) = f[x] + SumFunctionOnSet(f, U) /\ SumFunctionOnSet(f, U) \in Int
      BY <3>1, <3>2, SumTake
    <3>4. SumFunctionOnSet(f, U) = SumFunctionOnSet(f, U \cap V)
      BY <1>1, <3>1
    <3>5. CASE x \in V
      <4>1. U \cap V = (T \cap V) \ {x} /\ x \in T \cap V
        BY <3>1, <3>5
      <4>2. SumFunctionOnSet(f, T \cap V) = f[x] + SumFunctionOnSet(f, (T \cap V) \ {x})
        BY <3>2, <4>1, SumTake
      <4> QED BY <3>3, <3>4, <4>1, <4>2
    <3>6. CASE x \notin V
      <4>1. U \cap V = T \cap V /\ f[x] = 0
        BY <3>1, <3>6
      <4>2. SumFunctionOnSet(f, U) = SumFunctionOnSet(f, T \cap V)
        BY <3>4, <4>1
      <4> HIDE DEF U
      <4> QED BY <3>3, <4>1, <4>2
    <3> QED BY <3>5, <3>6
  <2> QED BY <2>1, <2>2
<1>2. C \in SUBSET SUBSET S /\ S \in SUBSET S /\ S \cap V = V
  OBVIOUS
<1> HIDE DEF C
<1>3. C = SUBSET S
  BY <1>1, <1>2, SmallestOut
<1> QED BY <1>2, <1>3 DEF C

\* A sum with one summand that is not 0.
LEMMA SumOne ==
    ASSUME NEW f, NEW S, IsFiniteSet(S), NEW x \in S, f[x] \in Int,
           \A y \in S \ {x} : f[y] = 0
    PROVE  SumFunctionOnSet(f, S) = f[x]
<1>1. \A y \in S : f[y] \in Int
  OBVIOUS
<1> DEFINE U == S \ {x}
<1>2. SumFunctionOnSet(f, S) = f[x] + SumFunctionOnSet(f, U) /\ IsFiniteSet(U)
  BY <1>1, SumTake
<1>3. SumFunctionOnSet(f, U) = 0
  BY <1>2, SumZero
<1> QED BY <1>2, <1>3

\* As many equal summands as the set has elements.
LEMMA SumConstant ==
    ASSUME NEW f, NEW S, IsFiniteSet(S), NEW c \in Int, \A x \in S : f[x] = c
    PROVE  SumFunctionOnSet(f, S) = c * Cardinality(S)
<1> DEFINE C == {T \in SUBSET S : SumFunctionOnSet(f, T) = c * Cardinality(T)}
<1>1. ASSUME NEW T \in SUBSET S, \A U \in SUBSET T : U # T => U \in C
      PROVE  T \in C
  <2>1. CASE T = {}
    <3>1. Cardinality(T) = 0 /\ SumFunctionOnSet(f, T) = 0
      BY <2>1, SumEmpty, FS_EmptySet
    <3> QED BY <3>1
  <2>2. CASE T # {}
    <3>1. PICK x \in T : TRUE
      BY <2>2
    <3> DEFINE U == T \ {x}
    <3>2. IsFiniteSet(T) /\ \A y \in T : f[y] \in Int
      BY FS_Subset
    <3>3. SumFunctionOnSet(f, T) = f[x] + SumFunctionOnSet(f, U)
      BY <3>1, <3>2, SumTake
    <3>4. SumFunctionOnSet(f, U) = c * Cardinality(U) /\ f[x] = c
      BY <1>1, <3>1
    <3>5. Cardinality(U) = Cardinality(T) - 1 /\ Cardinality(T) \in Nat
      BY <3>1, <3>2, FS_RemoveElement, FS_CardinalityType
    <3> HIDE DEF U
    <3>6. \A m \in Nat : c + c * (m - 1) = c * m
      OBVIOUS
    <3>7. c + c * (Cardinality(T) - 1) = c * Cardinality(T)
      BY <3>5, <3>6
    <3> QED BY <3>3, <3>4, <3>5, <3>7
  <2> QED BY <2>1, <2>2
<1>2. C \in SUBSET SUBSET S /\ S \in SUBSET S
  OBVIOUS
<1> HIDE DEF C
<1>3. C = SUBSET S
  BY <1>1, <1>2, SmallestOut
<1> QED BY <1>2, <1>3 DEF C

\* A table has the same sum by rows and by columns.
LEMMA SumSwap ==
    ASSUME NEW S, IsFiniteSet(S), NEW V, IsFiniteSet(V), NEW h,
           \A x \in S, y \in V : h[x][y] \in Int
    PROVE  SumFunctionOnSet([x \in S |-> SumFunctionOnSet(h[x], V)], S)
             = SumFunctionOnSet([y \in V |-> SumFunctionOnSet([x \in S |-> h[x][y]], S)], V)
<1> DEFINE rows == [x \in S |-> SumFunctionOnSet(h[x], V)]
           cols(T) == [y \in V |-> SumFunctionOnSet([x \in S |-> h[x][y]], T)]
           C == {T \in SUBSET S : SumFunctionOnSet(rows, T) = SumFunctionOnSet(cols(T), V)}
<1>r. \A x \in S : rows[x] = SumFunctionOnSet(h[x], V) /\ rows[x] \in Int
  BY SumInt
<1>1. ASSUME NEW T \in SUBSET S, \A U \in SUBSET T : U # T => U \in C
      PROVE  T \in C
  <2>1. CASE T = {}
    <3>1. \A y \in V : cols(T)[y] = 0
      BY <2>1, SumEmpty
    <3>2. SumFunctionOnSet(rows, T) = 0
      BY <2>1, SumEmpty
    <3> HIDE DEF rows, cols
    <3>3. SumFunctionOnSet(cols(T), V) = 0
      BY <3>1, SumZero
    <3> QED BY <3>2, <3>3
  <2>2. CASE T # {}
    <3>1. PICK x \in T : TRUE
      BY <2>2
    <3> DEFINE U == T \ {x}
    <3>2. IsFiniteSet(T) /\ IsFiniteSet(U) /\ U \in SUBSET S /\ U \in SUBSET T /\ U # T /\ x \in S
      BY <3>1, FS_Subset
    <3>3. SumFunctionOnSet(rows, T) = rows[x] + SumFunctionOnSet(rows, U)
      <4>1. \A z \in T : rows[z] \in Int
        BY <1>r
      <4> HIDE DEF rows
      <4> QED BY <3>1, <3>2, <4>1, SumTake
    <3>4. ASSUME NEW y \in V
          PROVE  h[x][y] \in Int /\ cols(U)[y] \in Int /\ cols(T)[y] = h[x][y] + cols(U)[y]
      <4> DEFINE f == [z \in S |-> h[z][y]]
      <4>1. \A z \in S : f[z] = h[z][y] /\ f[z] \in Int
        OBVIOUS
      <4>2. cols(U)[y] = SumFunctionOnSet(f, U) /\ cols(T)[y] = SumFunctionOnSet(f, T)
        OBVIOUS
      <4>3. (\A z \in T : f[z] \in Int) /\ (\A z \in U : f[z] \in Int)
        BY <4>1
      <4>9. f[x] = h[x][y]
        BY <4>1, <3>2
      <4> HIDE DEF f, cols
      <4>4. SumFunctionOnSet(f, T) = f[x] + SumFunctionOnSet(f, U)
        BY <3>1, <3>2, <4>3, SumTake
      <4>5. SumFunctionOnSet(f, U) \in Int
        BY <3>2, <4>3, SumInt
      <4>6. h[x][y] \in Int
        BY <3>2
      <4> QED BY <4>2, <4>4, <4>5, <4>6, <4>9
    <3>5. SumFunctionOnSet(cols(T), V) = SumFunctionOnSet(h[x], V) + SumFunctionOnSet(cols(U), V)
      <4> DEFINE f == h[x]
                 g == cols(U)
                 k == cols(T)
      <4>1. \A y \in V : f[y] \in Int /\ g[y] \in Int /\ k[y] = f[y] + g[y]
        BY <3>4
      <4> HIDE DEF f, g, k
      <4>2. SumFunctionOnSet(k, V) = SumFunctionOnSet(f, V) + SumFunctionOnSet(g, V)
        BY <4>1, SumPlus
      <4> QED BY <4>2 DEF f, g, k
    <3>6. SumFunctionOnSet(rows, U) = SumFunctionOnSet(cols(U), V)
      BY <1>1, <3>2
    <3>7. rows[x] = SumFunctionOnSet(h[x], V)
      BY <1>r, <3>2
    <3> HIDE DEF rows, cols
    <3> QED BY <3>3, <3>5, <3>6, <3>7
  <2> QED BY <2>1, <2>2
<1>2. C \in SUBSET SUBSET S /\ S \in SUBSET S
  OBVIOUS
<1> HIDE DEF C
<1>3. C = SUBSET S
  BY <1>1, <1>2, SmallestOut
<1>4. SumFunctionOnSet(rows, S) = SumFunctionOnSet(cols(S), V)
  BY <1>2, <1>3 DEF C
<1> QED BY <1>4

----------------------------------------------------------------------------
(* Traces of a queue: the states from a to b, of the set T, that its         *)
(* elements lead through, one step of the set R for each element.            *)

Trace(h, q, T, R, a, b) ==
    /\ h \in [0 .. Len(q) -> T] /\ h[0] = a /\ h[Len(q)] = b
    /\ \A k \in 1 .. Len(q) : <<h[k-1], q[k], h[k]>> \in R

LEMMA TraceEmpty ==
    ASSUME NEW T, NEW R, NEW a \in T
    PROVE  \E h : Trace(h, <<>>, T, R, a, a)
<1> DEFINE h == [k \in 0 .. 0 |-> a]
<1>1. Trace(h, <<>>, T, R, a, a)
  BY DEF Trace
<1> QED BY <1>1

\* One more step at the end.
LEMMA TraceAppend ==
    ASSUME NEW E, NEW q \in Seq(E), NEW t \in E, NEW T, NEW R, NEW a, NEW b, NEW c \in T,
           \E h : Trace(h, q, T, R, a, b), <<b, t, c>> \in R
    PROVE  \E h : Trace(h, Append(q, t), T, R, a, c)
<1>1. PICK h : Trace(h, q, T, R, a, b)
  OBVIOUS
<1> DEFINE n == Len(q)
           r == Append(q, t)
           g == [k \in 0 .. n + 1 |-> IF k <= n THEN h[k] ELSE c]
<1>2. n \in Nat /\ Len(r) = n + 1 /\ r[n + 1] = t /\ \A k \in 1 .. n : r[k] = q[k]
  OBVIOUS
<1>3. /\ h \in [0 .. n -> T] /\ h[0] = a /\ h[n] = b
      /\ \A k \in 1 .. n : <<h[k-1], q[k], h[k]>> \in R
  BY <1>1 DEF Trace
<1> HIDE DEF r, n
<1>4. g \in [0 .. n + 1 -> T] /\ g[0] = a /\ g[n + 1] = c
  BY <1>2, <1>3
<1>5. ASSUME NEW k \in 1 .. n + 1 PROVE <<g[k-1], r[k], g[k]>> \in R
  <2>1. CASE k = n + 1
    <3>1. g[k-1] = b /\ g[k] = c
      BY <1>2, <1>3, <2>1
    <3> QED BY <1>2, <2>1, <3>1
  <2>2. CASE k \in 1 .. n
    <3>1. g[k-1] = h[k-1] /\ g[k] = h[k] /\ r[k] = q[k]
      BY <1>2, <2>2
    <3> QED BY <1>3, <2>2, <3>1
  <2> QED BY <1>2, <2>1, <2>2
<1> HIDE DEF g
<1>6. Trace(g, r, T, R, a, c)
  BY <1>2, <1>4, <1>5 DEF Trace
<1> QED BY <1>6 DEF r

\* The first step, and the rest.
LEMMA TraceTail ==
    ASSUME NEW E, NEW q \in Seq(E), q # <<>>, NEW T, NEW R, NEW a, NEW b,
           \E h : Trace(h, q, T, R, a, b)
    PROVE  \E c \in T : <<a, Head(q), c>> \in R /\ \E h : Trace(h, Tail(q), T, R, c, b)
<1>1. PICK h : Trace(h, q, T, R, a, b)
  OBVIOUS
<1> DEFINE n == Len(q)
           r == Tail(q)
           g == [k \in 0 .. n - 1 |-> h[k + 1]]
<1>2. /\ n \in Nat \ {0} /\ Len(r) = n - 1 /\ Head(q) = q[1]
      /\ \A k \in 1 .. n - 1 : r[k] = q[k + 1]
  OBVIOUS
<1>3. /\ h \in [0 .. n -> T] /\ h[0] = a /\ h[n] = b
      /\ \A k \in 1 .. n : <<h[k-1], q[k], h[k]>> \in R
  BY <1>1 DEF Trace
<1> HIDE DEF r, n
<1>4. <<a, Head(q), h[1]>> \in R /\ h[1] \in T
  <2>1. <<h[1-1], q[1], h[1]>> \in R /\ h[1] \in T
    BY <1>2, <1>3
  <2> QED BY <1>2, <1>3, <2>1
<1>5. g \in [0 .. n - 1 -> T] /\ g[0] = h[1] /\ g[n - 1] = b
  BY <1>2, <1>3
<1>6. ASSUME NEW k \in 1 .. n - 1 PROVE <<g[k-1], r[k], g[k]>> \in R
  <2>1. k + 1 \in 1 .. n /\ (k + 1) - 1 = k /\ (k - 1) + 1 = k /\ k - 1 \in 0 .. n - 1
    BY <1>2
  <2>2. <<h[k], q[k + 1], h[k + 1]>> \in R
    BY <1>3, <2>1
  <2>3. g[k-1] = h[k] /\ g[k] = h[k + 1] /\ r[k] = q[k + 1]
    BY <1>2, <2>1
  <2> QED BY <2>2, <2>3
<1> HIDE DEF g
<1>7. Trace(g, r, T, R, h[1], b)
  BY <1>2, <1>5, <1>6 DEF Trace
<1> QED BY <1>4, <1>7 DEF r

\* Another queue and other sets whose steps include these.
LEMMA TraceWeaken ==
    ASSUME NEW q, NEW r, Len(r) = Len(q), NEW T, NEW U, T \subseteq U, NEW R, NEW S,
           NEW a, NEW b, \E h : Trace(h, q, T, R, a, b),
           \A k \in 1 .. Len(q) : \A x \in T, y \in T : <<x, q[k], y>> \in R => <<x, r[k], y>> \in S,
           Len(q) \in Nat
    PROVE  \E h : Trace(h, r, U, S, a, b)
<1>1. PICK h : Trace(h, q, T, R, a, b)
  OBVIOUS
<1>2. /\ h \in [0 .. Len(r) -> U] /\ h[0] = a /\ h[Len(r)] = b
  BY <1>1 DEF Trace
<1>3. ASSUME NEW k \in 1 .. Len(r) PROVE <<h[k-1], r[k], h[k]>> \in S
  <2>1. h[k-1] \in T /\ h[k] \in T /\ <<h[k-1], q[k], h[k]>> \in R
    BY <1>1 DEF Trace
  <2> QED BY <2>1
<1> QED BY <1>2, <1>3 DEF Trace

\* What holds at the start of a trace and is passed on by every step holds at the end.
LEMMA TraceKeeps ==
    ASSUME NEW q, Len(q) \in Nat, NEW T, NEW R, NEW a, NEW b, NEW C,
           \E h : Trace(h, q, T, R, a, b), a \in C,
           \A k \in 1 .. Len(q) : \A x \in T, y \in T :
               <<x, q[k], y>> \in R /\ x \in C => y \in C
    PROVE  b \in C
<1>1. PICK h : Trace(h, q, T, R, a, b)
  OBVIOUS
<1> DEFINE n == Len(q)
           D == {k \in 0 .. n : h[k] \in C}
<1>2. 0 \in D
  BY <1>1 DEF Trace
<1>3. ASSUME NEW k \in 1 .. n, k - 1 \in D PROVE k \in D
  <2>1. h[k-1] \in T /\ h[k] \in T /\ <<h[k-1], q[k], h[k]>> \in R
    BY <1>1, SMTT(60) DEF Trace
  <2> QED BY <1>3, <2>1
<1> HIDE DEF D
<1>4. 0 .. n \subseteq D
  BY <1>2, <1>3, Steps
<1>5. n \in D
  BY <1>4
<1> QED BY <1>1, <1>5 DEF D, Trace
=============================================================================
