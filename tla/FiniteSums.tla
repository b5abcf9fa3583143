----------------------------- MODULE FiniteSums -----------------------------
(***************************************************************************)
(* What SumFunctionOnSet adds up, for every finite set: quotas and byte    *)
(* counts rest on it.  Induction over finite sets is by a least            *)
(* counterexample, a set instead of a predicate.                           *)
(***************************************************************************)
EXTENDS Integers, FiniteSets, FiniteSetsExt, Functions, FiniteSetTheorems,
        WellFoundedInduction, TLAPS

ChosenOf(T) == CHOOSE x \in T : TRUE

\* g adds fun up over the sets in D.
AddsUp(g, fun, D) ==
    g = [T \in D |-> IF T = {} THEN 0 ELSE fun[ChosenOf(T)] + g[T \ {ChosenOf(T)}]]

(* A set of natural numbers has a least element.                           *)
LEMMA LeastNatural ==
    ASSUME NEW T \in SUBSET Nat, T # {}
    PROVE  \E m \in T : \A k \in T : m <= k
<1>1. PICK m \in T : \A k \in T : ~(<<k, m>> \in OpToRel(<, Nat))
    BY WFMin, NatLessThanWellFounded
<1>2. \A k \in T : ~(k < m)
    BY <1>1 DEF OpToRel
<1> QED  BY <1>2

(* A collection of subsets of a finite set has a smallest one.             *)
LEMMA SmallestSubset ==
    ASSUME NEW S, IsFiniteSet(S), NEW C \in SUBSET (SUBSET S), C # {}
    PROVE  \E T \in C : \A R \in C : R \subseteq T => R = T
<1>1. FiniteSubsetsOf(S) = SUBSET S
    BY FS_FiniteSubsetsOfFinite
<1>2. PICK T \in C : \A R \in C : ~(<<R, T>> \in StrictSubsetOrdering(S))
    BY <1>1, WFMin, FS_StrictSubsetOrderingWellFounded
<1>3. \A R \in C : R \subseteq T => R = T
    BY <1>2 DEF StrictSubsetOrdering
<1> QED  BY <1>3

SubsetsUpTo(S, n) == {T \in SUBSET S : Cardinality(T) <= n}

Summable(fun, S, n) == \E g \in [SubsetsUpTo(S, n) -> Nat] : AddsUp(g, fun, SubsetsUpTo(S, n))

LEMMA SummableStep ==
    ASSUME NEW fun, NEW S, IsFiniteSet(S), \A x \in S : fun[x] \in Nat,
           NEW n \in Nat, Summable(fun, S, n)
    PROVE  Summable(fun, S, n + 1)
<1>1. PICK g \in [SubsetsUpTo(S, n) -> Nat] : AddsUp(g, fun, SubsetsUpTo(S, n))
    BY DEF Summable
<1> DEFINE h == [T \in SubsetsUpTo(S, n + 1) |->
                    IF T = {} THEN 0 ELSE fun[ChosenOf(T)] + g[T \ {ChosenOf(T)}]]
<1>2. ASSUME NEW T \in SubsetsUpTo(S, n + 1), T # {}
      PROVE  T \ {ChosenOf(T)} \in SubsetsUpTo(S, n) /\ ChosenOf(T) \in T
    <2>1. ChosenOf(T) \in T  BY <1>2 DEF ChosenOf
    <2>2. IsFiniteSet(T)  BY FS_Subset DEF SubsetsUpTo
    <2>3. Cardinality(T \ {ChosenOf(T)}) = Cardinality(T) - 1  BY <2>1, <2>2, FS_RemoveElement
    <2>4. Cardinality(T) \in Nat  BY <2>2, FS_CardinalityType
    <2> QED  BY <2>1, <2>3, <2>4 DEF SubsetsUpTo
<1>3. \A T \in SubsetsUpTo(S, n) : T \in SubsetsUpTo(S, n + 1) /\ g[T] = h[T]
    <2> TAKE T \in SubsetsUpTo(S, n)
    <2>1. IsFiniteSet(T) /\ Cardinality(T) \in Nat  BY FS_Subset, FS_CardinalityType DEF SubsetsUpTo
    <2>2. T \in SubsetsUpTo(S, n + 1)  BY <2>1 DEF SubsetsUpTo
    <2>3. g[T] = [R \in SubsetsUpTo(S, n) |-> IF R = {} THEN 0 ELSE fun[ChosenOf(R)] + g[R \ {ChosenOf(R)}]][T]
        BY <1>1, Zenon DEF AddsUp
    <2> QED  BY <2>2, <2>3
<1>4. h \in [SubsetsUpTo(S, n + 1) -> Nat]
    <2> SUFFICES ASSUME NEW T \in SubsetsUpTo(S, n + 1) PROVE h[T] \in Nat
        OBVIOUS
    <2>1. CASE T = {}  BY <2>1
    <2>2. CASE T # {}
        <3>1. ChosenOf(T) \in S  BY <1>2, <2>2 DEF SubsetsUpTo
        <3>2. fun[ChosenOf(T)] \in Nat /\ g[T \ {ChosenOf(T)}] \in Nat  BY <1>2, <2>2, <3>1
        <3> QED  BY <2>2, <3>2
    <2> QED  BY <2>1, <2>2
<1>5. h = [T \in SubsetsUpTo(S, n + 1) |-> IF T = {} THEN 0 ELSE fun[ChosenOf(T)] + h[T \ {ChosenOf(T)}]]
    <2>1. \A T \in SubsetsUpTo(S, n + 1) : T # {} => h[T \ {ChosenOf(T)}] = g[T \ {ChosenOf(T)}]
        BY <1>2, <1>3
    <2> QED  BY <2>1
<1> HIDE DEF h
<1> QED  BY <1>4, <1>5 DEF Summable, AddsUp

(* The sum's defining recursion has a solution.                            *)
LEMMA SumExists ==
    ASSUME NEW fun, NEW S, IsFiniteSet(S), \A x \in S : fun[x] \in Nat
    PROVE  \E g \in [SUBSET S -> Nat] : AddsUp(g, fun, SUBSET S)
<1>0. Cardinality(S) \in Nat  BY FS_CardinalityType
<1>1. SubsetsUpTo(S, Cardinality(S)) = SUBSET S
    BY FS_Subset DEF SubsetsUpTo
<1>2. Summable(fun, S, 0)
    <2>1. SubsetsUpTo(S, 0) = {{}}
        <3>1. \A T \in SUBSET S : Cardinality(T) <= 0 <=> T = {}
            BY FS_Subset, FS_CardinalityType, FS_EmptySet
        <3> QED  BY <3>1 DEF SubsetsUpTo
    <2> DEFINE g == [T \in {{}} |-> 0]
    <2>2. g = [T \in {{}} |-> IF T = {} THEN 0 ELSE fun[ChosenOf(T)] + g[T \ {ChosenOf(T)}]]
        OBVIOUS
    <2>3. g \in [{{}} -> Nat]
        OBVIOUS
    <2> HIDE DEF g
    <2> QED  BY <2>1, <2>2, <2>3 DEF Summable, AddsUp
<1>3. \A n \in Nat : Summable(fun, S, n)
    <2> DEFINE Failing == {n \in Nat : ~Summable(fun, S, n)}
    <2> SUFFICES ASSUME Failing # {} PROVE FALSE
        OBVIOUS
    <2>1. PICK m \in Failing : \A k \in Failing : m <= k
        BY LeastNatural
    <2>2. m # 0 /\ m \in Nat
        BY <1>2
    <2>3. m - 1 \in Nat /\ Summable(fun, S, m - 1)
        BY <2>1, <2>2
    <2>4. Summable(fun, S, (m - 1) + 1)
        BY <2>3, SummableStep
    <2>5. (m - 1) + 1 = m
        BY <2>2
    <2> QED  BY <2>4, <2>5
<1> QED  BY <1>0, <1>1, <1>3 DEF Summable

(* One solution only, whatever larger set it was made for.                 *)
LEMMA SumUnique ==
    ASSUME NEW fun, NEW S, IsFiniteSet(S), NEW D, SUBSET S \subseteq D, NEW E, SUBSET S \subseteq E,
           NEW g, AddsUp(g, fun, D), NEW h, AddsUp(h, fun, E)
    PROVE  g[S] = h[S]
<1> DEFINE Differing == {T \in SUBSET S : g[T] # h[T]}
<1>1. SUFFICES ASSUME Differing # {} PROVE FALSE
    OBVIOUS
<1>2. PICK T \in Differing : \A R \in Differing : R \subseteq T => R = T
    <2> HIDE DEF Differing
    <2> SUFFICES Differing \in SUBSET (SUBSET S)
        BY <1>1, SmallestSubset
    <2> QED  BY DEF Differing
<1>3. /\ g[T] = IF T = {} THEN 0 ELSE fun[ChosenOf(T)] + g[T \ {ChosenOf(T)}]
      /\ h[T] = IF T = {} THEN 0 ELSE fun[ChosenOf(T)] + h[T \ {ChosenOf(T)}]
    <2>1. T \in D /\ T \in E  OBVIOUS
    <2>2. g[T] = [R \in D |-> IF R = {} THEN 0 ELSE fun[ChosenOf(R)] + g[R \ {ChosenOf(R)}]][T]
        BY Zenon DEF AddsUp
    <2>3. h[T] = [R \in E |-> IF R = {} THEN 0 ELSE fun[ChosenOf(R)] + h[R \ {ChosenOf(R)}]][T]
        BY Zenon DEF AddsUp
    <2> QED  BY <2>1, <2>2, <2>3
<1>4. T # {}  BY <1>3
<1>5. ChosenOf(T) \in T  BY <1>4 DEF ChosenOf
<1>6. T \ {ChosenOf(T)} \notin Differing  BY <1>2, <1>5
<1> QED  BY <1>3, <1>4, <1>6

LEMMA SumIsSolution ==
    ASSUME NEW fun, NEW S, IsFiniteSet(S), \A x \in S : fun[x] \in Nat
    PROVE  \E g \in [SUBSET S -> Nat] : AddsUp(g, fun, SUBSET S) /\ SumFunctionOnSet(fun, S) = g[S]
<1> DEFINE iter == CHOOSE g : g = [T \in SUBSET S |-> IF T = {} THEN 0 ELSE fun[ChosenOf(T)] + g[T \ {ChosenOf(T)}]]
<1>1. PICK g \in [SUBSET S -> Nat] : AddsUp(g, fun, SUBSET S)
    BY SumExists
<1>2. AddsUp(iter, fun, SUBSET S)
    BY <1>1 DEF AddsUp
<1>3. SumFunctionOnSet(fun, S) = iter[S]
    BY DEF SumFunctionOnSet, FoldFunctionOnSet, MapThenFoldSet, ChosenOf
<1>4. \A T \in SUBSET S : g[T] = iter[T]
    <2> TAKE T \in SUBSET S
    <2>1. IsFiniteSet(T)  BY FS_Subset
    <2> HIDE DEF iter
    <2> QED  BY <1>1, <1>2, <2>1, SumUnique
<1> HIDE DEF iter
<1> QED  BY <1>1, <1>3, <1>4

(* A sum of natural numbers is one; over nothing it is zero.               *)
LEMMA SumType ==
    ASSUME NEW fun, NEW S, IsFiniteSet(S), \A x \in S : fun[x] \in Nat
    PROVE  SumFunctionOnSet(fun, S) \in Nat
<1>1. PICK g \in [SUBSET S -> Nat] : SumFunctionOnSet(fun, S) = g[S]
    BY SumIsSolution
<1> QED  BY <1>1

LEMMA SumEmpty ==
    ASSUME NEW fun
    PROVE  SumFunctionOnSet(fun, {}) = 0
<1>1. PICK g \in [SUBSET {} -> Nat] : AddsUp(g, fun, SUBSET {}) /\ SumFunctionOnSet(fun, {}) = g[{}]
    BY SumIsSolution, FS_EmptySet
<1>2. g[{}] = [T \in SUBSET {} |-> IF T = {} THEN 0 ELSE fun[ChosenOf(T)] + g[T \ {ChosenOf(T)}]][{}]
    BY <1>1, Zenon DEF AddsUp
<1> QED  BY <1>1, <1>2

LEMMA SumChosen ==
    ASSUME NEW fun, NEW S, IsFiniteSet(S), S # {}, \A x \in S : fun[x] \in Nat
    PROVE  /\ ChosenOf(S) \in S
           /\ SumFunctionOnSet(fun, S) = fun[ChosenOf(S)] + SumFunctionOnSet(fun, S \ {ChosenOf(S)})
<1> DEFINE R == S \ {ChosenOf(S)}
<1>0. IsFiniteSet(R) /\ \A x \in R : fun[x] \in Nat  BY FS_RemoveElement
<1>1. PICK g \in [SUBSET S -> Nat] : AddsUp(g, fun, SUBSET S) /\ SumFunctionOnSet(fun, S) = g[S]
    BY SumIsSolution
<1>2. PICK h \in [SUBSET R -> Nat] : AddsUp(h, fun, SUBSET R) /\ SumFunctionOnSet(fun, R) = h[R]
    BY <1>0, SumIsSolution
<1>3. g[R] = h[R]
    <2>1. SUBSET R \subseteq SUBSET S /\ SUBSET R \subseteq SUBSET R  OBVIOUS
    <2> HIDE DEF R
    <2> QED  BY <1>0, <1>1, <1>2, <2>1, SumUnique
<1>4. g[S] = [T \in SUBSET S |-> IF T = {} THEN 0 ELSE fun[ChosenOf(T)] + g[T \ {ChosenOf(T)}]][S]
    BY <1>1, Zenon DEF AddsUp
<1>5. ChosenOf(S) \in S  BY DEF ChosenOf
<1> QED  BY <1>1, <1>2, <1>3, <1>4, <1>5

(* One element more adds its own, whichever it is.                         *)
LEMMA SumRemove ==
    ASSUME NEW fun, NEW S, IsFiniteSet(S), \A y \in S : fun[y] \in Nat, NEW x \in S
    PROVE  SumFunctionOnSet(fun, S) = fun[x] + SumFunctionOnSet(fun, S \ {x})
<1> DEFINE Fair(T) == \A y \in T : SumFunctionOnSet(fun, T) = fun[y] + SumFunctionOnSet(fun, T \ {y})
           Unfair == {T \in SUBSET S : ~Fair(T)}
<1>1. SUFFICES ASSUME Unfair # {} PROVE FALSE
    OBVIOUS
<1>2. PICK T \in Unfair : \A R \in Unfair : R \subseteq T => R = T
    <2> HIDE DEF Unfair
    <2> SUFFICES Unfair \in SUBSET (SUBSET S)
        BY <1>1, SmallestSubset
    <2> QED  BY DEF Unfair
<1>3. PICK y \in T : SumFunctionOnSet(fun, T) # fun[y] + SumFunctionOnSet(fun, T \ {y})
    OBVIOUS
<1> DEFINE c == ChosenOf(T)
<1>4. IsFiniteSet(T) /\ T # {} /\ \A z \in T : fun[z] \in Nat
    BY FS_Subset
<1>5. c \in T /\ SumFunctionOnSet(fun, T) = fun[c] + SumFunctionOnSet(fun, T \ {c})
    BY <1>4, SumChosen
<1>6. c # y  BY <1>3, <1>5
<1> HIDE DEF c
<1>7. T \ {c} \notin Unfair /\ T \ {y} \notin Unfair
    BY <1>2, <1>5
<1>8. Fair(T \ {c}) /\ Fair(T \ {y})
    BY <1>7
<1>9. /\ SumFunctionOnSet(fun, T \ {c}) = fun[y] + SumFunctionOnSet(fun, (T \ {c}) \ {y})
      /\ SumFunctionOnSet(fun, T \ {y}) = fun[c] + SumFunctionOnSet(fun, (T \ {y}) \ {c})
    BY <1>5, <1>6, <1>8
<1>10. (T \ {c}) \ {y} = (T \ {y}) \ {c}  OBVIOUS
<1>11. SumFunctionOnSet(fun, (T \ {c}) \ {y}) \in Nat
    BY <1>4, FS_RemoveElement, SumType
<1>12. fun[c] \in Nat /\ fun[y] \in Nat
    BY <1>4, <1>5
<1> DEFINE rest == SumFunctionOnSet(fun, (T \ {c}) \ {y})
<1>13. /\ SumFunctionOnSet(fun, T) = fun[c] + (fun[y] + rest)
       /\ SumFunctionOnSet(fun, T \ {y}) = fun[c] + rest
    BY <1>5, <1>9, <1>10
<1>14. rest \in Nat  BY <1>11
<1> HIDE DEF rest
<1> QED  BY <1>3, <1>12, <1>13, <1>14

LEMMA SumAdd ==
    ASSUME NEW fun, NEW S, IsFiniteSet(S), NEW x, x \notin S, fun[x] \in Nat, \A y \in S : fun[y] \in Nat
    PROVE  SumFunctionOnSet(fun, S \cup {x}) = fun[x] + SumFunctionOnSet(fun, S)
<1>1. IsFiniteSet(S \cup {x})  BY FS_AddElement
<1>2. (S \cup {x}) \ {x} = S  OBVIOUS
<1>3. \A y \in S \cup {x} : fun[y] \in Nat  OBVIOUS
<1> QED  BY <1>1, <1>2, <1>3, SumRemove

(* Part of a set adds up to no more.                                       *)
LEMMA SumMonotone ==
    ASSUME NEW fun, NEW S, IsFiniteSet(S), \A y \in S : fun[y] \in Nat, NEW T \in SUBSET S
    PROVE  SumFunctionOnSet(fun, T) <= SumFunctionOnSet(fun, S)
<1> DEFINE More == {R \in SUBSET S : T \subseteq R /\ ~(SumFunctionOnSet(fun, T) <= SumFunctionOnSet(fun, R))}
<1>1. SUFFICES ASSUME More # {} PROVE FALSE
    OBVIOUS
<1>2. PICK R \in More : \A Q \in More : Q \subseteq R => Q = R
    <2> HIDE DEF More
    <2> SUFFICES More \in SUBSET (SUBSET S)
        BY <1>1, SmallestSubset
    <2> QED  BY DEF More
<1>3. /\ IsFiniteSet(T) /\ IsFiniteSet(R)
      /\ SumFunctionOnSet(fun, T) \in Nat /\ SumFunctionOnSet(fun, R) \in Nat
    BY FS_Subset, SumType
<1>4. PICK x \in R : x \notin T
    BY <1>3
<1>5. R \ {x} \notin More
    BY <1>2
<1>6. SumFunctionOnSet(fun, T) <= SumFunctionOnSet(fun, R \ {x})
    BY <1>4, <1>5
<1>7. SumFunctionOnSet(fun, R) = fun[x] + SumFunctionOnSet(fun, R \ {x})
    BY <1>3, SumRemove
<1>8. SumFunctionOnSet(fun, R \ {x}) \in Nat /\ fun[x] \in Nat
    BY <1>3, FS_RemoveElement, SumType
<1> QED  BY <1>3, <1>6, <1>7, <1>8

(* What is added up is all that counts of a function.                      *)
LEMMA SumSame ==
    ASSUME NEW f, NEW g, NEW S, IsFiniteSet(S), \A y \in S : f[y] = g[y] /\ f[y] \in Nat
    PROVE  SumFunctionOnSet(f, S) = SumFunctionOnSet(g, S)
<1> DEFINE Differing == {T \in SUBSET S : SumFunctionOnSet(f, T) # SumFunctionOnSet(g, T)}
<1>1. SUFFICES ASSUME Differing # {} PROVE FALSE
    OBVIOUS
<1>2. PICK T \in Differing : \A R \in Differing : R \subseteq T => R = T
    <2> HIDE DEF Differing
    <2> SUFFICES Differing \in SUBSET (SUBSET S)
        BY <1>1, SmallestSubset
    <2> QED  BY DEF Differing
<1>3. IsFiniteSet(T) /\ \A z \in T : f[z] \in Nat /\ g[z] \in Nat /\ f[z] = g[z]
    BY FS_Subset
<1>4. PICK x \in T : TRUE
    BY SumEmpty
<1>5. SumFunctionOnSet(f, T \ {x}) = SumFunctionOnSet(g, T \ {x})
    BY <1>2, <1>4
<1>6. /\ SumFunctionOnSet(f, T) = f[x] + SumFunctionOnSet(f, T \ {x})
      /\ SumFunctionOnSet(g, T) = g[x] + SumFunctionOnSet(g, T \ {x})
    BY <1>3, <1>4, SumRemove
<1> QED  BY <1>3, <1>4, <1>5, <1>6
=============================================================================
