----------------------------- MODULE SumLemmas -----------------------------
(***************************************************************************)
(* Least and greatest elements, and sums over finite sets, as Functions    *)
(* defines them, for the modules that prove about totals.                  *)
(* SumFunctionOnSet adds up a chosen element at a time, by a recursive     *)
(* function: that there is such a function, and that the order does not    *)
(* matter, is shown here by the least counterexample.                      *)
(***************************************************************************)
EXTENDS Integers, FiniteSets, FiniteSetsExt, Functions, FiniteSetTheorems, WellFoundedInduction, TLAPS

\* A set of naturals has a least element.
LEMMA SmallestExists ==
    ASSUME NEW T \in SUBSET Nat, T # {}
    PROVE  \E x \in T : \A y \in T : x <= y
<1> DEFINE LessNat == OpToRel(<, Nat)
<1>1. IsWellFoundedOn(LessNat, Nat)
  BY NatLessThanWellFounded
<1>2. PICK x \in T : \A y \in T : ~(<<y, x>> \in LessNat)
  BY <1>1, WFMin
<1>3. \A m, n \in Nat : (<<n, m>> \in LessNat) <=> n < m
  BY DEF LessNat, OpToRel
<1>4. ASSUME NEW y \in T
      PROVE  x <= y
  <2>1. ~(y < x)
    BY <1>2, <1>3
  <2> QED
    BY <2>1
<1> QED
  BY <1>4

\* A set of prices has a greatest.
LEMMA GreatestExists ==
    ASSUME NEW S \in SUBSET (0 .. 99), S # {}
    PROVE  Max(S) \in S /\ \A y \in S : y <= Max(S)
<1> DEFINE T == {99 - p : p \in S}
<1>1. T \in SUBSET Nat /\ T # {}
  <2>1. \A p \in 0 .. 99 : 99 - p \in Nat
    OBVIOUS
  <2>2. \A p \in S : 99 - p \in Nat
    BY <2>1
  <2>3. PICK p \in S : TRUE
    OBVIOUS
  <2>4. 99 - p \in T
    OBVIOUS
  <2> QED
    BY <2>2, <2>4
<1>2. PICK x \in T : \A y \in T : x <= y
  BY <1>1, SmallestExists
<1>3. PICK p \in S : x = 99 - p
  OBVIOUS
<1>4. \A q \in S : p >= q
  <2> TAKE q \in S
  <2>1. x <= 99 - q
    BY <1>2
  <2> QED
    BY <1>3, <2>1
<1>5. Max(S) \in S /\ \A q \in S : Max(S) >= q
  BY <1>4 DEF Max
<1> QED
  BY <1>5

\* Of the finite sets in C there is one with no smaller one.
LEMMA LeastSetExists ==
    ASSUME NEW C, C # {}, \A s \in C : IsFiniteSet(s)
    PROVE  \E s \in C : \A r \in C : Cardinality(s) <= Cardinality(r)
<1> DEFINE Sizes == {Cardinality(s) : s \in C}
<1>1. \A s \in C : Cardinality(s) \in Nat
  BY FS_CardinalityType
<1>2. Sizes \in SUBSET Nat /\ Sizes # {}
  BY <1>1
<1>3. PICK n \in Sizes : \A m \in Sizes : n <= m
  BY <1>2, SmallestExists
<1> QED
  BY <1>3

-----------------------------------------------------------------------------
(* The recursive function of a sum.                                        *)

Chosen(s) == CHOOSE x \in s : TRUE

\* g adds up f over the sets in D.
AddsUp(g, f, D) ==
    g = [s \in D |-> IF s = {} THEN 0 ELSE f[Chosen(s)] + g[s \ {Chosen(s)}]]

\* The subsets of S with at most n elements.
UpTo(S, n) == {s \in SUBSET S : Cardinality(s) <= n}

LEMMA ChosenRemoved ==
    ASSUME NEW S, IsFiniteSet(S), S # {}
    PROVE  /\ Chosen(S) \in S /\ IsFiniteSet(S \ {Chosen(S)})
           /\ Cardinality(S) \in Nat \ {0}
           /\ Cardinality(S \ {Chosen(S)}) = Cardinality(S) - 1
<1>1. Chosen(S) \in S
  BY DEF Chosen
<1>2. Cardinality(S) \in Nat /\ Cardinality(S) # 0
  BY FS_CardinalityType, FS_EmptySet
<1> QED
  BY <1>1, <1>2, FS_RemoveElement

LEMMA SmallSums ==
    ASSUME NEW f, NEW S, IsFiniteSet(S), NEW n \in Nat,
           \E g : AddsUp(g, f, UpTo(S, n))
    PROVE  \E g : AddsUp(g, f, UpTo(S, n + 1))
<1>1. PICK g : AddsUp(g, f, UpTo(S, n))
  OBVIOUS
<1> DEFINE h == [s \in UpTo(S, n + 1) |->
                   IF s = {} THEN 0 ELSE f[Chosen(s)] + g[s \ {Chosen(s)}]]
<1>2. ASSUME NEW s \in UpTo(S, n + 1), s # {}
      PROVE  s \ {Chosen(s)} \in UpTo(S, n) /\ s \ {Chosen(s)} \in UpTo(S, n + 1)
  <2>1. s \in SUBSET S /\ IsFiniteSet(s) /\ Cardinality(s) <= n + 1
    BY FS_Subset DEF UpTo
  <2>2. Cardinality(s) \in Nat /\ Cardinality(s \ {Chosen(s)}) = Cardinality(s) - 1
    BY <1>2, <2>1, ChosenRemoved
  <2>3. Cardinality(s \ {Chosen(s)}) <= n /\ Cardinality(s \ {Chosen(s)}) <= n + 1
    BY <2>1, <2>2
  <2> QED
    BY <2>1, <2>3 DEF UpTo
<1>3. ASSUME NEW s \in UpTo(S, n)
      PROVE  s \in UpTo(S, n + 1) /\ h[s] = g[s]
  <2>1. s \in SUBSET S /\ Cardinality(s) \in Nat /\ Cardinality(s) <= n
    BY FS_Subset, FS_CardinalityType DEF UpTo
  <2>2. Cardinality(s) <= n + 1
    BY <2>1
  <2>3. s \in UpTo(S, n + 1)
    BY <2>1, <2>2 DEF UpTo
  <2>4. g[s] = IF s = {} THEN 0 ELSE f[Chosen(s)] + g[s \ {Chosen(s)}]
    BY <1>1 DEF AddsUp
  <2> QED
    BY <2>3, <2>4
<1>4. \A s \in UpTo(S, n + 1) : s # {} => h[s \ {Chosen(s)}] = g[s \ {Chosen(s)}]
  BY <1>2, <1>3
<1>5. \A s \in UpTo(S, n + 1) :
        h[s] = IF s = {} THEN 0 ELSE f[Chosen(s)] + h[s \ {Chosen(s)}]
  BY <1>4
<1>6. h = [s \in UpTo(S, n + 1) |-> h[s]]
  OBVIOUS
<1> HIDE DEF h
<1>7. h = [s \in UpTo(S, n + 1) |-> IF s = {} THEN 0 ELSE f[Chosen(s)] + h[s \ {Chosen(s)}]]
  BY <1>5, <1>6
<1> QED
  BY <1>7 DEF AddsUp

LEMMA SumsExist ==
    ASSUME NEW f, NEW S, IsFiniteSet(S)
    PROVE  \E g : AddsUp(g, f, SUBSET S)
<1> DEFINE Fails == {n \in Nat : ~\E g : AddsUp(g, f, UpTo(S, n))}
<1>1. Fails = {}
  <2> SUFFICES ASSUME Fails # {}
               PROVE  FALSE
    OBVIOUS
  <2>1. PICK n \in Fails : \A m \in Fails : n <= m
    BY SmallestExists
  <2>2. CASE n = 0
    <3> DEFINE g == [s \in UpTo(S, 0) |-> 0]
    <3>1. \A s \in UpTo(S, 0) : s = {}
      BY FS_Subset, FS_CardinalityType, FS_EmptySet DEF UpTo
    <3>2. AddsUp(g, f, UpTo(S, 0))
      BY <3>1 DEF AddsUp
    <3> QED
      BY <2>2, <3>2
  <2>3. CASE n # 0
    <3>1. n - 1 \in Nat /\ (n - 1) + 1 = n /\ ~(n <= n - 1)
      BY <2>3
    <3>2. n - 1 \notin Fails
      BY <2>1, <3>1
    <3>3. \E g : AddsUp(g, f, UpTo(S, (n - 1) + 1))
      BY <3>1, <3>2, SmallSums
    <3> QED
      BY <3>1, <3>3
  <2> QED
    BY <2>2, <2>3
<1>2. UpTo(S, Cardinality(S)) = SUBSET S
  BY FS_Subset DEF UpTo
<1>3. Cardinality(S) \in Nat
  BY FS_CardinalityType
<1>4. \A n \in Nat : \E g : AddsUp(g, f, UpTo(S, n))
  BY <1>1
<1> QED
  BY <1>2, <1>3, <1>4

\* Two such functions agree on what both add up.
LEMMA SumsAgree ==
    ASSUME NEW f, NEW S, IsFiniteSet(S), NEW T \in SUBSET S
    PROVE  \A g, h : AddsUp(g, f, SUBSET S) /\ AddsUp(h, f, SUBSET T) => g[T] = h[T]
<1> TAKE g, h
<1> HAVE AddsUp(g, f, SUBSET S) /\ AddsUp(h, f, SUBSET T)
<1> SUFFICES \A s \in SUBSET T : g[s] = h[s]
  OBVIOUS
<1> DEFINE C == {s \in SUBSET T : g[s] # h[s]}
<1> SUFFICES ASSUME C # {}
             PROVE  FALSE
  OBVIOUS
<1>1. \A s \in SUBSET T : IsFiniteSet(s) /\ s \in SUBSET S
  BY FS_Subset
<1>2. PICK s \in C : \A r \in C : Cardinality(s) <= Cardinality(r)
  BY <1>1, LeastSetExists
<1>3. /\ g[s] = IF s = {} THEN 0 ELSE f[Chosen(s)] + g[s \ {Chosen(s)}]
      /\ h[s] = IF s = {} THEN 0 ELSE f[Chosen(s)] + h[s \ {Chosen(s)}]
  BY <1>1, <1>2 DEF AddsUp
<1>4. s # {}
  BY <1>3
<1>5. /\ Cardinality(s) \in Nat /\ Cardinality(s \ {Chosen(s)}) = Cardinality(s) - 1
      /\ s \ {Chosen(s)} \in SUBSET T
  BY <1>1, <1>4, ChosenRemoved
<1>6. s \ {Chosen(s)} \notin C
  BY <1>2, <1>5
<1> QED
  BY <1>3, <1>4, <1>5, <1>6

-----------------------------------------------------------------------------
(* Sums.                                                                   *)

SumFun(f, D) == CHOOSE g : AddsUp(g, f, D)

LEMMA SumIsItsFunction ==
    ASSUME NEW f, NEW S
    PROVE  SumFunctionOnSet(f, S) = SumFun(f, SUBSET S)[S]
BY DEF SumFunctionOnSet, FoldFunctionOnSet, MapThenFoldSet, SumFun, AddsUp, Chosen

LEMMA SumFunAdds ==
    ASSUME NEW f, NEW S, IsFiniteSet(S)
    PROVE  AddsUp(SumFun(f, SUBSET S), f, SUBSET S)
BY SumsExist DEF SumFun

LEMMA SumOfPart ==
    ASSUME NEW f, NEW S, IsFiniteSet(S), NEW T, T \subseteq S
    PROVE  SumFun(f, SUBSET S)[T] = SumFun(f, SUBSET T)[T]
<1>1. IsFiniteSet(T)
  BY FS_Subset
<1>2. AddsUp(SumFun(f, SUBSET S), f, SUBSET S)
  BY SumFunAdds
<1>3. AddsUp(SumFun(f, SUBSET T), f, SUBSET T)
  BY <1>1, SumFunAdds
<1>4. \A g, h : AddsUp(g, f, SUBSET S) /\ AddsUp(h, f, SUBSET T) => g[T] = h[T]
  <2>1. T \in SUBSET S
    OBVIOUS
  <2> QED
    BY <2>1, SumsAgree
<1> QED
  BY <1>2, <1>3, <1>4

\* A sum, unfolded once.
LEMMA SumUnfolds ==
    ASSUME NEW f, NEW S, IsFiniteSet(S)
    PROVE  SumFunctionOnSet(f, S) =
             IF S = {} THEN 0 ELSE f[Chosen(S)] + SumFunctionOnSet(f, S \ {Chosen(S)})
<1>1. SumFun(f, SUBSET S)[S \ {Chosen(S)}] = SumFun(f, SUBSET (S \ {Chosen(S)}))[S \ {Chosen(S)}]
  <2>1. S \ {Chosen(S)} \subseteq S
    OBVIOUS
  <2> QED
    BY <2>1, SumOfPart
<1>2. SumFun(f, SUBSET S)[S] =
        IF S = {} THEN 0 ELSE f[Chosen(S)] + SumFun(f, SUBSET S)[S \ {Chosen(S)}]
  <2> DEFINE g == SumFun(f, SUBSET S)
  <2>1. AddsUp(g, f, SUBSET S)
    BY SumFunAdds
  <2> HIDE DEF g
  <2>2. g[S] = IF S = {} THEN 0 ELSE f[Chosen(S)] + g[S \ {Chosen(S)}]
    BY <2>1 DEF AddsUp
  <2> QED
    BY <2>2 DEF g
<1> QED
  BY <1>1, <1>2, SumIsItsFunction

LEMMA SumOfNone ==
    ASSUME NEW f
    PROVE  SumFunctionOnSet(f, {}) = 0
BY SumUnfolds, FS_EmptySet

\* A sum of integers is one.
LEMMA SumTyped ==
    ASSUME NEW S, IsFiniteSet(S), NEW f, \A x \in S : f[x] \in Int
    PROVE  SumFunctionOnSet(f, S) \in Int
<1> DEFINE C == {s \in SUBSET S : SumFunctionOnSet(f, s) \notin Int}
<1> SUFFICES ASSUME C # {}
             PROVE  FALSE
  OBVIOUS
<1>1. \A s \in SUBSET S : IsFiniteSet(s)
  BY FS_Subset
<1>2. PICK s \in C : \A r \in C : Cardinality(s) <= Cardinality(r)
  BY <1>1, LeastSetExists
<1>3. SumFunctionOnSet(f, s) =
        IF s = {} THEN 0 ELSE f[Chosen(s)] + SumFunctionOnSet(f, s \ {Chosen(s)})
  BY <1>1, SumUnfolds
<1>4. s # {}
  BY <1>3
<1>5. /\ Cardinality(s) \in Nat /\ Cardinality(s \ {Chosen(s)}) = Cardinality(s) - 1
      /\ s \ {Chosen(s)} \in SUBSET S /\ Chosen(s) \in S
  BY <1>1, <1>4, ChosenRemoved
<1>6. s \ {Chosen(s)} \notin C
  BY <1>2, <1>5
<1>7. SumFunctionOnSet(f, s \ {Chosen(s)}) \in Int /\ f[Chosen(s)] \in Int
  BY <1>5, <1>6
<1> QED
  BY <1>3, <1>4, <1>7

\* Any element may be the one that is added last.
LEMMA SumRemoves ==
    ASSUME NEW S, IsFiniteSet(S), NEW f, \A x \in S : f[x] \in Int, NEW x \in S
    PROVE  SumFunctionOnSet(f, S) = f[x] + SumFunctionOnSet(f, S \ {x})
<1> DEFINE Fits(s, y) == SumFunctionOnSet(f, s) = f[y] + SumFunctionOnSet(f, s \ {y})
           C == {s \in SUBSET S : \E y \in s : ~Fits(s, y)}
<1> SUFFICES ASSUME C # {}
             PROVE  FALSE
  BY DEF Fits
<1>1. \A s \in SUBSET S : IsFiniteSet(s)
  BY FS_Subset
<1>2. PICK s \in C : \A r \in C : Cardinality(s) <= Cardinality(r)
  BY <1>1, LeastSetExists
<1>3. PICK y \in s : ~Fits(s, y)
  BY <1>2
<1> DEFINE c == Chosen(s)
<1>4. c \in s /\ IsFiniteSet(s) /\ Cardinality(s) \in Nat
  BY <1>1, <1>3, ChosenRemoved
<1>5. SumFunctionOnSet(f, s) = f[c] + SumFunctionOnSet(f, s \ {c})
  BY <1>1, <1>3, SumUnfolds
<1> HIDE DEF c
<1>6. y # c
  BY <1>3, <1>5
<1>7. \A z \in s : /\ s \ {z} \in SUBSET S
                   /\ Cardinality(s \ {z}) = Cardinality(s) - 1
  BY <1>4, FS_RemoveElement
<1>8. ASSUME NEW z \in s
      PROVE  s \ {z} \notin C
  <2>1. Cardinality(s) \in Nat /\ Cardinality(s \ {z}) = Cardinality(s) - 1
    BY <1>4, <1>7
  <2>2. ~(Cardinality(s) <= Cardinality(s \ {z}))
    BY <2>1
  <2> HIDE DEF C
  <2> QED
    BY <1>2, <2>2
<1>9. Fits(s \ {c}, y) /\ Fits(s \ {y}, c)
  <2>1. y \in s \ {c} /\ c \in s \ {y}
    BY <1>3, <1>4, <1>6
  <2> QED
    BY <1>4, <1>7, <1>8, <2>1
<1>10. (s \ {c}) \ {y} = (s \ {y}) \ {c}
  OBVIOUS
<1>11. /\ f[c] \in Int /\ f[y] \in Int
       /\ SumFunctionOnSet(f, (s \ {y}) \ {c}) \in Int
  <2>1. IsFiniteSet((s \ {y}) \ {c}) /\ (s \ {y}) \ {c} \in SUBSET S
    BY <1>1
  <2> QED
    BY <1>3, <1>4, <2>1, SumTyped
<1> DEFINE rest == SumFunctionOnSet(f, (s \ {y}) \ {c})
<1>12. /\ SumFunctionOnSet(f, s) = f[c] + SumFunctionOnSet(f, s \ {c})
       /\ SumFunctionOnSet(f, s \ {c}) = f[y] + rest
       /\ SumFunctionOnSet(f, s \ {y}) = f[c] + rest
  BY <1>5, <1>9, <1>10
<1>13. rest \in Int
  BY <1>11
<1> HIDE DEF rest
<1>14. SumFunctionOnSet(f, s) = f[y] + SumFunctionOnSet(f, s \ {y})
  BY <1>11, <1>12, <1>13
<1> QED
  BY <1>3, <1>14

\* Where every summand is at most another's, so is the sum.
LEMMA SumAtMost ==
    ASSUME NEW S, IsFiniteSet(S), NEW f, NEW g,
           \A x \in S : f[x] \in Int /\ g[x] \in Int /\ f[x] <= g[x]
    PROVE  SumFunctionOnSet(f, S) <= SumFunctionOnSet(g, S)
<1> DEFINE C == {s \in SUBSET S : ~(SumFunctionOnSet(f, s) <= SumFunctionOnSet(g, s))}
<1> SUFFICES ASSUME C # {}
             PROVE  FALSE
  OBVIOUS
<1>1. \A s \in SUBSET S : IsFiniteSet(s)
  BY FS_Subset
<1>2. PICK s \in C : \A r \in C : Cardinality(s) <= Cardinality(r)
  BY <1>1, LeastSetExists
<1> DEFINE c == Chosen(s)
<1>3. /\ SumFunctionOnSet(f, s) = IF s = {} THEN 0 ELSE f[c] + SumFunctionOnSet(f, s \ {c})
      /\ SumFunctionOnSet(g, s) = IF s = {} THEN 0 ELSE g[c] + SumFunctionOnSet(g, s \ {c})
  BY <1>1, SumUnfolds
<1>4. s # {}
  BY <1>2, <1>3
<1>5. /\ Cardinality(s) \in Nat /\ Cardinality(s \ {c}) = Cardinality(s) - 1
      /\ s \ {c} \in SUBSET S /\ c \in S
  BY <1>1, <1>4, ChosenRemoved
<1>6. s \ {c} \notin C
  BY <1>2, <1>5
<1>7. SumFunctionOnSet(f, s \ {c}) \in Int /\ SumFunctionOnSet(g, s \ {c}) \in Int
  BY <1>1, <1>5, SumTyped
<1>8. f[c] \in Int /\ g[c] \in Int /\ f[c] <= g[c]
  BY <1>5
<1>9. SumFunctionOnSet(f, s \ {c}) <= SumFunctionOnSet(g, s \ {c})
  BY <1>5, <1>6
<1> HIDE DEF c
<1>10. SumFunctionOnSet(f, s) <= SumFunctionOnSet(g, s)
  BY <1>3, <1>4, <1>7, <1>8, <1>9
<1> QED
  BY <1>2, <1>10

\* A sum depends on its summands only.
LEMMA SumCongruent ==
    ASSUME NEW S, IsFiniteSet(S), NEW f, NEW g, \A x \in S : f[x] \in Int /\ f[x] = g[x]
    PROVE  SumFunctionOnSet(f, S) = SumFunctionOnSet(g, S)
<1>1. /\ SumFunctionOnSet(f, S) <= SumFunctionOnSet(g, S)
      /\ SumFunctionOnSet(g, S) <= SumFunctionOnSet(f, S)
  BY SumAtMost
<1>2. SumFunctionOnSet(f, S) \in Int /\ SumFunctionOnSet(g, S) \in Int
  BY SumTyped
<1> QED
  BY <1>1, <1>2

\* One summand changes.
LEMMA SumChanges ==
    ASSUME NEW S, IsFiniteSet(S), NEW f, NEW g, NEW x \in S,
           \A y \in S : f[y] \in Int /\ g[y] \in Int /\ (y # x => f[y] = g[y])
    PROVE  SumFunctionOnSet(g, S) = SumFunctionOnSet(f, S) - f[x] + g[x]
<1>1. IsFiniteSet(S \ {x})
  BY FS_Subset
<1>2. SumFunctionOnSet(f, S \ {x}) = SumFunctionOnSet(g, S \ {x})
  BY <1>1, SumCongruent
<1>3. SumFunctionOnSet(f, S \ {x}) \in Int /\ f[x] \in Int /\ g[x] \in Int
  BY <1>1, SumTyped
<1>4. /\ SumFunctionOnSet(f, S) = f[x] + SumFunctionOnSet(f, S \ {x})
      /\ SumFunctionOnSet(g, S) = g[x] + SumFunctionOnSet(g, S \ {x})
  BY SumRemoves
<1> QED
  BY <1>2, <1>3, <1>4

\* Nothing adds up to nothing.
LEMMA SumOfZeroes ==
    ASSUME NEW S, IsFiniteSet(S), NEW f, \A x \in S : f[x] = 0
    PROVE  SumFunctionOnSet(f, S) = 0
<1> DEFINE C == {s \in SUBSET S : SumFunctionOnSet(f, s) # 0}
<1> SUFFICES ASSUME C # {}
             PROVE  FALSE
  OBVIOUS
<1>1. \A s \in SUBSET S : IsFiniteSet(s)
  BY FS_Subset
<1>2. PICK s \in C : \A r \in C : Cardinality(s) <= Cardinality(r)
  BY <1>1, LeastSetExists
<1>3. SumFunctionOnSet(f, s) =
        IF s = {} THEN 0 ELSE f[Chosen(s)] + SumFunctionOnSet(f, s \ {Chosen(s)})
  BY <1>1, SumUnfolds
<1>4. s # {}
  BY <1>2, <1>3
<1>5. /\ Cardinality(s) \in Nat /\ Cardinality(s \ {Chosen(s)}) = Cardinality(s) - 1
      /\ s \ {Chosen(s)} \in SUBSET S /\ Chosen(s) \in S
  BY <1>1, <1>4, ChosenRemoved
<1>6. s \ {Chosen(s)} \notin C
  BY <1>2, <1>5
<1>7. SumFunctionOnSet(f, s \ {Chosen(s)}) = 0 /\ f[Chosen(s)] = 0
  BY <1>5, <1>6
<1> QED
  BY <1>2, <1>3, <1>4, <1>7

\* What is never negative adds up to no less than any of it.
LEMMA SumAtLeast ==
    ASSUME NEW S, IsFiniteSet(S), NEW f, \A x \in S : f[x] \in Nat
    PROVE  /\ SumFunctionOnSet(f, S) \in Nat
           /\ \A x \in S : f[x] <= SumFunctionOnSet(f, S)
<1> DEFINE zero == [x \in S |-> 0]
<1>1. \A T \in SUBSET S : SumFunctionOnSet(zero, T) = 0 /\ IsFiniteSet(T)
  <2>1. \A T \in SUBSET S : IsFiniteSet(T) /\ \A x \in T : zero[x] = 0
    BY FS_Subset
  <2> HIDE DEF zero
  <2> QED
    BY <2>1, SumOfZeroes
<1>2. ASSUME NEW T \in SUBSET S
      PROVE  SumFunctionOnSet(f, T) \in Nat
  <2>1. SumFunctionOnSet(zero, T) <= SumFunctionOnSet(f, T)
    <3>1. \A x \in T : zero[x] \in Int /\ f[x] \in Int /\ zero[x] <= f[x]
      OBVIOUS
    <3> HIDE DEF zero
    <3> QED
      BY <1>1, <3>1, SumAtMost
  <2>2. SumFunctionOnSet(f, T) \in Int
    BY <1>1, SumTyped
  <2>3. SumFunctionOnSet(zero, T) = 0
    BY <1>1
  <2> QED
    BY <2>1, <2>2, <2>3
<1>3. ASSUME NEW x \in S
      PROVE  f[x] <= SumFunctionOnSet(f, S)
  <2>1. SumFunctionOnSet(f, S) = f[x] + SumFunctionOnSet(f, S \ {x})
    BY SumRemoves
  <2>2. SumFunctionOnSet(f, S \ {x}) \in Nat /\ f[x] \in Nat
    BY <1>2
  <2> QED
    BY <2>1, <2>2
<1> QED
  BY <1>2, <1>3

\* What is added up over a part is part of the sum.
LEMMA SumOfPartAtMost ==
    ASSUME NEW S, IsFiniteSet(S), NEW T \in SUBSET S, NEW f, \A x \in S : f[x] \in Nat
    PROVE  SumFunctionOnSet(f, T) <= SumFunctionOnSet(f, S)
<1> DEFINE C == {s \in SUBSET S : T \subseteq s
                                  /\ ~(SumFunctionOnSet(f, T) <= SumFunctionOnSet(f, s))}
<1> SUFFICES ASSUME C # {}
             PROVE  FALSE
  OBVIOUS
<1>1. \A s \in SUBSET S : IsFiniteSet(s)
  BY FS_Subset
<1>2. PICK s \in C : \A r \in C : Cardinality(s) <= Cardinality(r)
  BY <1>1, LeastSetExists
<1>3. SumFunctionOnSet(f, T) \in Int
  BY <1>1, SumTyped
<1>4. PICK x \in s : x \notin T
  BY <1>2, <1>3
<1>5. /\ s \ {x} \in SUBSET S /\ T \subseteq s \ {x}
      /\ Cardinality(s) \in Nat /\ Cardinality(s \ {x}) = Cardinality(s) - 1
  BY <1>1, <1>4, FS_RemoveElement, FS_CardinalityType
<1>6. SumFunctionOnSet(f, T) <= SumFunctionOnSet(f, s \ {x})
  BY <1>2, <1>5
<1>7. SumFunctionOnSet(f, s) = f[x] + SumFunctionOnSet(f, s \ {x})
  BY <1>1, <1>4, SumRemoves
<1>8. SumFunctionOnSet(f, s \ {x}) \in Int /\ f[x] \in Nat
  BY <1>1, <1>5, SumTyped
<1>9. SumFunctionOnSet(f, T) <= SumFunctionOnSet(f, s)
  BY <1>3, <1>6, <1>7, <1>8
<1> QED
  BY <1>2, <1>9
=============================================================================
