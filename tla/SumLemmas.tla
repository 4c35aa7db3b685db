------------------------------ MODULE SumLemmas ------------------------------
(***************************************************************************)
(* Induction over an interval of the integers, and what the community      *)
(* modules' SumFunctionOnSet does when an element is added to the set or   *)
(* the function changes at a point.                                        *)
(***************************************************************************)
EXTENDS Integers, Functions, FiniteSetTheorems, WellFoundedInduction, TLAPS

LEMMA IntervalInduction ==
  ASSUME NEW N \in Nat, NEW T, 0 \in T, \A n \in 1 .. N : n - 1 \in T => n \in T
  PROVE  \A n \in 0 .. N : n \in T
<1> DEFINE Rest == {n \in 0 .. N : n \notin T}
<1> SUFFICES ASSUME Rest # {} PROVE FALSE
  OBVIOUS
<1>1. Rest \subseteq Nat
  OBVIOUS
<1> HIDE DEF Rest
<1>2. PICK m \in Rest : \A k \in Rest : <<k, m>> \notin OpToRel(<, Nat)
  BY <1>1, NatLessThanWellFounded, WFMin
<1>3. m \in 1 .. N
  BY DEF Rest
<1>4. <<m - 1, m>> \in OpToRel(<, Nat)
  BY <1>3 DEF OpToRel
<1>5. m - 1 \notin Rest
  BY <1>2, <1>4
<1> QED
  BY <1>3, <1>5 DEF Rest

(* --- The fold ---------------------------------------------------------- *)

AnyOf(s) == CHOOSE x \in s : TRUE

\* h is the fold's own function, on the sets of D, and on the subsets of S.
IsFoldOn(h, f, D) ==
  h = [s \in D |-> IF s = {} THEN 0 ELSE f[AnyOf(s)] + h[s \ {AnyOf(s)}]]

IsFold(h, f, S) == IsFoldOn(h, f, SUBSET S)

LEMMA AnyOfType == ASSUME NEW s, s # {} PROVE AnyOf(s) \in s
  BY DEF AnyOf

\* The finite sets with at most n elements among those of S
Sized(S, n) == {s \in SUBSET S : Cardinality(s) <= n}

LEMMA SizedFacts ==
  ASSUME NEW S, IsFiniteSet(S)
  PROVE  /\ Cardinality(S) \in Nat
         /\ Sized(S, Cardinality(S)) = SUBSET S
         /\ \A s \in SUBSET S : IsFiniteSet(s) /\ Cardinality(s) \in Nat
         /\ \A s \in Sized(S, 0) : s = {}
         /\ {} \in Sized(S, 0)
         /\ \A n \in Nat : \A s \in Sized(S, n) : \A x \in s :
               n - 1 \in Nat /\ s \ {x} \in Sized(S, n - 1) /\ IsFiniteSet(s \ {x})
<1>1. Cardinality(S) \in Nat
  BY FS_CardinalityType
<1>2. \A s \in SUBSET S :
        IsFiniteSet(s) /\ Cardinality(s) \in Nat /\ Cardinality(s) <= Cardinality(S)
  BY FS_Subset, FS_CardinalityType
<1>3. Sized(S, Cardinality(S)) = SUBSET S
  BY <1>2 DEF Sized
<1>4. \A s \in Sized(S, 0) : s = {}
  BY <1>2, FS_EmptySet DEF Sized
<1>5. {} \in Sized(S, 0)
  BY FS_EmptySet DEF Sized
<1>6. ASSUME NEW n \in Nat, NEW s \in Sized(S, n), NEW x \in s
      PROVE  n - 1 \in Nat /\ s \ {x} \in Sized(S, n - 1) /\ IsFiniteSet(s \ {x})
  <2>1. IsFiniteSet(s) /\ Cardinality(s) \in Nat /\ Cardinality(s) <= n /\ s \in SUBSET S
    BY <1>2 DEF Sized
  <2>2. IsFiniteSet(s \ {x}) /\ Cardinality(s \ {x}) = Cardinality(s) - 1
    BY <2>1, FS_RemoveElement
  <2>3. Cardinality(s \ {x}) \in Nat
    BY <2>2, FS_CardinalityType
  <2> QED
    BY <2>1, <2>2, <2>3 DEF Sized
<1> QED
  BY <1>1, <1>2, <1>3, <1>4, <1>5, <1>6

LEMMA FoldExists ==
  ASSUME NEW f, NEW S, IsFiniteSet(S)
  PROVE  \E h : IsFold(h, f, S)
<1> DEFINE T == {n \in Nat : \E h : IsFoldOn(h, f, Sized(S, n))}
<1>1. 0 \in T
  <2> DEFINE h == [s \in Sized(S, 0) |-> 0]
  <2>1. IsFoldOn(h, f, Sized(S, 0))
    BY SizedFacts DEF IsFold, IsFoldOn
  <2> QED
    BY <2>1
<1>2. ASSUME NEW n \in 1 .. Cardinality(S), n - 1 \in T
      PROVE  n \in T
  <2>1. PICK h : IsFoldOn(h, f, Sized(S, n - 1))
    BY <1>2
  <2> DEFINE h2 == [s \in Sized(S, n) |->
                      IF s = {} THEN 0 ELSE f[AnyOf(s)] + h[s \ {AnyOf(s)}]]
  <2>2. n \in Nat /\ n - 1 \in Nat
    BY SizedFacts
  <2>3. \A s \in Sized(S, n) : s # {} => s \ {AnyOf(s)} \in Sized(S, n - 1)
    BY <2>2, SizedFacts, AnyOfType
  <2>4. \A s \in Sized(S, n - 1) : s \in Sized(S, n) /\ h2[s] = h[s]
    <3>1. \A s \in Sized(S, n - 1) : s \in Sized(S, n)
      BY <2>2, SizedFacts DEF Sized
    <3>2. \A s \in Sized(S, n - 1) :
            h[s] = IF s = {} THEN 0 ELSE f[AnyOf(s)] + h[s \ {AnyOf(s)}]
      BY <2>1 DEF IsFold, IsFoldOn
    <3> QED
      BY <3>1, <3>2
  <2>5. IsFoldOn(h2, f, Sized(S, n))
    BY <2>3, <2>4 DEF IsFold, IsFoldOn
  <2> QED
    BY <2>2, <2>5
<1> HIDE DEF T
<1>3. \A n \in 0 .. Cardinality(S) : n \in T
  BY <1>1, <1>2, IntervalInduction, SizedFacts
<1>4. Cardinality(S) \in T
  BY <1>3, SizedFacts
<1>5. \E h : IsFoldOn(h, f, Sized(S, Cardinality(S)))
  BY <1>4 DEF T
<1>6. Sized(S, Cardinality(S)) = SUBSET S
  BY SizedFacts
<1> QED
  BY <1>5, <1>6 DEF IsFold

\* The order in which the fold takes the elements does not matter.
LEMMA FoldTakesAny ==
  ASSUME NEW f, NEW S, IsFiniteSet(S), \A x \in S : f[x] \in Int,
         NEW h, IsFold(h, f, S)
  PROVE  \A s \in SUBSET S : h[s] \in Int /\ \A x \in s : h[s] = f[x] + h[s \ {x}]
<1> DEFINE T == {n \in Nat : \A s \in Sized(S, n) :
                    h[s] \in Int /\ \A x \in s : h[s] = f[x] + h[s \ {x}]}
<1>0. \A s \in SUBSET S :
        h[s] = IF s = {} THEN 0 ELSE f[AnyOf(s)] + h[s \ {AnyOf(s)}]
  BY DEF IsFold, IsFoldOn
<1>1. 0 \in T
  <2>2. \A s \in Sized(S, 0) : s = {} /\ s \in SUBSET S
    BY SizedFacts DEF Sized
  <2>3. 0 \in Nat /\ \A s \in Sized(S, 0) : h[s] \in Int
    <3> SUFFICES ASSUME NEW s \in Sized(S, 0) PROVE h[s] = 0
      OBVIOUS
    <3> QED
      BY <1>0, <2>2
  <2>4. \A s \in Sized(S, 0) : \A x \in s : h[s] = f[x] + h[s \ {x}]
    BY <2>2
  <2> QED
    BY <2>3, <2>4
<1>2. ASSUME NEW n \in 1 .. Cardinality(S), n - 1 \in T
      PROVE  n \in T
  <2>1. n \in Nat
    BY SizedFacts
  <2>2. ASSUME NEW s \in Sized(S, n), s # {}
        PROVE  h[s] \in Int /\ \A x \in s : h[s] = f[x] + h[s \ {x}]
    <3> DEFINE c == AnyOf(s)
    <3>1. c \in s /\ s \in SUBSET S
      BY <2>2, AnyOfType DEF Sized
    <3>2. \A x \in s : s \ {x} \in Sized(S, n - 1)
      BY <2>1, SizedFacts
    <3>3. h[s] = f[c] + h[s \ {c}]
      BY <2>2, <3>1, <1>0
    <3> HIDE DEF c
    <3>4. \A x \in s : /\ h[s \ {x}] \in Int
                       /\ \A y \in s \ {x} : h[s \ {x}] = f[y] + h[(s \ {x}) \ {y}]
      BY <3>2, <1>2
    <3>5. h[s] \in Int
      <4>1. f[c] \in Int
        BY <3>1
      <4>2. h[s \ {c}] \in Int
        BY <3>1, <3>4
      <4> QED
        BY <3>3, <4>1, <4>2
    <3>6. ASSUME NEW x \in s, x # c PROVE h[s] = f[x] + h[s \ {x}]
      <4>1. h[s \ {c}] = f[x] + h[(s \ {c}) \ {x}]
        BY <3>1, <3>4, <3>6
      <4>2. h[s \ {x}] = f[c] + h[(s \ {x}) \ {c}]
        BY <3>1, <3>4, <3>6
      <4>3. (s \ {c}) \ {x} = (s \ {x}) \ {c}
        OBVIOUS
      <4>4. s \ {c} \in Sized(S, n - 1)
        BY <3>1, <3>2
      <4>5. n - 1 \in Nat /\ x \in s \ {c}
        BY <2>1, <3>6
      <4>6. (s \ {c}) \ {x} \in SUBSET S
        BY <3>1
      <4>7. f[x] \in Int /\ f[c] \in Int
        BY <3>1
      <4>8. h[(s \ {c}) \ {x}] \in Int
        <5>1. (s \ {c}) \ {x} \in Sized(S, n - 1)
          <6>1. (s \ {c}) \ {x} \in Sized(S, (n - 1) - 1) /\ (n - 1) - 1 \in Nat
            BY <4>4, <4>5, SizedFacts
          <6> QED
            BY <6>1, <4>6, SizedFacts, <2>1 DEF Sized
        <5> QED
          BY <5>1, <1>2
      <4>9. h[s] = f[c] + (f[x] + h[(s \ {c}) \ {x}])
        BY <3>3, <4>1
      <4>10. h[s \ {x}] = f[c] + h[(s \ {c}) \ {x}]
        BY <4>2, <4>3
      <4> QED
        BY <4>7, <4>8, <4>9, <4>10
    <3> QED
      BY <3>3, <3>5, <3>6
  <2>3. ASSUME NEW s \in Sized(S, n), s = {} PROVE h[s] \in Int
    <3>1. h[{}] = 0
      BY <1>0
    <3> QED
      BY <2>3, <3>1
  <2> QED
    BY <2>1, <2>2, <2>3
<1> HIDE DEF T
<1>3. \A n \in 0 .. Cardinality(S) : n \in T
  BY <1>1, <1>2, IntervalInduction, SizedFacts
<1>4. Cardinality(S) \in T
  BY <1>3, SizedFacts
<1>5. \A s \in Sized(S, Cardinality(S)) :
        h[s] \in Int /\ \A x \in s : h[s] = f[x] + h[s \ {x}]
  BY <1>4 DEF T
<1>6. Sized(S, Cardinality(S)) = SUBSET S
  BY SizedFacts
<1> QED
  BY <1>5, <1>6

(* --- The sum ----------------------------------------------------------- *)

LEMMA SumIsFold ==
  ASSUME NEW f, NEW S, IsFiniteSet(S)
  PROVE  \E h : IsFold(h, f, S) /\ SumFunctionOnSet(f, S) = h[S]
<1> DEFINE F == CHOOSE h : h = [s \in SUBSET S |->
                  IF s = {} THEN 0 ELSE f[AnyOf(s)] + h[s \ {AnyOf(s)}]]
<1>1. \E h : IsFold(h, f, S)
  BY FoldExists
<1>2. IsFold(F, f, S)
  BY <1>1 DEF IsFold, IsFoldOn
<1>3. SumFunctionOnSet(f, S) = F[S]
  BY DEF SumFunctionOnSet, FoldFunctionOnSet, MapThenFoldSet, AnyOf
<1> QED
  BY <1>2, <1>3

LEMMA SumOfNone == ASSUME NEW f PROVE SumFunctionOnSet(f, {}) = 0
<1>1. IsFiniteSet({})
  BY FS_EmptySet
<1>2. PICK h : IsFold(h, f, {}) /\ SumFunctionOnSet(f, {}) = h[{}]
  BY <1>1, SumIsFold
<1> QED
  BY <1>2 DEF IsFold, IsFoldOn

\* The fold over a larger set sums every part of it.
LEMMA SumOfPart ==
  ASSUME NEW f, NEW S, IsFiniteSet(S), NEW h, IsFold(h, f, S)
  PROVE  \A R \in SUBSET S : h[R] = SumFunctionOnSet(f, R)
<1> SUFFICES ASSUME NEW R \in SUBSET S PROVE h[R] = SumFunctionOnSet(f, R)
  OBVIOUS
<1>0. IsFiniteSet(R)
  BY FS_Subset
<1>1. PICK h2 : IsFold(h2, f, R) /\ SumFunctionOnSet(f, R) = h2[R]
  BY <1>0, SumIsFold
<1> DEFINE T == {n \in Nat : \A s \in Sized(R, n) : h[s] = h2[s]}
<1>2. \A s \in SUBSET R :
        /\ h[s] = IF s = {} THEN 0 ELSE f[AnyOf(s)] + h[s \ {AnyOf(s)}]
        /\ h2[s] = IF s = {} THEN 0 ELSE f[AnyOf(s)] + h2[s \ {AnyOf(s)}]
  BY <1>1 DEF IsFold, IsFoldOn
<1>3. 0 \in T
  BY <1>2, <1>0, SizedFacts DEF Sized
<1>4. ASSUME NEW n \in 1 .. Cardinality(R), n - 1 \in T
      PROVE  n \in T
  <2>1. n \in Nat
    BY <1>0, SizedFacts
  <2>2. ASSUME NEW s \in Sized(R, n), s # {} PROVE h[s] = h2[s]
    <3>1. AnyOf(s) \in s /\ s \in SUBSET R
      BY <2>2, AnyOfType DEF Sized
    <3>2. s \ {AnyOf(s)} \in Sized(R, n - 1)
      BY <2>1, <3>1, <1>0, SizedFacts
    <3>3. h[s \ {AnyOf(s)}] = h2[s \ {AnyOf(s)}]
      BY <3>2, <1>4
    <3> QED
      BY <2>2, <3>1, <3>3, <1>2
  <2>3. \A s \in Sized(R, n) : s = {} => h[s] = h2[s]
    BY <1>2
  <2> QED
    BY <2>1, <2>2, <2>3
<1> HIDE DEF T
<1>5. \A n \in 0 .. Cardinality(R) : n \in T
  BY <1>3, <1>4, IntervalInduction, <1>0, SizedFacts
<1>6. Cardinality(R) \in T
  BY <1>5, <1>0, SizedFacts
<1>7. h[R] = h2[R]
  BY <1>6, <1>0, SizedFacts DEF T
<1> QED
  BY <1>1, <1>7

\* Only the values on the set count.
LEMMA SumsAgree ==
  ASSUME NEW f, NEW g, NEW S, IsFiniteSet(S), \A x \in S : f[x] = g[x]
  PROVE  SumFunctionOnSet(f, S) = SumFunctionOnSet(g, S)
<1>1. PICK h : IsFold(h, f, S) /\ SumFunctionOnSet(f, S) = h[S]
  BY SumIsFold
<1>2. IsFold(h, f, S) /\ S \in SUBSET S
  BY <1>1
<1>3. \A s \in SUBSET S : s # {} => f[AnyOf(s)] = g[AnyOf(s)]
  BY AnyOfType
<1>4. IsFold(h, g, S)
  <2>1. [s \in SUBSET S |-> IF s = {} THEN 0 ELSE f[AnyOf(s)] + h[s \ {AnyOf(s)}]]
          = [s \in SUBSET S |-> IF s = {} THEN 0 ELSE g[AnyOf(s)] + h[s \ {AnyOf(s)}]]
    BY <1>3
  <2> QED
    BY <1>2, <2>1 DEF IsFold, IsFoldOn
<1>5. h[S] = SumFunctionOnSet(g, S)
  BY <1>4, SumOfPart
<1> QED
  BY <1>1, <1>2, <1>5

\* One element's value and the sum of the others
LEMMA SumWithout ==
  ASSUME NEW f, NEW S, IsFiniteSet(S), \A y \in S : f[y] \in Int
  PROVE  /\ SumFunctionOnSet(f, S) \in Int
         /\ \A x \in S :
              SumFunctionOnSet(f, S) = f[x] + SumFunctionOnSet(f, S \ {x})
<1>1. PICK h : IsFold(h, f, S) /\ SumFunctionOnSet(f, S) = h[S]
  BY SumIsFold
<1>2. IsFold(h, f, S) /\ S \in SUBSET S
  BY <1>1
<1>3. h[S] \in Int /\ \A x \in S : h[S] = f[x] + h[S \ {x}]
  BY <1>2, FoldTakesAny
<1>4. \A R \in SUBSET S : h[R] = SumFunctionOnSet(f, R)
  BY <1>2, SumOfPart
<1>5. \A x \in S : S \ {x} \in SUBSET S
  OBVIOUS
<1> QED
  BY <1>1, <1>3, <1>4, <1>5

LEMMA SumIsInt ==
  ASSUME NEW f, NEW S, IsFiniteSet(S), \A x \in S : f[x] \in Int
  PROVE  SumFunctionOnSet(f, S) \in Int
  BY SumWithout

\* The function changes at x alone.
LEMMA SumChangedAt ==
  ASSUME NEW f1, NEW f2, NEW S, IsFiniteSet(S), NEW x \in S,
         \A y \in S : f1[y] \in Int /\ f2[y] \in Int,
         \A y \in S \ {x} : f1[y] = f2[y]
  PROVE  SumFunctionOnSet(f2, S) = SumFunctionOnSet(f1, S) - f1[x] + f2[x]
<1>1. IsFiniteSet(S \ {x})
  BY FS_RemoveElement
<1>2. SumFunctionOnSet(f1, S \ {x}) = SumFunctionOnSet(f2, S \ {x})
  BY <1>1, SumsAgree
<1>3. SumFunctionOnSet(f1, S \ {x}) \in Int
  BY <1>1, SumIsInt
<1>4. SumFunctionOnSet(f1, S) = f1[x] + SumFunctionOnSet(f1, S \ {x})
  BY SumWithout
<1>5. SumFunctionOnSet(f2, S) = f2[x] + SumFunctionOnSet(f2, S \ {x})
  BY SumWithout
<1> QED
  BY <1>2, <1>3, <1>4, <1>5

LEMMA SumOfZeros ==
  ASSUME NEW f, NEW S, IsFiniteSet(S), \A x \in S : f[x] = 0
  PROVE  SumFunctionOnSet(f, S) = 0
<1> DEFINE T == {n \in Nat : \A s \in Sized(S, n) : SumFunctionOnSet(f, s) = 0}
<1>1. 0 \in T
  BY SizedFacts, SumOfNone
<1>2. ASSUME NEW n \in 1 .. Cardinality(S), n - 1 \in T
      PROVE  n \in T
  <2>1. n \in Nat
    BY SizedFacts
  <2>2. ASSUME NEW s \in Sized(S, n), NEW x \in s PROVE SumFunctionOnSet(f, s) = 0
    <3>1. IsFiniteSet(s) /\ s \subseteq S
      BY SizedFacts DEF Sized
    <3>2. SumFunctionOnSet(f, s \ {x}) = 0
      BY <1>2, <2>1, SizedFacts
    <3>3. SumFunctionOnSet(f, s) = f[x] + SumFunctionOnSet(f, s \ {x})
      BY <3>1, SumWithout
    <3> QED
      BY <3>1, <3>2, <3>3
  <2> QED
    BY <2>1, <2>2, SumOfNone
<1> HIDE DEF T
<1>3. \A n \in 0 .. Cardinality(S) : n \in T
  BY <1>1, <1>2, IntervalInduction, SizedFacts
<1> QED
  BY <1>3, SizedFacts DEF T

\* A sum of natural numbers is at least each of them.
LEMMA SumOfNats ==
  ASSUME NEW f, NEW S, IsFiniteSet(S), \A x \in S : f[x] \in Nat
  PROVE  /\ SumFunctionOnSet(f, S) \in Nat
         /\ \A x \in S : f[x] <= SumFunctionOnSet(f, S)
<1> DEFINE T == {n \in Nat : \A s \in Sized(S, n) : SumFunctionOnSet(f, s) \in Nat}
<1>1. 0 \in T
  BY SizedFacts, SumOfNone
<1>2. ASSUME NEW n \in 1 .. Cardinality(S), n - 1 \in T
      PROVE  n \in T
  <2>1. n \in Nat
    BY SizedFacts
  <2>2. ASSUME NEW s \in Sized(S, n), NEW x \in s PROVE SumFunctionOnSet(f, s) \in Nat
    <3>1. IsFiniteSet(s) /\ s \subseteq S
      BY SizedFacts DEF Sized
    <3>2. SumFunctionOnSet(f, s \ {x}) \in Nat
      BY <1>2, <2>1, SizedFacts
    <3>3. SumFunctionOnSet(f, s) = f[x] + SumFunctionOnSet(f, s \ {x})
      BY <3>1, SumWithout
    <3> QED
      BY <3>1, <3>2, <3>3
  <2> QED
    BY <2>1, <2>2, SumOfNone
<1> HIDE DEF T
<1>3. \A n \in 0 .. Cardinality(S) : n \in T
  BY <1>1, <1>2, IntervalInduction, SizedFacts
<1>4. \A s \in SUBSET S : SumFunctionOnSet(f, s) \in Nat
  BY <1>3, SizedFacts DEF T
<1>5. ASSUME NEW x \in S PROVE f[x] <= SumFunctionOnSet(f, S)
  <2>1. SumFunctionOnSet(f, S) = f[x] + SumFunctionOnSet(f, S \ {x})
    BY SumWithout
  <2> QED
    BY <1>4, <2>1
<1> QED
  BY <1>4, <1>5

\* A statement about the parts of a finite set, built up an element at a time
LEMMA PartsInduction ==
  ASSUME NEW S, IsFiniteSet(S), NEW T, {} \in T,
         \A s \in SUBSET S : \A x \in s : s \ {x} \in T => s \in T
  PROVE  S \in T
<1> DEFINE I == {n \in Nat : Sized(S, n) \subseteq T}
<1>1. 0 \in I
  BY SizedFacts
<1>2. ASSUME NEW n \in 1 .. Cardinality(S), n - 1 \in I PROVE n \in I
  <2>1. n \in Nat
    BY SizedFacts
  <2>2. ASSUME NEW s \in Sized(S, n), NEW x \in s PROVE s \in T
    <3>1. s \in SUBSET S
      BY DEF Sized
    <3>2. s \ {x} \in T
      BY <1>2, <2>1, SizedFacts
    <3> QED
      BY <3>1, <3>2
  <2> QED
    BY <2>1, <2>2
<1> HIDE DEF I
<1>3. \A n \in 0 .. Cardinality(S) : n \in I
  BY <1>1, <1>2, IntervalInduction, SizedFacts
<1>4. Cardinality(S) \in 0 .. Cardinality(S) /\ S \in Sized(S, Cardinality(S))
  BY SizedFacts
<1> QED
  BY <1>3, <1>4 DEF I

\* Sums add, and a factor may be taken out of one.
LEMMA SumIsLinear ==
  ASSUME NEW f, NEW g, NEW h, NEW c \in Int, NEW S, IsFiniteSet(S),
         \A x \in S : g[x] \in Int /\ h[x] \in Int /\ f[x] = g[x] + c * h[x]
  PROVE  SumFunctionOnSet(f, S) = SumFunctionOnSet(g, S) + c * SumFunctionOnSet(h, S)
<1> DEFINE F(s) == SumFunctionOnSet(f, s)
           G(s) == SumFunctionOnSet(g, s)
           H(s) == SumFunctionOnSet(h, s)
           T == {s \in SUBSET S : F(s) = G(s) + c * H(s)}
<1>1. \A x \in S : f[x] \in Int
  <2>1. \A y \in Int : c * y \in Int
    OBVIOUS
  <2> QED
    BY <2>1
<1>2. {} \in T
  <2>1. F({}) = 0 /\ G({}) = 0 /\ H({}) = 0
    BY SumOfNone
  <2> HIDE DEF F, G, H
  <2> QED
    BY <2>1
<1>3. ASSUME NEW s \in SUBSET S, NEW x \in s, s \ {x} \in T PROVE s \in T
  <2>1. IsFiniteSet(s) /\ IsFiniteSet(s \ {x}) /\ x \in S
    BY FS_Subset
  <2>2. F(s) = f[x] + F(s \ {x}) /\ G(s) = g[x] + G(s \ {x}) /\ H(s) = h[x] + H(s \ {x})
    BY <1>1, <2>1, SumWithout
  <2>3. G(s \ {x}) \in Int /\ H(s \ {x}) \in Int
    BY <2>1, SumIsInt
  <2>4. F(s \ {x}) = G(s \ {x}) + c * H(s \ {x})
    BY <1>3
  <2> HIDE DEF F, G, H
  <2>5. \A a, b \in Int : c * (a + b) = c * a + c * b /\ c * a \in Int
    OBVIOUS
  <2>6. /\ f[x] = g[x] + c * h[x] /\ g[x] \in Int /\ h[x] \in Int
        /\ c * (h[x] + H(s \ {x})) = c * h[x] + c * H(s \ {x})
        /\ c * h[x] \in Int /\ c * H(s \ {x}) \in Int
    BY <2>1, <2>3, <2>5
  <2>7. F(s) = G(s) + c * H(s)
    BY <2>2, <2>3, <2>4, <2>6
  <2> QED
    BY <2>7
<1>4. S \in T
  <2> HIDE DEF T
  <2> QED
    BY <1>2, <1>3, PartsInduction
<1> QED
  BY <1>4

\* A sum of small values that are zero outside a part of the set
LEMMA SumOfSmall ==
  ASSUME NEW f, NEW S, IsFiniteSet(S), NEW R \in SUBSET S, NEW d \in Nat,
         \A x \in S : f[x] \in 0 .. d, \A x \in S \ R : f[x] = 0
  PROVE  SumFunctionOnSet(f, S) \in 0 .. Cardinality(R) * d
<1> DEFINE F(s) == SumFunctionOnSet(f, s)
           card(s) == Cardinality(s \cap R)
           T == {s \in SUBSET S : F(s) \in 0 .. card(s) * d}
<1>1. \A x \in S : f[x] \in Int
  OBVIOUS
<1>2. {} \in T
  <2>1. F({}) = 0 /\ card({}) = 0
    BY SumOfNone, FS_EmptySet
  <2> HIDE DEF F, card
  <2> QED
    BY <2>1
<1>3. ASSUME NEW s \in SUBSET S, NEW x \in s, s \ {x} \in T PROVE s \in T
  <2>1. IsFiniteSet(s) /\ IsFiniteSet(s \cap R) /\ x \in S
    BY FS_Subset
  <2>2. F(s) = f[x] + F(s \ {x})
    BY <1>1, <2>1, SumWithout
  <2>3. F(s \ {x}) \in 0 .. card(s \ {x}) * d
    BY <1>3
  <2>4. card(s) \in Nat
    BY <2>1, FS_CardinalityType
  <2>5. CASE x \in R
    <3>1. (s \ {x}) \cap R = (s \cap R) \ {x} /\ x \in s \cap R
      BY <2>5
    <3>2. card(s \ {x}) = card(s) - 1
      <4>1. Cardinality((s \cap R) \ {x}) = Cardinality(s \cap R) - 1
        <5> DEFINE both == s \cap R
        <5>1. IsFiniteSet(both) /\ x \in both
          BY <2>1, <3>1
        <5> HIDE DEF both
        <5>2. Cardinality(both \ {x}) = Cardinality(both) - 1
          BY <5>1, FS_RemoveElement
        <5> QED
          BY <5>2 DEF both
      <4> QED
        BY <3>1, <4>1
    <3> HIDE DEF F, card
    <3>3. \A n \in Nat : (n - 1) * d + d = n * d /\ n * d \in Int /\ (n - 1) * d \in Int
      OBVIOUS
    <3>4. /\ card(s \ {x}) * d + d = card(s) * d
          /\ card(s) * d \in Int /\ card(s \ {x}) * d \in Int
      BY <2>4, <3>2, <3>3
    <3>5. f[x] \in 0 .. d
      BY <2>1
    <3> QED
      BY <2>2, <2>3, <3>4, <3>5
  <2>6. CASE x \notin R
    <3>1. (s \ {x}) \cap R = s \cap R /\ f[x] = 0
      BY <2>1, <2>6
    <3>2. card(s \ {x}) = card(s)
      BY <3>1
    <3> HIDE DEF F, card
    <3> QED
      BY <2>2, <2>3, <3>1, <3>2
  <2> QED
    BY <2>5, <2>6
<1>4. S \in T
  <2> HIDE DEF T
  <2> QED
    BY <1>2, <1>3, PartsInduction
<1>5. S \cap R = R
  OBVIOUS
<1> QED
  BY <1>4, <1>5

=============================================================================
