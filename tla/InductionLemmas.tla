-------------------------- MODULE InductionLemmas --------------------------
(***************************************************************************)
(* Induction, loops and sums for the proofs of the other modules.  An      *)
(* induction theorem that takes the property as an operator cannot be used *)
(* by the provers here, so the property is a set: of numbers, of numbers   *)
(* in an interval, or of sets.                                             *)
(***************************************************************************)
EXTENDS Integers, Functions, FiniteSetTheorems, WellFoundedInduction, TLAPS

(* A set of numbers has a least one. *)
LEMMA NatMin ==
  ASSUME NEW S, S \subseteq Nat, S # {}
  PROVE  \E m \in S : \A n \in S : m <= n
<1> DEFINE R == {p \in Nat \X Nat : p[1] < p[2]}
<1>1. IsWellFoundedOn(R, Nat)
  BY NatLessThanWellFounded DEF OpToRel
<1>2. \A n, m \in Nat : ~ (<<n, m>> \in R) => m <= n
  OBVIOUS
<1> HIDE DEF R
<1>3. \E m \in S : \A n \in S : ~ (<<n, m>> \in R)
  BY <1>1, WFMin
<1> QED BY <1>2, <1>3

(* Induction, with the property as a set. *)
LEMMA NatSetInduction ==
  ASSUME NEW S, 0 \in S, \A n \in Nat : n \in S => n + 1 \in S
  PROVE  Nat \subseteq S
<1> SUFFICES ASSUME Nat \ S # {} PROVE FALSE
  OBVIOUS
<1>1. PICK m \in Nat \ S : \A n \in Nat \ S : m <= n
  BY NatMin
<1>2. m # 0 /\ m - 1 \in Nat
  BY <1>1
<1>3. m - 1 \in S
  BY <1>1, <1>2
<1> QED BY <1>1, <1>2, <1>3

LEMMA SubsetInduction ==
  ASSUME NEW S, IsFiniteSet(S), NEW P, {} \in P,
         \A T \in SUBSET S : T # {} /\ (\A x \in T : T \ {x} \in P) => T \in P
  PROVE  SUBSET S \subseteq P
<1> DEFINE Upto == {n \in Nat : \A T \in SUBSET S : Cardinality(T) = n => T \in P}
<1>1. \A T \in SUBSET S : IsFiniteSet(T) /\ Cardinality(T) \in Nat
  BY FS_Subset, FS_CardinalityType
<1>2. 0 \in Upto
  BY <1>1, FS_EmptySet
<1>3. ASSUME NEW n \in Nat, n \in Upto PROVE n + 1 \in Upto
  <2>1. SUFFICES ASSUME NEW T \in SUBSET S, Cardinality(T) = n + 1 PROVE T \in P
    OBVIOUS
  <2>2. T # {}
    <3>1. Cardinality({}) = 0 /\ n + 1 # 0
      BY <1>3, FS_EmptySet
    <3> QED BY <2>1, <3>1
  <2>3. \A x \in T : T \ {x} \in SUBSET S /\ Cardinality(T \ {x}) = n
    BY <1>1, <2>1, FS_RemoveElement
  <2>4. \A x \in T : T \ {x} \in P
    BY <1>3, <2>3
  <2> QED BY <2>2, <2>4
<1>4. Nat \subseteq Upto
  <2> HIDE DEF Upto
  <2> QED BY <1>2, <1>3, NatSetInduction
<1> QED BY <1>1, <1>4

(* The same in an interval. *)
LEMMA IntervalInduction ==
  ASSUME NEW a \in Int, NEW b \in Int, NEW P, a \in P, \A j \in a..(b - 1) : j \in P => j + 1 \in P
  PROVE  \A j \in a..b : j \in P
<1> DEFINE S == {n \in Nat : a + n <= b => a + n \in P}
<1>1. 0 \in S
  OBVIOUS
<1>2. ASSUME NEW n \in Nat, n \in S PROVE n + 1 \in S
  <2>1. SUFFICES ASSUME a + (n + 1) <= b PROVE a + (n + 1) \in P
    OBVIOUS
  <2>2. a + n \in a..(b - 1) /\ (a + n) + 1 = a + (n + 1)
    BY <2>1
  <2>3. a + n \in P
    BY <1>2, <2>1
  <2>4. (a + n) + 1 \in P
    BY <2>2, <2>3
  <2> QED BY <2>2, <2>4
<1>3. Nat \subseteq S
  <2> HIDE DEF S
  <2> QED BY <1>1, <1>2, NatSetInduction
<1> SUFFICES ASSUME NEW j \in a..b PROVE j \in P
  OBVIOUS
<1>4. j - a \in Nat /\ a + (j - a) = j /\ j <= b
  OBVIOUS
<1>5. j - a \in S
  BY <1>3, <1>4
<1> QED BY <1>4, <1>5
----------------------------------------------------------------------------
(* Loops.  A recursive function over an interval is what its definition    *)
(* says: from base at a, by one step after another, within X.              *)
LoopSteps(X) == [X \X Int -> X]

LoopRuns(f, X, a, b, base, step) ==
  f \in [a..b -> X] /\ \A j \in a..b : f[j] = IF j = a THEN base ELSE step[<<f[j - 1], j>>]

LEMMA IntervalRecursion ==
  ASSUME NEW X, NEW a \in Int, NEW b \in Int, a <= b, NEW base \in X, NEW step \in LoopSteps(X)
  PROVE  \E f : LoopRuns(f, X, a, b, base, step)
<1> USE DEF LoopSteps, LoopRuns
<1> DEFINE Rule(f, c) == \A j \in a..c : f[j] = IF j = a THEN base ELSE step[<<f[j - 1], j>>]
           P == {c \in Int : \E f \in [a..c -> X] : Rule(f, c)}
<1>1. a \in P
  <2> DEFINE f == [j \in a..a |-> base]
  <2>1. f \in [a..a -> X] /\ Rule(f, a)
    OBVIOUS
  <2> HIDE DEF f, Rule
  <2> QED BY <2>1
<1>2. ASSUME NEW c \in a..(b - 1), c \in P PROVE c + 1 \in P
  <2>1. PICK f \in [a..c -> X] : Rule(f, c)
    BY <1>2
  <2> DEFINE last == step[<<f[c], c + 1>>]
             g == [j \in a..(c + 1) |-> IF j = c + 1 THEN last ELSE f[j]]
  <2>2. c \in Int /\ c \in a..c /\ f[c] \in X /\ c + 1 \in Int
    OBVIOUS
  <2>3. last \in X
    <3>1. <<f[c], c + 1>> \in X \X Int
      BY <2>2
    <3> QED BY <3>1
  <2>4. g \in [a..(c + 1) -> X]
    <3> HIDE DEF last
    <3> QED BY <2>2, <2>3
  <2>5. ASSUME NEW j \in a..(c + 1) PROVE g[j] = IF j = a THEN base ELSE step[<<g[j - 1], j>>]
    <3>1. CASE j = c + 1
      <4>1. g[j - 1] = f[c] /\ j # a /\ g[j] = last
        BY <2>2, <3>1
      <4> QED BY <3>1, <4>1
    <3>2. CASE j # c + 1
      <4>1. j \in a..c
        BY <2>2, <3>2
      <4>2. g[j] = f[j] /\ (j # a => g[j - 1] = f[j - 1])
        BY <2>2, <3>2, <4>1
      <4> QED BY <2>1, <4>1, <4>2
    <3> QED BY <3>1, <3>2
  <2>6. Rule(g, c + 1)
    <3> HIDE DEF g
    <3> QED BY <2>5
  <2> HIDE DEF g, Rule
  <2> QED BY <2>2, <2>4, <2>6
<1>3. b \in a..b
  OBVIOUS
<1>4. b \in P
  <2> HIDE DEF P
  <2> QED BY <1>1, <1>2, <1>3, IntervalInduction
<1> QED BY <1>4
----------------------------------------------------------------------------
(* Sums.  SumFunctionOnSet picks the elements of a set one after another;  *)
(* that the order does not matter is by induction on the set.              *)

FirstOf(s) == CHOOSE x \in s : TRUE

SumsUp(w, S, f) == f = [s \in SUBSET S |-> IF s = {} THEN 0 ELSE w[FirstOf(s)] + f[s \ {FirstOf(s)}]]

LEMMA FirstIn == ASSUME NEW s, s # {} PROVE FirstOf(s) \in s
  BY DEF FirstOf

LEMMA AdderExists ==
  ASSUME NEW w, NEW S, IsFiniteSet(S)
  PROVE  \E f : SumsUp(w, S, f)
<1> DEFINE Step(f, s) == IF s = {} THEN 0 ELSE w[FirstOf(s)] + f[s \ {FirstOf(s)}]
           Small(n) == {s \in SUBSET S : Cardinality(s) <= n}
           Upto == {n \in Nat : \E f : f = [s \in Small(n) |-> Step(f, s)]}
<1>1. \A s \in SUBSET S : /\ IsFiniteSet(s) /\ Cardinality(s) \in Nat
                          /\ Cardinality(s) = 0 <=> s = {}
                          /\ Cardinality(s) <= Cardinality(S)
                          /\ \A x \in s : Cardinality(s \ {x}) = Cardinality(s) - 1
  BY FS_Subset, FS_CardinalityType, FS_EmptySet, FS_RemoveElement
<1>2. 0 \in Upto
  <2> DEFINE f == [s \in Small(0) |-> 0]
  <2>1. \A s \in Small(0) : s = {}
    BY <1>1
  <2>2. f = [s \in Small(0) |-> Step(f, s)]
    BY <2>1
  <2> HIDE DEF f, Step, Small
  <2> QED BY <2>2
<1>3. ASSUME NEW n \in Nat, n \in Upto PROVE n + 1 \in Upto
  <2>1. PICK f : f = [s \in Small(n) |-> Step(f, s)]
    BY <1>3
  <2> DEFINE g == [s \in Small(n + 1) |-> Step(f, s)]
  <2>2. ASSUME NEW s \in Small(n + 1) PROVE g[s] = Step(g, s)
    <3>1. CASE s = {}
      BY <3>1
    <3>2. CASE s # {}
      <4> DEFINE r == s \ {FirstOf(s)}
      <4>1. r \in Small(n) /\ r \in Small(n + 1)
        BY <1>1, <2>2, <3>2, FirstIn
      <4>2. f[r] = Step(f, r)
        <5> HIDE DEF r, Step, Small
        <5> QED BY <2>1, <4>1
      <4>3. g[r] = Step(f, r)
        <5> HIDE DEF r, Step, Small
        <5> QED BY <4>1
      <4> QED BY <2>2, <3>2, <4>2, <4>3
    <3> QED BY <3>1, <3>2
  <2>3. g = [s \in Small(n + 1) |-> Step(g, s)]
    <3>1. \A s \in Small(n + 1) : g[s] = Step(g, s)
      BY <2>2
    <3>2. g = [s \in Small(n + 1) |-> g[s]]
      OBVIOUS
    <3> HIDE DEF g, Step, Small
    <3> QED BY <3>1, <3>2
  <2> HIDE DEF g, Step, Small
  <2> QED BY <1>3, <2>3
<1>4. Nat \subseteq Upto
  <2> HIDE DEF Upto
  <2> QED BY <1>2, <1>3, NatSetInduction
<1>5. Small(Cardinality(S)) = SUBSET S
  BY <1>1
<1>6. Cardinality(S) \in Nat
  BY FS_CardinalityType
<1>7. \E f : f = [s \in SUBSET S |-> Step(f, s)]
  <2> HIDE DEF Step, Small
  <2> QED BY <1>4, <1>5, <1>6
<1> QED BY <1>7 DEF SumsUp

LEMMA SumIs ==
  ASSUME NEW w, NEW S, IsFiniteSet(S)
  PROVE  \E f : SumsUp(w, S, f) /\ SumFunctionOnSet(w, S) = f[S]
<1>1. SumFunctionOnSet(w, S) = (CHOOSE f : SumsUp(w, S, f))[S]
  BY DEF SumFunctionOnSet, FoldFunctionOnSet, MapThenFoldSet, SumsUp, FirstOf
<1>2. \E f : SumsUp(w, S, f)
  BY AdderExists
<1> QED BY <1>1, <1>2

(* The sum of a part does not depend on the whole, nor on weights outside. *)
LEMMA AdderLocal ==
  ASSUME NEW v, NEW w, NEW S, NEW T, IsFiniteSet(T), T \subseteq S, NEW f, NEW g,
         SumsUp(v, S, f), SumsUp(w, T, g), \A x \in T : v[x] = w[x]
  PROVE  f[T] = g[T]
<1> DEFINE P == {s \in SUBSET T : f[s] = g[s]}
<1>1. \A s \in SUBSET T : /\ f[s] = IF s = {} THEN 0 ELSE v[FirstOf(s)] + f[s \ {FirstOf(s)}]
                          /\ g[s] = IF s = {} THEN 0 ELSE w[FirstOf(s)] + g[s \ {FirstOf(s)}]
  BY DEF SumsUp
<1>2. {} \in P
  BY <1>1
<1>3. ASSUME NEW s \in SUBSET T, s # {}, \A x \in s : s \ {x} \in P PROVE s \in P
  BY <1>1, <1>3, FirstIn
<1>4. SUBSET T \subseteq P
  <2> HIDE DEF P
  <2> QED BY <1>2, <1>3, SubsetInduction
<1> QED BY <1>4

LEMMA SumSame ==
  ASSUME NEW v, NEW w, NEW S, IsFiniteSet(S), \A x \in S : v[x] = w[x]
  PROVE  SumFunctionOnSet(v, S) = SumFunctionOnSet(w, S)
<1>1. PICK f : SumsUp(v, S, f) /\ SumFunctionOnSet(v, S) = f[S]
  BY SumIs
<1>2. PICK g : SumsUp(w, S, g) /\ SumFunctionOnSet(w, S) = g[S]
  BY SumIs
<1> QED BY <1>1, <1>2, AdderLocal

LEMMA SumRest ==
  ASSUME NEW w, NEW S, IsFiniteSet(S)
  PROVE  SumFunctionOnSet(w, S) =
           IF S = {} THEN 0 ELSE w[FirstOf(S)] + SumFunctionOnSet(w, S \ {FirstOf(S)})
<1> DEFINE r == S \ {FirstOf(S)}
<1>1. PICK f : SumsUp(w, S, f) /\ SumFunctionOnSet(w, S) = f[S]
  BY SumIs
<1>2. IsFiniteSet(r)
  BY FS_Subset
<1>3. PICK g : SumsUp(w, r, g) /\ SumFunctionOnSet(w, r) = g[r]
  BY <1>2, SumIs
<1>4. f[r] = g[r]
  BY <1>1, <1>2, <1>3, AdderLocal
<1>5. f[S] = IF S = {} THEN 0 ELSE w[FirstOf(S)] + f[r]
  BY <1>1 DEF SumsUp
<1> QED BY <1>1, <1>3, <1>4, <1>5

(* Any element can be taken out of the sum. *)
LEMMA SumOfNats ==
  ASSUME NEW w, NEW S, IsFiniteSet(S), \A x \in S : w[x] \in Nat
  PROVE  /\ SumFunctionOnSet(w, S) \in Nat
         /\ \A x \in S : SumFunctionOnSet(w, S) = w[x] + SumFunctionOnSet(w, S \ {x})
<1> DEFINE Sum(T) == SumFunctionOnSet(w, T)
           N == {T \in SUBSET S : Sum(T) \in Nat}
           P == {T \in SUBSET S : \A x \in T : Sum(T) = w[x] + Sum(T \ {x})}
<1>1. \A T \in SUBSET S : Sum(T) = IF T = {} THEN 0 ELSE w[FirstOf(T)] + Sum(T \ {FirstOf(T)})
  BY FS_Subset, SumRest
<1> HIDE DEF Sum
<1>2. \A T \in SUBSET S : Sum(T) \in Nat
  <2>1. {} \in N
    BY <1>1
  <2>2. ASSUME NEW T \in SUBSET S, T # {}, \A x \in T : T \ {x} \in N PROVE T \in N
    <3>1. FirstOf(T) \in T /\ Sum(T \ {FirstOf(T)}) \in Nat /\ w[FirstOf(T)] \in Nat
      BY <2>2, FirstIn
    <3> QED BY <1>1, <2>2, <3>1
  <2>3. SUBSET S \subseteq N
    <3> HIDE DEF N
    <3> QED BY <2>1, <2>2, SubsetInduction
  <2> QED BY <2>3
<1>3. {} \in P
  OBVIOUS
<1>4. ASSUME NEW T \in SUBSET S, T # {}, \A x \in T : T \ {x} \in P PROVE T \in P
  <2> DEFINE c == FirstOf(T)
  <2>1. c \in T /\ T \ {c} \in P /\ w[c] \in Nat
    BY <1>4, FirstIn
  <2>2. Sum(T) = w[c] + Sum(T \ {c})
    BY <1>1, <1>4
  <2> HIDE DEF c
  <2>3. ASSUME NEW x \in T, x # c PROVE Sum(T) = w[x] + Sum(T \ {x})
    <3> DEFINE r == (T \ {c}) \ {x}
    <3>1. Sum(T \ {c}) = w[x] + Sum(r)
      BY <2>1, <2>3
    <3>2. Sum(T \ {x}) = w[c] + Sum((T \ {x}) \ {c})
      BY <1>4, <2>1, <2>3
    <3>3. (T \ {x}) \ {c} = r /\ r \in SUBSET S /\ w[x] \in Nat
      BY <2>3
    <3>4. Sum(r) \in Nat
      BY <1>2, <3>3
    <3>5. Sum(T \ {x}) = w[c] + Sum(r)
      BY <3>2, <3>3
    <3>6. Sum(T) = w[c] + (w[x] + Sum(r))
      BY <2>2, <3>1
    <3>7. w[c] \in Nat /\ w[x] \in Nat
      BY <2>1, <3>3
    <3> HIDE DEF r
    <3>8. \A a, b, d \in Nat : a + (b + d) = b + (a + d)
      OBVIOUS
    <3>9. w[c] + (w[x] + Sum(r)) = w[x] + (w[c] + Sum(r))
      BY <3>4, <3>7, <3>8
    <3> QED BY <3>5, <3>6, <3>9
  <2> QED BY <2>2, <2>3
<1>5. SUBSET S \subseteq P
  <2> HIDE DEF P
  <2> QED BY <1>3, <1>4, SubsetInduction
<1> QED BY <1>2, <1>5 DEF Sum
============================================================================
