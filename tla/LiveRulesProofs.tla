--------------------------- MODULE LiveRulesProofs ---------------------------
(***************************************************************************)
(* That no rate is inflated, that silence is reported, that the live       *)
(* rules' alarms are real and that the dashboard shows no drop that is     *)
(* none, for every set of series, signals and intervals, every size of the *)
(* window and any number of scrapes and restarts.                          *)
(*                                                                         *)
(* The inductive invariant, StoreInv, says how the window came about: each *)
(* snapshot follows the one before it by what its interval counted, has    *)
(* the series that the collector exposes, and the last is what the         *)
(* counters are now.  The rest is about single states of that kind.  The   *)
(* sums of the rules are folds; what holds of them is shown by the least   *)
(* counterexample among the subsets that they add up over.  A rate times   *)
(* its interval is what the interval counted (SeriesRate, SignalRate); a   *)
(* receiver that is read through the first of its series never seems to    *)
(* gain more than some series of its has (OwnerGrowth).  A sustained count *)
(* stands for bad intervals with nothing but skipped ones between them     *)
(* (SustainedTwice, SustainedThrice), of which one restart explains one.   *)
(* Over a window that nothing disturbed, what a series has counted in each *)
(* interval adds up to the difference of its ends (SteadyWindow); the      *)
(* receivers are shown with one of their series each, so with different    *)
(* terms of the sum of all (SumInjected).                                  *)
(***************************************************************************)
EXTENDS LiveRules, FiniteSetTheorems, SequenceTheorems, WellFoundedInduction, TLAPS

(* What holds of 0 and is handed on by every number up to N holds up to N. *)
LEMMA UpTo ==
  ASSUME NEW N \in Nat, NEW T, 0 \in T,
         \A i \in 1 .. N : i - 1 \in T => i \in T
  PROVE  \A i \in 0 .. N : i \in T
<1> DEFINE less == {ss \in Nat \X Nat : ss[1] < ss[2]}
           bad == {i \in 0 .. N : i \notin T}
<1>1. IsWellFoundedOn(less, Nat)
  BY NatLessThanWellFounded DEF OpToRel
<1>2. \A x, y \in Nat : y < x => <<y, x>> \in less
  OBVIOUS
<1>3. bad \subseteq Nat
  OBVIOUS
<1> HIDE DEF less
<1>4. ASSUME bad # {}
      PROVE  \E x \in bad : \A y \in bad : ~(<<y, x>> \in less)
  <2> HIDE DEF bad
  <2> QED
    BY <1>1, <1>3, <1>4, WFMin
<1>5. ASSUME NEW x \in bad PROVE  x - 1 \in bad /\ x - 1 < x /\ x - 1 \in Nat /\ x \in Nat
  OBVIOUS
<1>6. bad = {}
  BY <1>2, <1>4, <1>5
<1> QED
  BY <1>6

(* A family with the empty set that has each subset of S all of whose      *)
(* maximal proper subsets it has, has them all.                            *)
LEMMA SubsetInduction ==
  ASSUME NEW S, IsFiniteSet(S), NEW G, {} \in G,
         \A T \in SUBSET S : T # {} /\ (\A x \in T : T \ {x} \in G) => T \in G
  PROVE  \A T \in SUBSET S : T \in G
<1> DEFINE K == {n \in Nat : \A T \in SUBSET S : Cardinality(T) <= n => T \in G}
           N == Cardinality(S)
<1>1. N \in Nat /\ \A T \in SUBSET S : IsFiniteSet(T) /\ Cardinality(T) \in Nat /\ Cardinality(T) <= N
  BY FS_Subset, FS_CardinalityType
<1>2. 0 \in K
  <2>1. \A T \in SUBSET S : Cardinality(T) <= 0 => T = {}
    BY <1>1, FS_EmptySet
  <2> QED
    BY <2>1
<1>3. ASSUME NEW n \in 1 .. N, n - 1 \in K
      PROVE  n \in K
  <2>1. ASSUME NEW T \in SUBSET S, Cardinality(T) <= n, T # {}
        PROVE  T \in G
    <3>1. ASSUME NEW x \in T
          PROVE  T \ {x} \in G
      <4>1. Cardinality(T \ {x}) = Cardinality(T) - 1 /\ T \ {x} \in SUBSET S
        BY <1>1, FS_RemoveElement
      <4>2. Cardinality(T \ {x}) <= n - 1
        BY <1>1, <2>1, <4>1
      <4> QED
        BY <1>3, <4>1, <4>2
    <3> QED
      BY <2>1, <3>1
  <2>2. \A T \in SUBSET S : Cardinality(T) <= n => T \in G
    BY <2>1
  <2> QED
    BY <2>2
<1>4. N \in K
  <2> HIDE DEF K, N
  <2>1. \A n \in 0 .. N : n \in K
    BY <1>1, <1>2, <1>3, UpTo
  <2> QED
    BY <1>1, <2>1
<1> QED
  BY <1>1, <1>4

Pick(s) == CHOOSE x \in s : TRUE

(* The function by which the fold of SumFunction adds f up over the        *)
(* subsets of its domain.                                                  *)
Adds(f, S, iter) ==
  iter = [s \in SUBSET S |-> IF s = {} THEN 0 ELSE f[Pick(s)] + iter[s \ {Pick(s)}]]
Sums(f, S) == CHOOSE iter : Adds(f, S, iter)

LEMMA SumIsFold ==
  ASSUME NEW f
  PROVE  SumFunction(f) = Sums(f, DOMAIN f)[DOMAIN f]
BY DEF SumFunction, SumFunctionOnSet, FoldFunctionOnSet, MapThenFoldSet, Sums, Adds, Pick

LEMMA SumsAdd ==
  ASSUME NEW S, IsFiniteSet(S), NEW f \in [S -> Nat]
  PROVE  Sums(f, S) \in [SUBSET S -> Nat] /\ Adds(f, S, Sums(f, S))
<1> DEFINE Entry(g, s) == IF s = {} THEN 0 ELSE f[Pick(s)] + g[s \ {Pick(s)}]
           N == Cardinality(S)
           K == {n \in Nat : \E g \in [SUBSET S -> Nat] :
                   \A s \in SUBSET S : Cardinality(s) <= n => g[s] = Entry(g, s)}
<1>1. /\ N \in Nat
      /\ \A s \in SUBSET S : IsFiniteSet(s) /\ Cardinality(s) \in Nat /\ Cardinality(s) <= N
      /\ \A s \in SUBSET S : s # {} => Pick(s) \in s
  BY FS_Subset, FS_CardinalityType DEF Pick
<1>2. \A s \in SUBSET S : s # {} =>
        /\ Cardinality(s) # 0 /\ s \ {Pick(s)} \in SUBSET S
        /\ Cardinality(s \ {Pick(s)}) = Cardinality(s) - 1
  BY <1>1, FS_RemoveElement, FS_EmptySet
<1>3. \A g \in [SUBSET S -> Nat], s \in SUBSET S : Entry(g, s) \in Nat
  BY <1>1, <1>2
<1>4. 0 \in K
  <2>1. [s \in SUBSET S |-> 0] \in [SUBSET S -> Nat]
    OBVIOUS
  <2>2. ASSUME NEW s \in SUBSET S, Cardinality(s) <= 0
        PROVE  [t \in SUBSET S |-> 0][s] = Entry([t \in SUBSET S |-> 0], s)
    <3>1. Cardinality(s) = 0
      BY <1>1, <2>2
    <3>2. s = {}
      BY <1>2, <3>1
    <3> QED
      BY <3>2
  <2> HIDE DEF Entry
  <2> QED
    BY <2>1, <2>2
<1>5. ASSUME NEW n \in 1 .. N, n - 1 \in K
      PROVE  n \in K
  <2>1. PICK g \in [SUBSET S -> Nat] : \A s \in SUBSET S : Cardinality(s) <= n - 1 => g[s] = Entry(g, s)
    BY <1>5
  <2> DEFINE h == [s \in SUBSET S |-> Entry(g, s)]
  <2>2. h \in [SUBSET S -> Nat]
    BY <1>3
  <2>3. \A s \in SUBSET S : h[s] = Entry(g, s)
    OBVIOUS
  <2> HIDE DEF h
  <2>4. \A s \in SUBSET S : Cardinality(s) <= n - 1 => h[s] = g[s]
    BY <2>1, <2>3
  <2>5. ASSUME NEW s \in SUBSET S, Cardinality(s) <= n
        PROVE  h[s] = Entry(h, s)
    <3>1. s # {} => Cardinality(s \ {Pick(s)}) <= n - 1
      BY <1>1, <1>2, <2>5
    <3>2. s # {} => h[s \ {Pick(s)}] = g[s \ {Pick(s)}]
      BY <1>2, <2>4, <3>1
    <3> QED
      BY <2>3, <3>2
  <2>6. n \in Nat
    OBVIOUS
  <2> HIDE DEF Entry
  <2> QED
    BY <2>2, <2>5, <2>6
<1>6. N \in K
  <2> HIDE DEF K, N
  <2>1. \A n \in 0 .. N : n \in K
    BY <1>1, <1>4, <1>5, UpTo
  <2> QED
    BY <1>1, <2>1
<1>7. PICK g \in [SUBSET S -> Nat] : \A s \in SUBSET S : g[s] = Entry(g, s)
  BY <1>1, <1>6
<1>8. Adds(f, S, g)
  BY <1>7 DEF Adds
<1>9. Adds(f, S, Sums(f, S))
  BY <1>8 DEF Sums
<1>10. ASSUME NEW F, Adds(f, S, F) PROVE F \in [SUBSET S -> Nat]
  <2> DEFINE G == {s \in SUBSET S : F[s] \in Nat}
  <2>1. F = [s \in SUBSET S |-> F[s]] /\ \A s \in SUBSET S : F[s] = Entry(F, s)
    BY <1>10 DEF Adds
  <2>2. {} \in G
    <3>1. {} \in SUBSET S
      OBVIOUS
    <3>2. F[{}] = 0
      BY <2>1, <3>1
    <3> QED
      BY <3>1, <3>2
  <2>3. ASSUME NEW T \in SUBSET S, T # {}, \A x \in T : T \ {x} \in G
        PROVE  T \in G
    <3>1. Pick(T) \in S /\ F[T \ {Pick(T)}] \in Nat
      BY <1>1, <2>3
    <3>2. f[Pick(T)] \in Nat
      BY <3>1
    <3>3. F[T] = f[Pick(T)] + F[T \ {Pick(T)}]
      BY <2>1, <2>3
    <3> QED
      BY <3>1, <3>2, <3>3
  <2>4. \A T \in SUBSET S : T \in G
    <3> HIDE DEF G
    <3> QED
      BY <2>2, <2>3, SubsetInduction
  <2> QED
    BY <2>1, <2>4
<1> QED
  BY <1>9, <1>10

(* Adding up over a subset of the domain is the sum of the restriction.    *)
LEMMA SumsRestrict ==
  ASSUME NEW S, IsFiniteSet(S), NEW f \in [S -> Nat], NEW T \in SUBSET S
  PROVE  SumFunction([x \in T |-> f[x]]) = Sums(f, S)[T]
<1> DEFINE g == [x \in T |-> f[x]]
           F == Sums(f, S)
           H == Sums(g, T)
           G == {X \in SUBSET T : H[X] = F[X]}
<1>1. g \in [T -> Nat] /\ DOMAIN g = T /\ \A x \in T : g[x] = f[x]
  OBVIOUS
<1>2. IsFiniteSet(T)
  BY FS_Subset
<1> HIDE DEF g
<1>3. Adds(f, S, F) /\ Adds(g, T, H) /\ SumFunction(g) = H[T]
  BY <1>1, <1>2, SumsAdd, SumIsFold
<1> HIDE DEF F, H
<1>4. {} \in G
  BY <1>3 DEF Adds
<1>5. ASSUME NEW X \in SUBSET T, X # {}, \A x \in X : X \ {x} \in G
      PROVE  X \in G
  <2>1. Pick(X) \in X /\ X \in SUBSET S
    BY <1>5 DEF Pick
  <2>2. F[X] = f[Pick(X)] + F[X \ {Pick(X)}] /\ H[X] = g[Pick(X)] + H[X \ {Pick(X)}]
    BY <1>3, <1>5, <2>1 DEF Adds
  <2>3. H[X \ {Pick(X)}] = F[X \ {Pick(X)}] /\ g[Pick(X)] = f[Pick(X)]
    BY <1>1, <1>5, <2>1
  <2> QED
    BY <2>2, <2>3
<1>6. T \in G
  <2> HIDE DEF G
  <2>1. \A X \in SUBSET T : X \in G
    BY <1>2, <1>4, <1>5, SubsetInduction
  <2> QED
    BY <2>1
<1> QED
  BY <1>3, <1>6 DEF g, F

(* A function that can be added up. *)
Summable(f, S) == IsFiniteSet(S) /\ f \in [S -> Nat]

(* A sum of naturals is one, and any element may be taken out of it.       *)
Without(f, x) == [y \in DOMAIN f \ {x} |-> f[y]]

LEMMA SumRemove ==
  ASSUME NEW S, NEW f, Summable(f, S)
  PROVE  /\ SumFunction(f) \in Nat
         /\ S = {} => SumFunction(f) = 0
         /\ \A x \in S : SumFunction(f) = f[x] + SumFunction(Without(f, x))
<1> DEFINE F == Sums(f, S)
           G == {T \in SUBSET S : \A x \in T : F[T] = f[x] + F[T \ {x}]}
<1>0. IsFiniteSet(S) /\ f \in [S -> Nat]
  BY DEF Summable
<1>1. F \in [SUBSET S -> Nat] /\ Adds(f, S, F) /\ SumFunction(f) = F[S]
  BY <1>0, SumsAdd, SumIsFold
<1>2. ASSUME NEW x \in S PROVE SumFunction(Without(f, x)) = F[S \ {x}]
  <2>1. Without(f, x) = [y \in S \ {x} |-> f[y]]
    BY <1>0 DEF Without
  <2> QED
    BY <1>0, <2>1, SumsRestrict
<1> HIDE DEF F
<1>3. {} \in G
  OBVIOUS
<1>4. ASSUME NEW T \in SUBSET S, T # {}, \A x \in T : T \ {x} \in G
      PROVE  T \in G
  <2> SUFFICES ASSUME NEW x \in T PROVE F[T] = f[x] + F[T \ {x}]
    OBVIOUS
  <2> DEFINE c == Pick(T)
  <2>1. c \in T /\ F[T] = f[c] + F[T \ {c}]
    BY <1>1, <1>4 DEF Pick, Adds
  <2> HIDE DEF c
  <2>2. CASE c # x
    <3>1. F[T \ {c}] = f[x] + F[(T \ {c}) \ {x}]
      BY <1>4, <2>1, <2>2
    <3>2. F[T \ {x}] = f[c] + F[(T \ {x}) \ {c}]
      BY <1>4, <2>1, <2>2
    <3>3. (T \ {c}) \ {x} = (T \ {x}) \ {c}
      OBVIOUS
    <3>4. /\ f[x] \in Nat /\ f[c] \in Nat
          /\ F[(T \ {x}) \ {c}] \in Nat
      BY <1>0, <1>1, <2>1
    <3> DEFINE m == F[(T \ {x}) \ {c}]
    <3>5. F[T] = f[c] + (f[x] + m)
      BY <2>1, <3>1, <3>3
    <3>6. F[T \ {x}] = f[c] + m
      BY <3>2
    <3>7. m \in Nat
      BY <3>4
    <3> HIDE DEF m
    <3> QED
      BY <3>4, <3>5, <3>6, <3>7
  <2> QED
    BY <2>1, <2>2
<1>5. S \in G
  <2> HIDE DEF G
  <2>1. \A T \in SUBSET S : T \in G
    BY <1>0, <1>3, <1>4, SubsetInduction
  <2> QED
    BY <2>1
<1>6. S = {} => F[S] = 0
  BY <1>1 DEF Adds
<1> QED
  BY <1>1, <1>2, <1>5, <1>6

(* Every element is at most the sum. *)
LEMMA SumElement ==
  ASSUME NEW S, NEW f, Summable(f, S), NEW x \in S
  PROVE  f[x] <= SumFunction(f)
<1>1. Summable(Without(f, x), S \ {x})
  BY FS_Difference DEF Without, Summable
<1>2. SumFunction(f) = f[x] + SumFunction(Without(f, x))
  BY SumRemove
<1>3. SumFunction(Without(f, x)) \in Nat
  BY <1>1, SumRemove
<1>4. f[x] \in Nat
  BY DEF Summable
<1> QED
  BY <1>2, <1>3, <1>4

(* The sum over one element. *)
LEMMA SumSingle ==
  ASSUME NEW x, NEW f \in [{x} -> Nat]
  PROVE  SumFunction(f) = f[x]
<1>1. /\ x \in {x} /\ {x} \ {x} = {} /\ IsFiniteSet({})
      /\ Summable(f, {x})
  BY FS_Singleton, FS_EmptySet DEF Summable
<1>2. SumFunction(f) = f[x] + SumFunction(Without(f, x))
  BY <1>1, SumRemove
<1>3. Summable(Without(f, x), {})
  BY <1>1 DEF Without, Summable
<1>4. SumFunction(Without(f, x)) = 0
  BY <1>1, <1>3, SumRemove
<1>5. f[x] \in Nat
  OBVIOUS
<1> QED
  BY <1>2, <1>4, <1>5

(* The sum over those elements of X that f has. *)
SumOn(f, X) == SumFunction([y \in X \cap DOMAIN f |-> f[y]])

LEMMA SumOnSteps ==
  ASSUME NEW S, NEW f, Summable(f, S), NEW X
  PROVE  /\ SumOn(f, X) \in Nat
         /\ X = {} => SumOn(f, X) = 0
         /\ S \subseteq X => SumOn(f, X) = SumFunction(f)
         /\ \A x \in X : /\ x \in S => SumOn(f, X) = f[x] + SumOn(f, X \ {x})
                         /\ x \notin S => SumOn(f, X) = SumOn(f, X \ {x})
<1> DEFINE D == X \cap S
           g == [y \in D |-> f[y]]
<1>0. IsFiniteSet(S) /\ f \in [S -> Nat]
  BY DEF Summable
<1>1. Summable(g, D) /\ SumOn(f, X) = SumFunction(g)
  BY <1>0, FS_Intersection DEF SumOn, Summable
<1>2. X = {} => D = {}
  OBVIOUS
<1>3. \A x \in D : g[x] = f[x] /\ f[x] \in Nat
  BY <1>0
<1>4. S \subseteq X => g = f
  <2>1. S \subseteq X => D = S
    OBVIOUS
  <2> QED
    BY <1>0, <2>1
<1>5. ASSUME NEW x \in X, x \in S
      PROVE  SumFunction(Without(g, x)) = SumOn(f, X \ {x})
  <2>1. DOMAIN g \ {x} = (X \ {x}) \cap S
    OBVIOUS
  <2>2. Without(g, x) = [y \in (X \ {x}) \cap S |-> f[y]]
    BY <2>1 DEF Without
  <2> QED
    BY <1>0, <2>2 DEF SumOn
<1>6. ASSUME NEW x \in X, x \notin S
      PROVE  SumOn(f, X) = SumOn(f, X \ {x})
  <2>1. X \cap S = (X \ {x}) \cap S
    BY <1>6
  <2> QED
    BY <1>0, <2>1 DEF SumOn
<1>7. \A x \in S : x \in X => x \in D
  OBVIOUS
<1> HIDE DEF D, g
<1>8. /\ SumFunction(g) \in Nat
      /\ D = {} => SumFunction(g) = 0
      /\ \A x \in D : SumFunction(g) = g[x] + SumFunction(Without(g, x))
  BY <1>1, SumRemove
<1> QED
  BY <1>1, <1>2, <1>3, <1>4, <1>5, <1>6, <1>7, <1>8

(* The last element of an interval, taken out of its sum. *)
LEMMA SumInterval ==
  ASSUME NEW S, NEW f, Summable(f, S),
         NEW a \in Int, NEW b \in Int, a <= b, b \in S
  PROVE  SumOn(f, a .. b) = f[b] + SumOn(f, a .. b - 1)
<1>1. b \in a .. b
  OBVIOUS
<1>2. (a .. b) \ {b} = a .. b - 1
  OBVIOUS
<1>3. \A X : \A x \in X : x \in S => SumOn(f, X) = f[x] + SumOn(f, X \ {x})
  BY SumOnSteps
<1>4. SumOn(f, a .. b) = f[b] + SumOn(f, (a .. b) \ {b})
  BY <1>1, <1>3
<1> QED
  BY <1>2, <1>4

(* What holds element by element of multiples of f and g, an element that  *)
(* one of them lacks counting nothing, holds of the sums.                  *)
LEMMA SumScaled ==
  ASSUME NEW S, NEW f, Summable(f, S), NEW T, NEW g, Summable(g, T), NEW e \in Nat, NEW u \in Nat,
         \A x \in S \cap T : f[x] * e <= g[x] * u,
         \A x \in S \ T : f[x] = 0
  PROVE  SumFunction(f) * e <= SumFunction(g) * u
<1> DEFINE F(X) == SumOn(f, X)
           H(X) == SumOn(g, X)
           U == S \cup T
           G == {X \in SUBSET U : F(X) * e <= H(X) * u}
<1>1. \A X : /\ F(X) \in Nat /\ H(X) \in Nat
             /\ X = {} => F(X) = 0
             /\ \A x \in X : /\ x \in S => F(X) = f[x] + F(X \ {x})
                             /\ x \notin S => F(X) = F(X \ {x})
                             /\ x \in T => H(X) = g[x] + H(X \ {x})
                             /\ x \notin T => H(X) = H(X \ {x})
  <2>1. ASSUME NEW X
        PROVE  /\ F(X) \in Nat
               /\ X = {} => F(X) = 0
               /\ \A x \in X : /\ x \in S => F(X) = f[x] + F(X \ {x})
                               /\ x \notin S => F(X) = F(X \ {x})
    BY SumOnSteps
  <2>2. ASSUME NEW X
        PROVE  /\ H(X) \in Nat
               /\ X = {} => H(X) = 0
               /\ \A x \in X : /\ x \in T => H(X) = g[x] + H(X \ {x})
                               /\ x \notin T => H(X) = H(X \ {x})
    BY SumOnSteps
  <2> HIDE DEF F, H
  <2> QED
    BY <2>1, <2>2
<1>0. /\ IsFiniteSet(S) /\ IsFiniteSet(T)
      /\ f \in [S -> Nat] /\ g \in [T -> Nat]
  BY DEF Summable
<1>2. IsFiniteSet(U)
  BY <1>0, FS_Union
<1>3. F(U) = SumFunction(f) /\ H(U) = SumFunction(g)
  BY SumOnSteps
<1> HIDE DEF F, H
<1>4. {} \in G
  <2>1. F({}) = 0 /\ H({}) \in Nat
    BY <1>1
  <2>2. 0 * e <= H({}) * u
    BY <2>1
  <2>3. {} \in SUBSET U
    OBVIOUS
  <2> QED
    BY <2>1, <2>2, <2>3
<1>5. ASSUME NEW X \in SUBSET U, X # {}, \A x \in X : X \ {x} \in G
      PROVE  X \in G
  <2>1. PICK x \in X : TRUE
    BY <1>5
  <2> DEFINE A == F(X \ {x})
             B == H(X \ {x})
             v == IF x \in S THEN f[x] ELSE 0
             w == IF x \in T THEN g[x] ELSE 0
  <2>2. A \in Nat /\ B \in Nat /\ A * e <= B * u
    BY <1>1, <1>5
  <2>3. F(X) = v + A
    <3>1. CASE x \in S
      BY <1>1, <3>1
    <3>2. CASE x \notin S
      <4>1. F(X) = A
        BY <1>1, <3>2
      <4> HIDE DEF A
      <4> QED
        BY <2>2, <3>2, <4>1
    <3> QED
      BY <3>1, <3>2
  <2>7. H(X) = w + B
    <3>1. CASE x \in T
      BY <1>1, <3>1
    <3>2. CASE x \notin T
      <4>1. H(X) = B
        BY <1>1, <3>2
      <4> HIDE DEF B
      <4> QED
        BY <2>2, <3>2, <4>1
    <3> QED
      BY <3>1, <3>2
  <2>4. v \in Nat /\ w \in Nat
    BY <1>0
  <2>5. v * e <= w * u
    <3>1. CASE x \in S /\ x \in T
      BY <3>1
    <3>2. CASE ~(x \in S /\ x \in T)
      <4>1. v = 0
        BY <3>2
      <4> HIDE DEF v, w
      <4> QED
        BY <2>4, <4>1
    <3> QED
      BY <3>1, <3>2
  <2> HIDE DEF A, B, v, w
  <2>6. (v + A) * e <= (w + B) * u
    BY <2>2, <2>4, <2>5
  <2> QED
    BY <2>3, <2>6, <2>7
<1>6. U \in G
  <2> HIDE DEF G, U
  <2>1. \A X \in SUBSET U : X \in G
    BY <1>2, <1>4, <1>5, SubsetInduction
  <2> QED
    BY <2>1
<1> QED
  BY <1>3, <1>6

LEMMA SumScaledEqual ==
  ASSUME NEW S, NEW f, Summable(f, S), NEW T, NEW g, Summable(g, T), NEW e \in Nat, NEW u \in Nat,
         \A x \in S \cap T : f[x] * e = g[x] * u,
         \A x \in S \ T : f[x] = 0,
         \A x \in T \ S : g[x] = 0
  PROVE  SumFunction(f) * e = SumFunction(g) * u
<1>1. ASSUME NEW x \in S \cap T
      PROVE  f[x] * e <= g[x] * u /\ g[x] * u <= f[x] * e
  <2>1. f[x] \in Nat /\ f[x] * e = g[x] * u
    BY DEF Summable
  <2>2. f[x] * e \in Nat
    BY <2>1
  <2> QED
    BY <2>1, <2>2
<1>2. SumFunction(f) * e <= SumFunction(g) * u /\ SumFunction(g) * u <= SumFunction(f) * e
  BY <1>1, SumScaled
<1>3. SumFunction(f) \in Nat /\ SumFunction(g) \in Nat
  BY SumRemove
<1> QED
  BY <1>2, <1>3
-----------------------------------------------------------------------------
(* Integer division by a positive number. *)
LEMMA DivBounds ==
  ASSUME NEW x \in Nat, NEW e \in Nat \ {0}
  PROVE  /\ x \div e \in Nat /\ (x \div e) * e <= x
         /\ \A y \in Nat : y * e <= x => y <= x \div e
         /\ \A y \in Nat : x <= y => x \div e <= y \div e
OBVIOUS

(* A rate for a time that divides Unit is exact. *)
LEMMA PerUnitExact ==
  ASSUME NEW d \in Nat, NEW e \in Nat \ {0}, Unit % e = 0
  PROVE  PerUnit(d, e) * e = d * Unit
<1>1. Unit \in Nat
  BY UnitAssumption
<1> DEFINE q == Unit \div e
<1>2. q \in Nat /\ Unit = q * e
  BY <1>1
<1> HIDE DEF q
<1>3. (d * (q * e)) \div e = d * q
  BY <1>2
<1>4. PerUnit(d, e) = d * q
  BY <1>2, <1>3 DEF PerUnit
<1> QED
  BY <1>2, <1>4

LEMMA ProductMonotone ==
  ASSUME NEW a \in Nat, NEW b \in Nat, NEW u \in Nat, a <= b
  PROVE  a * u \in Nat /\ b * u \in Nat /\ a * u <= b * u
OBVIOUS

(* A rate is a natural number, grows with what it is the rate of, and      *)
(* comes to no more than that.                                             *)
LEMMA PerUnitBounds ==
  ASSUME NEW d \in Nat, NEW e \in Nat \ {0}
  PROVE  /\ PerUnit(d, e) \in Nat
         /\ PerUnit(d, e) * e <= d * Unit
         /\ \A r \in Nat : r * e <= d * Unit => r <= PerUnit(d, e)
         /\ \A c \in Nat : d <= c => PerUnit(d, e) <= PerUnit(c, e)
<1>1. Unit \in Nat
  BY UnitAssumption
<1>2. d * Unit \in Nat
  BY <1>1
<1>3. \A c \in Nat : d <= c => c * Unit \in Nat /\ d * Unit <= c * Unit
  BY <1>1, ProductMonotone
<1>4. \A c \in Nat : d <= c => (d * Unit) \div e <= (c * Unit) \div e
  BY <1>2, <1>3, DivBounds
<1>5. /\ (d * Unit) \div e \in Nat /\ ((d * Unit) \div e) * e <= d * Unit
      /\ \A r \in Nat : r * e <= d * Unit => r <= (d * Unit) \div e
  BY <1>2, DivBounds
<1> QED
  BY <1>4, <1>5 DEF PerUnit
-----------------------------------------------------------------------------
Place == DOMAIN Series

LEMMA SeriesFacts ==
  /\ Place \subseteq Nat /\ IsFiniteSet(Place)
  /\ \A k \in Place : Series[k] \in ToSet(Series) /\ Series[k] \in Labels
  /\ \A j, k \in Place : Matches(Series[j], Series[k]) <=> j = k
<1>1. Series \in Seq(Labels)
  BY SeriesAssumption
<1>2. Len(Series) \in Nat /\ Place = 1 .. Len(Series)
  BY <1>1, LenProperties DEF Place
<1>3. IsFiniteSet(1 .. Len(Series))
  BY <1>2, FS_Interval
<1>4. \A k \in Place : Series[k] \in Labels
  BY <1>1, <1>2, ElementOfSeq
<1>5. \A k \in Place : Series[k] \in ToSet(Series)
  BY DEF Place, ToSet
<1>6. \A j, k \in Place : Matches(Series[j], Series[k]) <=> j = k
  BY SeriesAssumption DEF Matches, Place
<1> QED
  BY <1>2, <1>3, <1>4, <1>5, <1>6

(* The least element of a set of numbers. *)
LEMMA MinFacts ==
  ASSUME NEW S \in SUBSET Nat, S # {}
  PROVE  Min(S) \in S /\ \A x \in S : Min(S) <= x
<1> DEFINE less == {ss \in Nat \X Nat : ss[1] < ss[2]}
<1>1. IsWellFoundedOn(less, Nat)
  BY NatLessThanWellFounded DEF OpToRel
<1>2. \A x, y \in Nat : y < x => <<y, x>> \in less
  OBVIOUS
<1> HIDE DEF less
<1>3. \E x \in S : \A y \in S : ~(<<y, x>> \in less)
  BY <1>1, WFMin
<1>4. PICK x \in S : \A y \in S : ~(<<y, x>> \in less)
  BY <1>3
<1>5. \A y \in S : x \in Nat /\ y \in Nat /\ (y < x => <<y, x>> \in less)
  BY <1>2
<1>6. ASSUME NEW y \in S PROVE x <= y
  <2>1. x \in Nat /\ y \in Nat /\ ~(y < x)
    BY <1>4, <1>5
  <2> QED
    BY <2>1
<1> QED
  BY <1>6 DEF Min

Snapshots ==
  [at : Nat, samples : UNION {[D -> Nat] : D \in SUBSET Place}]

LEMMA SnapshotFacts ==
  ASSUME NEW snap \in Snapshots
  PROVE  /\ DOMAIN snap.samples \subseteq Place
         /\ snap.at \in Nat
         /\ \A k \in DOMAIN snap.samples : snap.samples[k] \in Nat
<1>1. snap.at \in Nat /\ snap.samples \in UNION {[D -> Nat] : D \in SUBSET Place}
  BY DEF Snapshots
<1>2. PICK D \in SUBSET Place : snap.samples \in [D -> Nat]
  BY <1>1
<1> QED
  BY <1>1, <1>2

(* lookupValue reads the first sample that matches. *)
Found(snap, labels) == {k \in DOMAIN snap.samples : Matches(labels, Series[k])}

LEMMA LookupFirst ==
  ASSUME NEW snap \in Snapshots, NEW labels
  PROVE  IF Found(snap, labels) = {} THEN LookupValue(snap, labels) = Absent
         ELSE \E j \in Found(snap, labels) :
                /\ LookupValue(snap, labels) = snap.samples[j]
                /\ \A k \in Found(snap, labels) : j <= k
<1>1. Found(snap, labels) \subseteq Nat
  BY SnapshotFacts, SeriesFacts DEF Found
<1>2. Found(snap, labels) # {} =>
        LookupValue(snap, labels) = snap.samples[Min(Found(snap, labels))]
  BY DEF LookupValue, Found
<1>3. Found(snap, labels) = {} => LookupValue(snap, labels) = Absent
  BY DEF LookupValue, Found
<1> QED
  BY <1>1, <1>2, <1>3, MinFacts

(* All the labels of a series match that series only. *)
LEMMA LookupSeries ==
  ASSUME NEW snap \in Snapshots, NEW k \in Place
  PROVE  LookupValue(snap, Series[k]) =
           IF k \in DOMAIN snap.samples THEN snap.samples[k] ELSE Absent
<1>1. \A j \in Place : Matches(Series[k], Series[j]) <=> j = k
  BY SeriesFacts
<1>2. \A j \in Found(snap, Series[k]) : j = k
  BY <1>1, SnapshotFacts DEF Found
<1>3. k \in DOMAIN snap.samples <=> k \in Found(snap, Series[k])
  BY <1>1 DEF Found
<1> QED
  BY <1>2, <1>3, LookupFirst

LEMMA OwnerMatches ==
  ASSUME NEW k \in Place, NEW metric, NEW signal, NEW owner
  PROVE  /\ Matches(OfOwner(metric, signal, owner), Series[k])
              <=> k \in PlacesOf(metric, signal, owner)
         /\ Matches(QueueLabels(metric, owner), Series[k])
              <=> Series[k].metric = metric /\ Series[k].owner = owner
<1>1. Series[k] \in Labels
  BY SeriesFacts
<1>2. \A s : {"metric", "signal", "owner"} \subseteq DOMAIN s =>
        /\ Matches(OfOwner(metric, signal, owner), s)
             <=> s.metric = metric /\ s.signal = signal /\ s.owner = owner
        /\ Matches(QueueLabels(metric, owner), s)
             <=> s.metric = metric /\ s.owner = owner
  BY DEF Matches, OfOwner, QueueLabels
<1>3. k \in PlacesOf(metric, signal, owner)
        <=> Series[k].metric = metric /\ Series[k].signal = signal /\ Series[k].owner = owner
  BY DEF PlacesOf, Places, Place
<1>4. {"metric", "signal", "owner"} \subseteq DOMAIN Series[k]
  BY <1>1 DEF Labels
<1> QED
  BY <1>2, <1>3, <1>4
-----------------------------------------------------------------------------
(* What a sample is worth, a counter that is not exposed being at zero. *)
Value(snap, k) == IF k \in DOMAIN snap.samples THEN snap.samples[k] ELSE 0

(* The snapshot has the series that Exposed gives it. *)
WellExposed(snap) ==
  \A k \in Place :
    k \in DOMAIN snap.samples <=> Value(snap, k) > 0 \/ eager \/ IsGauge(Series[k])

(* The second snapshot is the next one, after what happens in iv. *)
Follows(prev, curr, iv) ==
  /\ curr.at = prev.at + iv.seconds
  /\ \A k \in Place : ~IsGauge(Series[k]) =>
       Value(curr, k) = IF iv.restart THEN iv.after[Series[k]]
                        ELSE Value(prev, k) + iv.after[Series[k]]

LEMMA ValueFacts ==
  ASSUME NEW snap \in Snapshots, NEW k \in Place
  PROVE  Value(snap, k) \in Nat
BY SnapshotFacts DEF Value

LEMMA IntervalFacts ==
  ASSUME NEW iv \in Intervals
  PROVE  /\ iv.seconds \in Nat \ {0} /\ Unit % iv.seconds = 0
         /\ iv.restart \in BOOLEAN
         /\ \A k \in Place :
              /\ iv.before[Series[k]] \in Nat /\ iv.after[Series[k]] \in Nat
              /\ Count(iv, Series[k]) \in Nat /\ Count(iv, Series[k]) >= iv.after[Series[k]]
              /\ ~iv.restart => Count(iv, Series[k]) = iv.after[Series[k]]
<1>1. /\ iv.seconds \in Nat \ {0} /\ Unit % iv.seconds = 0
      /\ iv.restart \in BOOLEAN
      /\ iv.before \in [ToSet(Series) -> Nat] /\ iv.after \in [ToSet(Series) -> Nat]
      /\ ~iv.restart => \A s \in ToSet(Series) : iv.before[s] = 0
  BY IntervalsAssumption
<1>2. ASSUME NEW k \in Place
      PROVE  /\ iv.before[Series[k]] \in Nat /\ iv.after[Series[k]] \in Nat
             /\ ~iv.restart => iv.before[Series[k]] = 0
  BY <1>1, SeriesFacts
<1>3. \A b, a \in Nat : b + a \in Nat /\ b + a >= a /\ (b = 0 => b + a = a)
  OBVIOUS
<1> QED
  BY <1>1, <1>2, <1>3 DEF Count

(* A step from one snapshot to the next, and what happened in between. *)
IsStep(prev, curr, iv) ==
  /\ prev \in Snapshots /\ curr \in Snapshots /\ iv \in Intervals
  /\ WellExposed(prev) /\ WellExposed(curr) /\ Follows(prev, curr, iv)

Counters == {"accepted", "sent", "failed"}

(* The rate of one counter (store.go:104-127).                             *)
LEMMA SeriesRate ==
  ASSUME NEW prev, NEW curr, NEW iv, IsStep(prev, curr, iv),
         NEW k \in Place, ~IsGauge(Series[k])
  PROVE  LET rate == RatePerSecond(prev, curr, Series[k])
             count == Count(iv, Series[k])
         IN  /\ rate \in Nat
             /\ rate * iv.seconds <= count * Unit
             /\ ~iv.restart /\ (count > 0 => k \in DOMAIN prev.samples) =>
                  rate * iv.seconds = count * Unit
<1> DEFINE rate == RatePerSecond(prev, curr, Series[k])
           count == Count(iv, Series[k])
           p == LookupValue(prev, Series[k])
           c == LookupValue(curr, Series[k])
           e == curr.at - prev.at
<1>1. /\ prev \in Snapshots /\ curr \in Snapshots /\ iv \in Intervals
      /\ WellExposed(prev) /\ WellExposed(curr) /\ Follows(prev, curr, iv)
  BY DEF IsStep
<1>2. /\ iv.seconds \in Nat \ {0} /\ Unit % iv.seconds = 0 /\ iv.restart \in BOOLEAN
      /\ iv.after[Series[k]] \in Nat /\ count \in Nat /\ count >= iv.after[Series[k]]
      /\ ~iv.restart => count = iv.after[Series[k]]
      /\ Unit \in Nat
  BY <1>1, IntervalFacts, UnitAssumption
<1>3. /\ Value(prev, k) \in Nat /\ Value(curr, k) \in Nat
      /\ p = IF k \in DOMAIN prev.samples THEN Value(prev, k) ELSE Absent
      /\ c = IF k \in DOMAIN curr.samples THEN Value(curr, k) ELSE Absent
      /\ k \notin DOMAIN curr.samples => Value(curr, k) = 0
  BY <1>1, ValueFacts, LookupSeries DEF Value
<1>4. e = iv.seconds /\ ~(e <= 0)
  BY <1>1, <1>2, SnapshotFacts DEF Follows
<1>5. Value(curr, k) = IF iv.restart THEN iv.after[Series[k]] ELSE Value(prev, k) + iv.after[Series[k]]
  BY <1>1 DEF Follows
<1>6. rate = IF p = Absent \/ c = Absent \/ c < p THEN 0 ELSE PerUnit(c - p, iv.seconds)
  <2>1. rate = IF p = Absent \/ c = Absent \/ c < p \/ e <= 0 THEN 0 ELSE PerUnit(c - p, e)
    BY DEF RatePerSecond
  <2> HIDE DEF rate, p, c, e
  <2> QED
    BY <1>4, <2>1
<1>7. k \in DOMAIN prev.samples /\ ~iv.restart => k \in DOMAIN curr.samples
  <2>1. Value(prev, k) > 0 /\ ~iv.restart => Value(curr, k) > 0
    BY <1>2, <1>3, <1>5
  <2> QED
    BY <1>1, <2>1 DEF WellExposed
<1>8. k \notin DOMAIN prev.samples => Value(prev, k) = 0
  BY DEF Value
<1> HIDE DEF rate, count, p, c, e
<1>9. CASE p = Absent \/ c = Absent \/ c < p
  <2>1. rate = 0
    BY <1>6, <1>9
  <2>2. 0 * iv.seconds <= count * Unit
    BY <1>2
  <2>3. ASSUME ~iv.restart, count > 0 => k \in DOMAIN prev.samples
        PROVE  count = 0
    <3>1. CASE k \in DOMAIN prev.samples
      <4>1. c = Value(curr, k) /\ p = Value(prev, k) /\ c >= p
        BY <1>2, <1>3, <1>5, <1>7, <2>3, <3>1
      <4>2. p \in Nat /\ c \in Nat
        BY <1>3, <4>1
      <4> QED
        BY <1>9, <4>1, <4>2 DEF Absent
    <3>2. CASE k \notin DOMAIN prev.samples
      BY <1>2, <2>3, <3>2
    <3> QED
      BY <3>1, <3>2
  <2>4. count = 0 => 0 * iv.seconds = count * Unit
    BY <1>2
  <2> QED
    BY <2>1, <2>2, <2>3, <2>4 DEF rate, count
<1>10. CASE ~(p = Absent \/ c = Absent \/ c < p)
  <2>1. /\ p = Value(prev, k) /\ c = Value(curr, k) /\ p <= c
        /\ rate = PerUnit(c - p, iv.seconds)
    BY <1>3, <1>6, <1>10
  <2>2. /\ p \in Nat /\ c - p \in Nat
        /\ c - p <= count
        /\ ~iv.restart => c - p = count
    BY <1>2, <1>3, <1>5, <2>1
  <2> DEFINE d == c - p
  <2> HIDE DEF d
  <2>3. d \in Nat /\ d <= count /\ (~iv.restart => d = count) /\ rate = PerUnit(d, iv.seconds)
    BY <2>1, <2>2 DEF d
  <2>4. rate \in Nat /\ rate * iv.seconds = d * Unit
    BY <1>2, <2>3, PerUnitBounds, PerUnitExact
  <2>5. d * Unit <= count * Unit
    BY <1>2, <2>3, ProductMonotone
  <2> QED
    BY <2>3, <2>4, <2>5 DEF rate, count
<1> QED
  BY <1>9, <1>10

LEMMA PlacesFacts ==
  ASSUME NEW metric \in Counters, NEW signal, NEW owner
  PROVE  /\ Places(metric, signal) \subseteq Place /\ IsFiniteSet(Places(metric, signal))
         /\ PlacesOf(metric, signal, owner) \subseteq Places(metric, signal)
         /\ IsFiniteSet(PlacesOf(metric, signal, owner))
         /\ \A k \in Places(metric, signal) : ~IsGauge(Series[k])
<1>1. /\ Places(metric, signal) \subseteq Place
      /\ PlacesOf(metric, signal, owner) \subseteq Places(metric, signal)
  BY DEF Places, PlacesOf, Place
<1>2. IsFiniteSet(Places(metric, signal))
  BY <1>1, SeriesFacts, FS_Subset
<1>3. IsFiniteSet(PlacesOf(metric, signal, owner))
  BY <1>1, <1>2, FS_Subset
<1>4. \A k \in Places(metric, signal) : ~IsGauge(Series[k])
  BY DEF Places, IsGauge, Counters
<1> QED
  BY <1>1, <1>2, <1>3, <1>4

Counts(iv, places) == [k \in places |-> Count(iv, Series[k])]

LEMMA CountsFacts ==
  ASSUME NEW iv \in Intervals, NEW places \in SUBSET Place
  PROVE  /\ Summable(Counts(iv, places), places)
         /\ SumFunction(Counts(iv, places)) \in Nat
         /\ \A k \in places : /\ Counts(iv, places)[k] = Count(iv, Series[k])
                              /\ Count(iv, Series[k]) <= SumFunction(Counts(iv, places))
<1>1. IsFiniteSet(places)
  BY SeriesFacts, FS_Subset
<1>2. \A k \in places : Count(iv, Series[k]) \in Nat
  BY IntervalFacts
<1>3. Summable(Counts(iv, places), places)
  BY <1>1, <1>2 DEF Summable, Counts
<1>4. \A k \in places : Counts(iv, places)[k] = Count(iv, Series[k])
  BY DEF Counts
<1>5. SumFunction(Counts(iv, places)) \in Nat
  BY <1>3, SumRemove
<1>6. \A k \in places : Counts(iv, places)[k] <= SumFunction(Counts(iv, places))
  BY <1>3, SumElement
<1> QED
  BY <1>3, <1>4, <1>5, <1>6

(* Nothing that happens in iv escapes the two snapshots. *)
Calm(prev, iv) ==
  /\ ~iv.restart
  /\ \A k \in Place : Count(iv, Series[k]) > 0 => k \in DOMAIN prev.samples

(* The rate of all series of a metric (helpers.go:12-29): never more than  *)
(* what was counted, and all of it if the interval is undisturbed.         *)
LEMMA SignalRate ==
  ASSUME NEW prev, NEW curr, NEW iv, IsStep(prev, curr, iv),
         NEW metric \in Counters, NEW signal
  PROVE  LET rate == SumRate(prev, curr, metric, signal)
             counted == SumFunction(Counts(iv, Places(metric, signal)))
         IN  /\ rate \in Nat /\ counted \in Nat
             /\ rate * iv.seconds <= counted * Unit
             /\ Calm(prev, iv) => rate * iv.seconds = counted * Unit
<1> DEFINE T == Places(metric, signal)
           S == {k \in DOMAIN curr.samples : Series[k].metric = metric /\ Series[k].signal = signal}
           f == [k \in S |-> RatePerSecond(prev, curr, Series[k])]
           g == Counts(iv, T)
           e == iv.seconds
<1>1. /\ prev \in Snapshots /\ curr \in Snapshots /\ iv \in Intervals
      /\ WellExposed(prev) /\ WellExposed(curr) /\ Follows(prev, curr, iv)
  BY DEF IsStep
<1>2. e \in Nat /\ Unit \in Nat
  BY <1>1, IntervalFacts, UnitAssumption
<1>3. T \subseteq Place /\ IsFiniteSet(T) /\ \A k \in T : ~IsGauge(Series[k])
  BY PlacesFacts
<1>4. S \subseteq T
  BY <1>1, SnapshotFacts DEF Places, Place
<1>5. IsFiniteSet(S)
  BY <1>3, <1>4, FS_Subset
<1>6. \A k \in T : /\ RatePerSecond(prev, curr, Series[k]) \in Nat
                   /\ RatePerSecond(prev, curr, Series[k]) * e <= Count(iv, Series[k]) * Unit
                   /\ Calm(prev, iv) =>
                        RatePerSecond(prev, curr, Series[k]) * e = Count(iv, Series[k]) * Unit
  BY <1>3, SeriesRate DEF Calm
<1>7. Summable(f, S) /\ SumFunction(f) \in Nat
  <2>1. f \in [S -> Nat]
    BY <1>4, <1>6
  <2> HIDE DEF f, S
  <2>2. Summable(f, S)
    BY <1>5, <2>1 DEF Summable
  <2> QED
    BY <2>2, SumRemove
<1>8. /\ Summable(g, T) /\ SumFunction(g) \in Nat
      /\ \A k \in T : g[k] = Count(iv, Series[k])
  BY <1>1, <1>3, CountsFacts
<1>9. \A k \in S : f[k] = RatePerSecond(prev, curr, Series[k])
  OBVIOUS
<1>10. SumRate(prev, curr, metric, signal) = SumFunction(f)
  BY DEF SumRate
<1>11. ASSUME Calm(prev, iv), NEW k \in T, k \notin S
       PROVE  Count(iv, Series[k]) = 0
  <2>1. k \in Place /\ k \notin DOMAIN curr.samples
    BY <1>3, <1>11 DEF Places
  <2>2. Value(curr, k) = 0 /\ Value(prev, k) \in Nat
    BY <1>1, <2>1, ValueFacts DEF Value
  <2>3. Value(curr, k) = Value(prev, k) + iv.after[Series[k]]
    BY <1>1, <1>3, <1>11, <2>1 DEF Follows, Calm
  <2>4. iv.after[Series[k]] \in Nat /\ Count(iv, Series[k]) = iv.after[Series[k]]
    BY <1>1, <1>11, <2>1, IntervalFacts DEF Calm
  <2> QED
    BY <2>2, <2>3, <2>4
<1>12. S \ T = {}
  BY <1>4
<1> HIDE DEF S, T, f, g, e
<1>13. SumFunction(f) * e <= SumFunction(g) * Unit
  <2>1. \A k \in S \cap T : f[k] * e <= g[k] * Unit
    BY <1>6, <1>8, <1>9
  <2>2. \A k \in S \ T : f[k] = 0
    BY <1>12
  <2> QED
    BY <1>2, <1>7, <1>8, <2>1, <2>2, SumScaled
<1>14. Calm(prev, iv) => SumFunction(f) * e = SumFunction(g) * Unit
  <2> HAVE Calm(prev, iv)
  <2>1. \A k \in S \cap T : f[k] * e = g[k] * Unit
    BY <1>6, <1>8, <1>9
  <2>2. \A k \in S \ T : f[k] = 0
    BY <1>12
  <2>3. \A k \in T \ S : g[k] = 0
    BY <1>8, <1>11
  <2> QED
    BY <1>2, <1>7, <1>8, <2>1, <2>2, <2>3, SumScaledEqual
<1> QED
  BY <1>7, <1>8, <1>10, <1>13, <1>14 DEF e, g, T
-----------------------------------------------------------------------------
(* What may have been added to the counters from one snapshot to a later   *)
(* one, whether they began again in between or not.                        *)
Grown(old, new, gain) ==
  \/ \A k \in Place : ~IsGauge(Series[k]) =>
       Value(old, k) <= Value(new, k) /\ Value(new, k) <= Value(old, k) + gain[k]
  \/ \A k \in Place : ~IsGauge(Series[k]) => Value(new, k) <= gain[k]

(* A counter of a receiver or an exporter is that of its first series; it  *)
(* does not seem to grow by more than one of its series has gained, even   *)
(* if the first of them is not the same any more.                          *)
LEMMA OwnerGrowth ==
  ASSUME NEW old \in Snapshots, NEW new \in Snapshots, WellExposed(old), WellExposed(new),
         NEW gain \in [Place -> Nat], Grown(old, new, gain),
         NEW metric \in Counters, NEW signal, NEW owner,
         LookupValue(old, OfOwner(metric, signal, owner)) # Absent,
         LookupValue(new, OfOwner(metric, signal, owner)) # Absent
  PROVE  LET p == LookupValue(old, OfOwner(metric, signal, owner))
             c == LookupValue(new, OfOwner(metric, signal, owner))
         IN  /\ p \in Nat /\ c \in Nat
             /\ \E j \in PlacesOf(metric, signal, owner) : c - p <= gain[j]
<1> DEFINE labels == OfOwner(metric, signal, owner)
           p == LookupValue(old, labels)
           c == LookupValue(new, labels)
<1>1. \A snap \in Snapshots : \A k \in Found(snap, labels) :
        /\ k \in Place /\ k \in PlacesOf(metric, signal, owner) /\ ~IsGauge(Series[k])
        /\ k \in DOMAIN snap.samples
        /\ Value(snap, k) = snap.samples[k] /\ snap.samples[k] \in Nat
  BY SnapshotFacts, OwnerMatches, PlacesFacts DEF Found, Value
<1>2. \A snap \in Snapshots, k \in Place :
        k \in PlacesOf(metric, signal, owner) /\ k \in DOMAIN snap.samples
          => k \in Found(snap, labels)
  BY OwnerMatches DEF Found
<1> HIDE DEF labels
<1>3. PICK i \in Found(old, labels) : p = old.samples[i] /\ \A k \in Found(old, labels) : i <= k
  BY LookupFirst DEF labels
<1>4. PICK j \in Found(new, labels) : c = new.samples[j] /\ \A k \in Found(new, labels) : j <= k
  BY LookupFirst DEF labels
<1>5. /\ i \in Place /\ i \in PlacesOf(metric, signal, owner) /\ ~IsGauge(Series[i])
      /\ i \in DOMAIN old.samples /\ p = Value(old, i) /\ p \in Nat
      /\ j \in Place /\ j \in PlacesOf(metric, signal, owner) /\ ~IsGauge(Series[j])
      /\ j \in DOMAIN new.samples /\ c = Value(new, j) /\ c \in Nat
  BY <1>1, <1>3, <1>4
<1>6. gain[j] \in Nat /\ Value(old, j) \in Nat /\ Value(old, i) \in Nat /\ Value(new, i) \in Nat
  BY <1>5, ValueFacts
<1> HIDE DEF p, c
<1>7. c - p <= gain[j]
  <2>1. CASE \A k \in Place : ~IsGauge(Series[k]) => Value(new, k) <= gain[k]
    <3>1. c <= gain[j]
      BY <1>5, <2>1
    <3> QED
      BY <1>5, <1>6, <3>1
  <2>2. CASE \A k \in Place : ~IsGauge(Series[k]) =>
               Value(old, k) <= Value(new, k) /\ Value(new, k) <= Value(old, k) + gain[k]
    <3>1. /\ Value(old, i) <= Value(new, i)
          /\ c <= Value(old, j) + gain[j]
      BY <1>5, <2>2
    <3>2. i \in DOMAIN new.samples
      <4>1. Value(old, i) > 0 \/ eager
        BY <1>5 DEF WellExposed
      <4>2. Value(new, i) > 0 \/ eager
        BY <1>6, <3>1, <4>1
      <4> QED
        BY <1>5, <4>2 DEF WellExposed
    <3>3. j <= i
      BY <1>2, <1>4, <1>5, <3>2
    <3>4. CASE j \in DOMAIN old.samples
      <4>1. i <= j
        BY <1>2, <1>3, <1>5, <3>4
      <4>2. i = j
        BY <1>5, <3>3, <4>1, SeriesFacts
      <4> QED
        BY <1>5, <1>6, <3>1, <4>2
    <3>5. CASE j \notin DOMAIN old.samples
      <4>1. Value(old, j) = 0
        BY <3>5 DEF Value
      <4> QED
        BY <1>5, <1>6, <3>1, <4>1
    <3> QED
      BY <3>4, <3>5
  <2> QED
    BY <2>1, <2>2 DEF Grown
<1> QED
  BY <1>5, <1>7 DEF p, c, labels

(* A step adds no more than what it counts. *)
Gain(iv) == [k \in Place |-> Count(iv, Series[k])]

LEMMA StepGrows ==
  ASSUME NEW prev, NEW curr, NEW iv, IsStep(prev, curr, iv)
  PROVE  Gain(iv) \in [Place -> Nat] /\ Grown(prev, curr, Gain(iv))
<1>1. /\ prev \in Snapshots /\ curr \in Snapshots /\ iv \in Intervals /\ Follows(prev, curr, iv)
  BY DEF IsStep
<1>2. \A k \in Place :
        /\ iv.after[Series[k]] \in Nat /\ Count(iv, Series[k]) \in Nat
        /\ Count(iv, Series[k]) >= iv.after[Series[k]] /\ Value(prev, k) \in Nat
        /\ Gain(iv)[k] = Count(iv, Series[k])
  BY <1>1, IntervalFacts, ValueFacts DEF Gain
<1>3. iv.restart => \A k \in Place : ~IsGauge(Series[k]) => Value(curr, k) <= Gain(iv)[k]
  BY <1>1, <1>2 DEF Follows
<1>4. ~iv.restart => \A k \in Place : ~IsGauge(Series[k]) =>
        Value(prev, k) <= Value(curr, k) /\ Value(curr, k) <= Value(prev, k) + Gain(iv)[k]
  <2> SUFFICES ASSUME ~iv.restart, NEW k \in Place, ~IsGauge(Series[k])
               PROVE  Value(prev, k) <= Value(curr, k) /\ Value(curr, k) <= Value(prev, k) + Gain(iv)[k]
    OBVIOUS
  <2>1. Value(curr, k) = Value(prev, k) + iv.after[Series[k]]
    BY <1>1 DEF Follows
  <2> QED
    BY <1>2, <2>1
<1>5. Gain(iv) \in [Place -> Nat]
  BY <1>2 DEF Gain
<1> QED
  BY <1>3, <1>4, <1>5 DEF Grown

(* The rate of a receiver or an exporter over one interval. *)
LEMMA OwnerRate ==
  ASSUME NEW prev, NEW curr, NEW iv, IsStep(prev, curr, iv),
         NEW metric \in Counters, NEW signal, NEW owner
  PROVE  LET rate == RatePerSecond(prev, curr, OfOwner(metric, signal, owner))
         IN  /\ rate \in Nat
             /\ rate > 0 => \E j \in PlacesOf(metric, signal, owner) :
                  Count(iv, Series[j]) > 0 /\ rate <= PerUnit(Count(iv, Series[j]), iv.seconds)
<1> DEFINE labels == OfOwner(metric, signal, owner)
           rate == RatePerSecond(prev, curr, labels)
           p == LookupValue(prev, labels)
           c == LookupValue(curr, labels)
           e == curr.at - prev.at
<1>1. /\ prev \in Snapshots /\ curr \in Snapshots /\ iv \in Intervals
      /\ WellExposed(prev) /\ WellExposed(curr) /\ Follows(prev, curr, iv)
  BY DEF IsStep
<1>2. iv.seconds \in Nat \ {0} /\ Unit \in Nat
  BY <1>1, IntervalFacts, UnitAssumption
<1>3. e = iv.seconds /\ ~(e <= 0)
  BY <1>1, <1>2, SnapshotFacts DEF Follows
<1>4. rate = IF p = Absent \/ c = Absent \/ c < p THEN 0 ELSE PerUnit(c - p, iv.seconds)
  <2>1. rate = IF p = Absent \/ c = Absent \/ c < p \/ e <= 0 THEN 0 ELSE PerUnit(c - p, e)
    BY DEF RatePerSecond
  <2> HIDE DEF rate, p, c, e
  <2> QED
    BY <1>3, <2>1
<1>5. p # Absent /\ c # Absent =>
        /\ p \in Nat /\ c \in Nat
        /\ \E j \in PlacesOf(metric, signal, owner) : c - p <= Gain(iv)[j]
  BY <1>1, StepGrows, OwnerGrowth
<1>6. \A j \in PlacesOf(metric, signal, owner) :
        /\ j \in Place /\ Gain(iv)[j] = Count(iv, Series[j]) /\ Count(iv, Series[j]) \in Nat
  BY <1>1, PlacesFacts, IntervalFacts DEF Gain
<1> HIDE DEF rate, p, c, e
<1>7. CASE p = Absent \/ c = Absent \/ c < p
  BY <1>4, <1>7 DEF rate, labels
<1>8. CASE ~(p = Absent \/ c = Absent \/ c < p)
  <2>1. PICK j \in PlacesOf(metric, signal, owner) : c - p <= Count(iv, Series[j])
    BY <1>5, <1>6, <1>8
  <2> DEFINE d == c - p
             n == Count(iv, Series[j])
  <2>2. d \in Nat /\ n \in Nat /\ d <= n /\ rate = PerUnit(d, iv.seconds)
    BY <1>4, <1>5, <1>6, <1>8, <2>1
  <2> HIDE DEF d, n
  <2>3. rate \in Nat /\ rate <= PerUnit(n, iv.seconds)
    BY <1>2, <2>2, PerUnitBounds
  <2>4. n = 0 => rate = 0
    <3> HAVE n = 0
    <3>1. d = 0 /\ rate * iv.seconds <= 0 * Unit
      BY <1>2, <2>2, PerUnitBounds
    <3> QED
      BY <1>2, <2>3, <3>1
  <2> QED
    BY <2>2, <2>3, <2>4 DEF rate, labels, n
<1> QED
  BY <1>7, <1>8
-----------------------------------------------------------------------------
TypeInv ==
  /\ store \in Seq(Snapshots) /\ truth \in Seq(Intervals)
  /\ Len(store) <= WindowSize /\ Len(truth) = Len(store)
  /\ counters \in [ToSet(Series) -> Nat]
  /\ scrapes \in 0 .. MaxScrapes /\ now \in Nat
  /\ eager \in BOOLEAN /\ sampled \in BOOLEAN

ExposedInv == \A i \in 1 .. Len(store) : WellExposed(store[i])

FollowsInv == \A i \in Ends : Follows(store[i - 1], store[i], truth[i])

GaugesInv ==
  \A i \in 1 .. Len(store), k \in Place :
    IsGauge(Series[k]) => /\ k \in DOMAIN store[i].samples
                          /\ store[i].samples[k] = truth[i].after[Series[k]]

LatestInv ==
  Len(store) > 0 => /\ store[Len(store)].at = now
                    /\ \A k \in Place : Value(store[Len(store)], k) = counters[Series[k]]

StoreInv == TypeInv /\ ExposedInv /\ FollowsInv /\ GaugesInv /\ LatestInv

(* What Push leaves of a window: its end, with the new snapshot after it.  *)
Pushed(s, x, t) ==
  /\ Len(t) \in 1 .. WindowSize
  /\ Len(t) = IF Len(s) < WindowSize THEN Len(s) + 1 ELSE WindowSize
  /\ t[Len(t)] = x
  /\ \A i \in 1 .. Len(t) - 1 :
       /\ i + (Len(s) + 1 - Len(t)) \in 1 .. Len(s)
       /\ t[i] = s[i + (Len(s) + 1 - Len(t))]

LEMMA PushProperties ==
  ASSUME NEW S, NEW s \in Seq(S), NEW x \in S, Len(s) <= WindowSize
  PROVE  Push(s, x) \in Seq(S) /\ Pushed(s, x, Push(s, x))
<1> DEFINE t == Append(s, x)
           n == Len(s)
           m == n + 1 - WindowSize + 1
<1>1. /\ t \in Seq(S) /\ Len(t) = n + 1 /\ t[n + 1] = x
      /\ \A i \in 1 .. n : t[i] = s[i]
      /\ \A i \in 1 .. n + 1 : t[i] \in S
  BY AppendProperties, ElementOfSeq
<1>2. n \in Nat /\ WindowSize \in Nat /\ WindowSize > 0 /\ n <= WindowSize
  BY WindowSizeAssumption, LenProperties
<1>3. Push(s, x) = IF n + 1 > WindowSize THEN SubSeq(t, m, n + 1) ELSE t
  <2>1. Push(s, x) = IF Len(t) > WindowSize THEN SubSeq(t, Len(t) - WindowSize + 1, Len(t)) ELSE t
    BY DEF Push
  <2> HIDE DEF t, n
  <2> QED
    BY <1>1, <1>2, <2>1
<1> HIDE DEF t
<1>4. CASE n = WindowSize
  <2> HIDE DEF n
  <2>1. m = 2 /\ n + 1 > WindowSize /\ n > 0
    BY <1>2, <1>4
  <2> HIDE DEF m
  <2> DEFINE f == SubSeq(t, 2, n + 1)
             e == n + 1
  <2>2. /\ \A i \in 2 .. e : t[i] \in S
        /\ e \in Int /\ 2 \in Int /\ (IF 2 <= e THEN e - 2 + 1 ELSE 0) = n /\ e - 2 + 1 = n
    BY <1>1, <1>2, <2>1
  <2> HIDE DEF e
  <2>3. /\ SubSeq(t, 2, e) \in Seq(S) /\ Len(SubSeq(t, 2, e)) = n
        /\ \A i \in 1 .. n : SubSeq(t, 2, e)[i] = t[2 + i - 1]
    BY <2>2, SubSeqProperties
  <2>4. Push(s, x) = f /\ f \in Seq(S) /\ Len(f) = n /\ \A i \in 1 .. n : f[i] = t[2 + i - 1]
    BY <1>3, <2>1, <2>3 DEF e
  <2> HIDE DEF f
  <2>5. f[n] = x
    <3>1. n \in 1 .. n /\ 2 + n - 1 = n + 1
      BY <1>2, <2>1
    <3> QED
      BY <1>1, <2>4, <3>1
  <2>6. ASSUME NEW i \in 1 .. n - 1
        PROVE  i + (n + 1 - n) \in 1 .. n /\ f[i] = s[i + (n + 1 - n)]
    <3>1. i \in 1 .. n /\ i + (n + 1 - n) \in 1 .. n /\ 2 + i - 1 = i + (n + 1 - n)
      BY <1>2
    <3> QED
      BY <1>1, <2>4, <3>1
  <2>7. n \in 1 .. WindowSize /\ n = IF n < WindowSize THEN n + 1 ELSE WindowSize
    BY <1>2, <1>4, <2>1
  <2>8. Pushed(s, x, f)
    BY <2>4, <2>5, <2>6, <2>7 DEF Pushed, n
  <2> QED
    BY <2>4, <2>8
<1>5. CASE n < WindowSize
  <2> HIDE DEF n
  <2>1. Push(s, x) = t
    BY <1>2, <1>3, <1>5
  <2>2. ASSUME NEW i \in 1 .. (n + 1) - 1
        PROVE  i + (n + 1 - (n + 1)) \in 1 .. n /\ t[i] = s[i + (n + 1 - (n + 1))]
    <3>1. i \in 1 .. n /\ i + (n + 1 - (n + 1)) = i
      BY <1>2
    <3> QED
      BY <1>1, <3>1
  <2>3. n + 1 \in 1 .. WindowSize /\ n + 1 = IF n < WindowSize THEN n + 1 ELSE WindowSize
    BY <1>2, <1>5
  <2>4. Pushed(s, x, t)
    BY <1>1, <2>2, <2>3 DEF Pushed, n
  <2> QED
    BY <1>1, <2>1, <2>4
<1>6. n = WindowSize \/ n < WindowSize
  <2> HIDE DEF n
  <2> QED
    BY <1>2
<1> QED
  BY <1>4, <1>5, <1>6

(* The samples of a scrape are what the counters say. *)
LEMMA ExposedFacts ==
  ASSUME NEW values \in [ToSet(Series) -> Nat], NEW at \in Nat
  PROVE  LET snap == [at |-> at, samples |-> Exposed(values)]
         IN  /\ snap \in Snapshots /\ WellExposed(snap) /\ snap.at = at
             /\ \A k \in Place : Value(snap, k) = values[Series[k]]
<1> DEFINE D == {k \in Place : values[Series[k]] > 0 \/ eager \/ IsGauge(Series[k])}
           snap == [at |-> at, samples |-> Exposed(values)]
<1>1. \A k \in Place : values[Series[k]] \in Nat
  BY SeriesFacts
<1>2. Exposed(values) = [k \in D |-> values[Series[k]]] /\ D \in SUBSET Place
  BY DEF Exposed, Place
<1>3. Exposed(values) \in [D -> Nat]
  BY <1>1, <1>2
<1>4. snap \in Snapshots
  BY <1>2, <1>3 DEF Snapshots
<1>5. snap.samples = Exposed(values) /\ snap.at = at /\ DOMAIN Exposed(values) = D
  BY <1>3
<1>6. ASSUME NEW k \in Place PROVE Value(snap, k) = values[Series[k]]
  <2>1. CASE k \in D
    <3>1. Exposed(values)[k] = values[Series[k]]
      BY <1>2, <2>1
    <3> HIDE DEF D, snap
    <3> QED
      BY <1>5, <2>1, <3>1 DEF Value
  <2>2. CASE k \notin D
    <3>1. values[Series[k]] = 0
      BY <1>1, <2>2
    <3> HIDE DEF D, snap
    <3> QED
      BY <1>5, <2>2, <3>1 DEF Value
  <2> QED
    BY <2>1, <2>2
<1>7. \A k \in Place : k \in D <=> values[Series[k]] > 0 \/ eager \/ IsGauge(Series[k])
  OBVIOUS
<1> HIDE DEF D, snap
<1>8. WellExposed(snap)
  BY <1>5, <1>6, <1>7 DEF WellExposed
<1> QED
  BY <1>4, <1>5, <1>6, <1>8 DEF snap

LEMMA InitStore == Init => StoreInv
<1> SUFFICES ASSUME Init PROVE StoreInv
  OBVIOUS
<1>1. store = <<>> /\ truth = <<>> /\ Len(store) = 0 /\ Len(truth) = 0
  BY EmptySeq DEF Init, NewStore
<1>2. store \in Seq(Snapshots) /\ truth \in Seq(Intervals)
  BY <1>1, EmptySeq
<1>3. eager \in BOOLEAN /\ sampled \in BOOLEAN
  <2>1. PICK s \in Setups : eager = s[1] /\ sampled = s[2]
    BY DEF Init
  <2> QED
    BY <2>1, SetupsAssumption
<1>4. TypeInv
  <2>1. counters \in [ToSet(Series) -> Nat] /\ now \in Nat /\ scrapes \in 0 .. MaxScrapes
    BY MaxScrapesAssumption DEF Init
  <2>2. Len(store) <= WindowSize /\ Len(truth) = Len(store)
    BY <1>1, WindowSizeAssumption
  <2> QED
    BY <1>2, <1>3, <2>1, <2>2 DEF TypeInv
<1>5. 1 .. Len(store) = {} /\ 2 .. Len(store) = {} /\ ~(Len(store) > 0)
  BY <1>1
<1> QED
  BY <1>4, <1>5 DEF StoreInv, ExposedInv, FollowsInv, GaugesInv, LatestInv, Ends

LEMMA ScrapeKeepsStore ==
  ASSUME StoreInv, NEW iv \in Intervals, Scrape(iv)
  PROVE  StoreInv'
<1> DEFINE snap == [at |-> now', samples |-> Exposed(counters')]
           d == Len(store) + 1 - Len(store')
           n == Len(store')
<1>1. /\ store \in Seq(Snapshots) /\ truth \in Seq(Intervals)
      /\ Len(store) <= WindowSize /\ Len(truth) = Len(store)
      /\ counters \in [ToSet(Series) -> Nat]
      /\ scrapes \in 0 .. MaxScrapes /\ now \in Nat
      /\ eager \in BOOLEAN /\ sampled \in BOOLEAN
  BY DEF StoreInv, TypeInv
<1>2. /\ iv.seconds \in Nat \ {0}
      /\ \A k \in Place : iv.after[Series[k]] \in Nat
      /\ iv.after \in [ToSet(Series) -> Nat]
  BY IntervalFacts, IntervalsAssumption
<1>3. /\ eager' = eager /\ sampled' = sampled
      /\ scrapes < MaxScrapes /\ scrapes' = scrapes + 1
      /\ now' = now + iv.seconds
      /\ counters' = [s \in ToSet(Series) |->
           IF iv.restart \/ IsGauge(s) THEN iv.after[s] ELSE counters[s] + iv.after[s]]
      /\ store' = Push(store, snap) /\ truth' = Push(truth, iv)
  BY DEF Scrape
<1>4. counters' \in [ToSet(Series) -> Nat] /\ now' \in Nat
  BY <1>1, <1>2, <1>3
<1>5. /\ snap \in Snapshots /\ WellExposed(snap) /\ snap.at = now'
      /\ \A k \in Place : Value(snap, k) = counters'[Series[k]]
  BY <1>4, ExposedFacts
<1>6. \A s : WellExposed(s)' <=> WellExposed(s)
  BY <1>3 DEF WellExposed
<1> HIDE DEF snap
<1>7. store' \in Seq(Snapshots) /\ Pushed(store, snap, store')
  BY <1>1, <1>3, <1>5, PushProperties
<1>8. truth' \in Seq(Intervals) /\ Pushed(truth, iv, truth')
  BY <1>1, <1>3, PushProperties
<1>9. /\ n \in Nat /\ n >= 1 /\ n <= WindowSize /\ Len(truth') = n
      /\ store'[n] = snap /\ truth'[n] = iv
      /\ d \in Nat /\ d = Len(truth) + 1 - Len(truth')
      /\ n - 1 + d = Len(store)
      /\ \A i \in 1 .. n - 1 :
           i + d \in 1 .. Len(store) /\ store'[i] = store[i + d] /\ truth'[i] = truth[i + d]
  <2>1. Len(store) \in Nat /\ WindowSize \in Nat
    BY <1>1, LenProperties, WindowSizeAssumption
  <2>2. /\ n \in 1 .. WindowSize /\ n = IF Len(store) < WindowSize THEN Len(store) + 1 ELSE WindowSize
        /\ Len(truth') = n
        /\ store'[n] = snap /\ truth'[n] = iv
        /\ \A i \in 1 .. n - 1 :
             i + d \in 1 .. Len(store) /\ store'[i] = store[i + d] /\ truth'[i] = truth[i + d]
    BY <1>1, <1>7, <1>8 DEF Pushed
  <2>3. d = Len(truth) + 1 - Len(truth')
    BY <1>1, <2>2
  <2>4. n \in Nat /\ n >= 1 /\ n <= WindowSize /\ d \in Nat /\ n - 1 + d = Len(store)
    <3> DEFINE l == Len(store)
    <3>1. /\ l \in Nat /\ l <= WindowSize /\ n \in 1 .. WindowSize
          /\ n = IF l < WindowSize THEN l + 1 ELSE WindowSize
          /\ d = l + 1 - n
      BY <1>1, <2>1, <2>2
    <3> HIDE DEF l, n, d
    <3>2. n \in Nat /\ n >= 1 /\ n <= WindowSize /\ d \in Nat /\ n - 1 + d = l
      BY <2>1, <3>1
    <3> QED
      BY <3>2 DEF l
  <2> QED
    BY <2>2, <2>3, <2>4
<1>10. \A i \in 1 .. n : i \in 1 .. n - 1 \/ i = n
  BY <1>9
<1>11. TypeInv'
  <2>1. scrapes' \in 0 .. MaxScrapes
    BY <1>1, <1>3, MaxScrapesAssumption
  <2> QED
    BY <1>1, <1>3, <1>4, <1>7, <1>8, <1>9, <2>1 DEF TypeInv
<1>12. ExposedInv'
  <2> SUFFICES ASSUME NEW i \in 1 .. n PROVE WellExposed(store'[i])
    BY <1>6 DEF ExposedInv, WellExposed
  <2>1. CASE i \in 1 .. n - 1
    BY <1>9, <2>1 DEF StoreInv, ExposedInv
  <2>2. CASE i = n
    BY <1>5, <1>9, <2>2
  <2> QED
    BY <1>10, <2>1, <2>2
<1>13. FollowsInv'
  <2> SUFFICES ASSUME NEW i \in 2 .. n PROVE Follows(store'[i - 1], store'[i], truth'[i])
    BY DEF FollowsInv, Ends, Follows
  <2>1. i \in 1 .. n /\ i - 1 \in 1 .. n - 1
    BY <1>9
  <2>2. CASE i \in 1 .. n - 1
    <3>1. i + d \in 2 .. Len(store) /\ (i - 1) + d = (i + d) - 1
      <4>1. i + d \in 1 .. Len(store) /\ (i - 1) + d \in 1 .. Len(store)
        BY <1>9, <2>1, <2>2
      <4> HIDE DEF d, n
      <4> QED
        BY <1>1, <1>9, <4>1
    <3>2. /\ store'[i] = store[i + d] /\ truth'[i] = truth[i + d]
          /\ store'[i - 1] = store[(i + d) - 1]
      BY <1>9, <2>1, <2>2, <3>1
    <3> HIDE DEF d
    <3> QED
      BY <3>1, <3>2 DEF StoreInv, FollowsInv, Ends
  <2>3. CASE i = n
    <3>1. store'[i - 1] = store[Len(store)] /\ Len(store) > 0
      <4>1. (i - 1) + d = Len(store) /\ (i - 1) + d \in 1 .. Len(store) /\ store'[i - 1] = store[(i - 1) + d]
        BY <1>9, <2>1, <2>3
      <4> HIDE DEF d
      <4> QED
        BY <4>1
    <3>2. /\ store[Len(store)].at = now
          /\ \A k \in Place : Value(store[Len(store)], k) = counters[Series[k]]
      BY <3>1 DEF StoreInv, LatestInv
    <3>3. \A k \in Place : ~IsGauge(Series[k]) =>
            counters'[Series[k]] = IF iv.restart THEN iv.after[Series[k]]
                                   ELSE counters[Series[k]] + iv.after[Series[k]]
      BY <1>3, SeriesFacts
    <3>4. Follows(store[Len(store)], snap, iv)
      BY <1>3, <1>5, <3>2, <3>3 DEF Follows
    <3> QED
      BY <1>9, <2>3, <3>1, <3>4
  <2> QED
    BY <1>10, <2>1, <2>2, <2>3
<1>14. GaugesInv'
  <2> SUFFICES ASSUME NEW i \in 1 .. n, NEW k \in Place, IsGauge(Series[k])
               PROVE  /\ k \in DOMAIN store'[i].samples
                      /\ store'[i].samples[k] = truth'[i].after[Series[k]]
    BY DEF GaugesInv
  <2>1. CASE i \in 1 .. n - 1
    BY <1>9, <2>1 DEF StoreInv, GaugesInv
  <2>2. CASE i = n
    <3>1. k \in DOMAIN snap.samples /\ Value(snap, k) = counters'[Series[k]]
      BY <1>5 DEF WellExposed
    <3>2. counters'[Series[k]] = iv.after[Series[k]]
      BY <1>3, SeriesFacts
    <3> QED
      BY <1>9, <2>2, <3>1, <3>2 DEF Value
  <2> QED
    BY <1>10, <2>1, <2>2
<1>15. LatestInv'
  BY <1>5, <1>9 DEF LatestInv, Value
<1> QED
  BY <1>11, <1>12, <1>13, <1>14, <1>15 DEF StoreInv

LEMMA ResetKeepsStore ==
  ASSUME StoreInv, ResetStore
  PROVE  StoreInv'
<1>1. store' = <<>> /\ truth' = <<>> /\ Len(store') = 0 /\ Len(truth') = 0
  BY EmptySeq DEF ResetStore, Clear
<1>2. store' \in Seq(Snapshots) /\ truth' \in Seq(Intervals)
  BY <1>1, EmptySeq
<1>3. TypeInv'
  <2>1. UNCHANGED <<counters, now, eager, sampled, scrapes>>
    BY DEF ResetStore
  <2>2. Len(store') <= WindowSize /\ Len(truth') = Len(store')
    BY <1>1, WindowSizeAssumption
  <2> QED
    BY <1>2, <2>1, <2>2 DEF StoreInv, TypeInv
<1>4. 1 .. Len(store') = {} /\ 2 .. Len(store') = {} /\ ~(Len(store') > 0)
  BY <1>1
<1> QED
  BY <1>3, <1>4 DEF StoreInv, ExposedInv, FollowsInv, GaugesInv, LatestInv, Ends

LEMMA StutterKeepsStore ==
  ASSUME StoreInv, UNCHANGED vars
  PROVE  StoreInv'
BY DEF vars, StoreInv, TypeInv, ExposedInv, WellExposed, FollowsInv, GaugesInv, LatestInv, Ends

(* The window is what the scrapes and resets made of it, in every state.   *)
THEOREM StoreIsFaithful == Spec => []StoreInv
<1>1. StoreInv /\ [Next]_vars => StoreInv'
  BY ScrapeKeepsStore, ResetKeepsStore, StutterKeepsStore DEF Next
<1> QED
  BY <1>1, InitStore, PTL DEF Spec
-----------------------------------------------------------------------------
LEMMA WindowSteps ==
  ASSUME StoreInv, NEW i \in Ends
  PROVE  /\ i \in 1 .. Len(store) /\ i - 1 \in 1 .. Len(store) /\ Len(store) \in Nat
         /\ truth[i] \in Intervals
         /\ IsStep(store[i - 1], store[i], truth[i])
         /\ Elapsed(i) = truth[i].seconds /\ Elapsed(i) \in Nat \ {0}
         /\ Unit % Elapsed(i) = 0
         /\ Undisturbed(i) <=> Calm(store[i - 1], truth[i])
<1>1. store \in Seq(Snapshots) /\ truth \in Seq(Intervals) /\ Len(truth) = Len(store)
  BY DEF StoreInv, TypeInv
<1>2. Len(store) \in Nat
  BY <1>1, LenProperties
<1>3. i \in 1 .. Len(store) /\ i - 1 \in 1 .. Len(store)
  BY <1>2 DEF Ends
<1>4. store[i] \in Snapshots /\ store[i - 1] \in Snapshots /\ truth[i] \in Intervals
  BY <1>1, <1>3, ElementOfSeq
<1>5. WellExposed(store[i]) /\ WellExposed(store[i - 1])
  BY <1>3 DEF StoreInv, ExposedInv
<1>6. Follows(store[i - 1], store[i], truth[i])
  BY DEF StoreInv, FollowsInv
<1>7. IsStep(store[i - 1], store[i], truth[i])
  BY <1>4, <1>5, <1>6 DEF IsStep
<1>8. truth[i].seconds \in Nat \ {0} /\ Unit % truth[i].seconds = 0
  BY <1>4, IntervalFacts
<1>9. Elapsed(i) = truth[i].seconds
  <2>1. store[i].at = store[i - 1].at + truth[i].seconds /\ store[i - 1].at \in Nat
    BY <1>4, <1>6, SnapshotFacts DEF Follows
  <2> QED
    BY <1>8, <2>1 DEF Elapsed
<1>10. Undisturbed(i) <=> Calm(store[i - 1], truth[i])
  BY DEF Undisturbed, Calm, Place
<1> QED
  BY <1>2, <1>3, <1>4, <1>7, <1>8, <1>9, <1>10

(* The rates of a signal over the intervals of the window. *)
LEMMA RateFacts ==
  ASSUME StoreInv, NEW i \in Ends, NEW metric \in Counters, NEW signal
  PROVE  /\ Rate(i, metric, signal) \in Nat /\ Real(i, metric, signal) \in Nat
         /\ Rate(i, metric, signal) * Elapsed(i) <= Real(i, metric, signal) * Unit
         /\ Undisturbed(i) =>
              Rate(i, metric, signal) * Elapsed(i) = Real(i, metric, signal) * Unit
<1>1. Real(i, metric, signal) = SumFunction(Counts(truth[i], Places(metric, signal)))
  BY DEF Real, RealAt, Counts
<1> QED
  BY <1>1, WindowSteps, SignalRate DEF Rate

\* What each series has counted in each interval of the window.
History(k) == [i \in Ends |-> Count(truth[i], Series[k])]
Totals(b) == [k \in Place |-> SumOn(History(k), 2 .. b)]

LEMMA HistoryFacts ==
  ASSUME StoreInv
  PROVE  /\ IsFiniteSet(Ends) /\ Len(store) \in Nat
         /\ \A k \in Place : Summable(History(k), Ends)
         /\ \A b : Totals(b) \in [Place -> Nat]
<1>1. Len(store) \in Nat
  BY LenProperties DEF StoreInv, TypeInv
<1>2. IsFiniteSet(Ends)
  BY <1>1, FS_Interval DEF Ends
<1>3. \A k \in Place, i \in Ends : Count(truth[i], Series[k]) \in Nat
  BY WindowSteps, IntervalFacts
<1>4. \A k \in Place : Summable(History(k), Ends)
  BY <1>2, <1>3 DEF Summable, History
<1>5. \A b : \A k \in Place : SumOn(History(k), 2 .. b) \in Nat
  BY <1>4, SumOnSteps
<1>6. \A b : Totals(b) \in [Place -> Nat]
  BY <1>5 DEF Totals
<1> QED
  BY <1>1, <1>2, <1>4, <1>6

(* From the first snapshot of the window to any later one. *)
LEMMA WindowGrows ==
  ASSUME StoreInv, NEW n \in Ends
  PROVE  /\ Grown(store[1], store[n], Totals(n))
         /\ store[n].at - store[1].at \in Nat \ {0}
<1> DEFINE T == {m \in 0 .. Len(store) - 1 :
                   /\ Grown(store[1], store[m + 1], Totals(m + 1))
                   /\ store[m + 1].at >= store[1].at + m}
<1>1. /\ Len(store) \in Nat /\ Len(store) - 1 \in Nat /\ Len(store) >= 2
      /\ \A k \in Place : Summable(History(k), Ends)
      /\ \A b : Totals(b) \in [Place -> Nat]
  BY HistoryFacts DEF Ends
<1>2. \A i \in 1 .. Len(store) : store[i] \in Snapshots /\ store[i].at \in Nat
  BY ElementOfSeq, SnapshotFacts DEF StoreInv, TypeInv
<1>3. \A i \in 1 .. Len(store), k \in Place : Value(store[i], k) \in Nat
  BY <1>2, ValueFacts
<1>4. 0 \in T
  <2>1. 1 \in 1 .. Len(store) /\ 0 \in 0 .. Len(store) - 1 /\ 0 + 1 = 1
    BY <1>1
  <2>2. \A k \in Place : Value(store[1], k) \in Nat /\ Totals(1)[k] \in Nat
    BY <1>1, <1>3, <2>1
  <2>3. \A k \in Place : Value(store[1], k) <= Value(store[1], k)
                         /\ Value(store[1], k) <= Value(store[1], k) + Totals(1)[k]
    BY <2>2
  <2>4. Grown(store[1], store[1], Totals(1))
    BY <2>3 DEF Grown
  <2>5. store[1].at >= store[1].at + 0
    BY <1>2, <2>1
  <2> QED
    BY <2>1, <2>4, <2>5
<1>5. ASSUME NEW m \in 1 .. Len(store) - 1, m - 1 \in T
      PROVE  m \in T
  <2> DEFINE b == m + 1
  <2>1. /\ b \in Ends /\ b - 1 = m /\ m \in 1 .. Len(store) /\ m \in 0 .. Len(store) - 1
        /\ b \in Int /\ 2 \in Int /\ 2 <= b /\ 1 \in 1 .. Len(store) /\ b \in 1 .. Len(store)
        /\ (m - 1) + 1 = m
    BY <1>1 DEF Ends
  <2>2. Grown(store[1], store[m], Totals(m)) /\ store[m].at >= store[1].at + (m - 1)
    BY <1>5, <2>1
  <2> HIDE DEF T, b
  <2>3. /\ truth[b] \in Intervals
        /\ IsStep(store[m], store[b], truth[b])
    BY <2>1, WindowSteps
  <2>4. /\ Follows(store[m], store[b], truth[b])
        /\ truth[b].seconds \in Nat \ {0} /\ truth[b].restart \in BOOLEAN
    BY <2>3, IntervalFacts DEF IsStep
  <2>5. ASSUME NEW k \in Place
        PROVE  /\ Totals(b)[k] = Count(truth[b], Series[k]) + Totals(m)[k]
               /\ Count(truth[b], Series[k]) \in Nat /\ Totals(m)[k] \in Nat
               /\ truth[b].after[Series[k]] \in Nat
               /\ Count(truth[b], Series[k]) >= truth[b].after[Series[k]]
               /\ Value(store[1], k) \in Nat /\ Value(store[m], k) \in Nat
    <3>1. SumOn(History(k), 2 .. b) = History(k)[b] + SumOn(History(k), 2 .. b - 1)
      <4>1. IsFiniteSet(Ends) /\ Summable(History(k), Ends)
        BY HistoryFacts
      <4> QED
        BY <2>1, <4>1, SumInterval
    <3>2. History(k)[b] = Count(truth[b], Series[k])
      BY <2>1 DEF History
    <3>3. Totals(b)[k] = SumOn(History(k), 2 .. b) /\ Totals(m)[k] = SumOn(History(k), 2 .. m)
      BY DEF Totals
    <3>4. Totals(m)[k] \in Nat
      BY <1>1
    <3> QED
      BY <1>3, <2>1, <2>3, <3>1, <3>2, <3>3, <3>4, IntervalFacts
  <2>6. Grown(store[1], store[b], Totals(b))
    <3>1. CASE truth[b].restart
      <4>1. ASSUME NEW k \in Place, ~IsGauge(Series[k])
            PROVE  Value(store[b], k) <= Totals(b)[k]
        <5>1. Value(store[b], k) = truth[b].after[Series[k]]
          BY <2>4, <3>1, <4>1 DEF Follows
        <5> QED
          BY <2>5, <5>1
      <4> QED
        BY <4>1 DEF Grown
    <3>2. CASE ~truth[b].restart
      <4>1. ASSUME NEW k \in Place, ~IsGauge(Series[k])
            PROVE  Value(store[b], k) = Value(store[m], k) + truth[b].after[Series[k]]
        BY <2>4, <3>2, <4>1 DEF Follows
      <4>2. CASE \A k \in Place : ~IsGauge(Series[k]) => Value(store[m], k) <= Totals(m)[k]
        <5>1. ASSUME NEW k \in Place, ~IsGauge(Series[k])
              PROVE  Value(store[b], k) <= Totals(b)[k]
          BY <2>5, <4>1, <4>2, <5>1
        <5> QED
          BY <5>1 DEF Grown
      <4>3. CASE \A k \in Place : ~IsGauge(Series[k]) =>
                   Value(store[1], k) <= Value(store[m], k)
                   /\ Value(store[m], k) <= Value(store[1], k) + Totals(m)[k]
        <5>1. ASSUME NEW k \in Place, ~IsGauge(Series[k])
              PROVE  Value(store[1], k) <= Value(store[b], k)
                     /\ Value(store[b], k) <= Value(store[1], k) + Totals(b)[k]
          BY <2>5, <4>1, <4>3, <5>1
        <5> QED
          BY <5>1 DEF Grown
      <4> QED
        BY <2>2, <4>2, <4>3 DEF Grown
    <3> QED
      BY <3>1, <3>2
  <2>7. store[b].at >= store[1].at + m
    <3>1. store[b].at = store[m].at + truth[b].seconds
      BY <2>4 DEF Follows
    <3>2. store[m].at \in Nat /\ store[1].at \in Nat /\ m \in Nat
      BY <1>2, <2>1
    <3> QED
      BY <2>2, <2>4, <3>1, <3>2
  <2> QED
    BY <2>1, <2>6, <2>7 DEF T, b
<1>6. n - 1 \in T
  <2>1. n - 1 \in 0 .. Len(store) - 1
    BY <1>1 DEF Ends
  <2> HIDE DEF T
  <2>2. \A m \in 0 .. Len(store) - 1 : m \in T
    BY <1>1, <1>4, <1>5, UpTo
  <2> QED
    BY <2>1, <2>2
<1>7. n \in 2 .. Len(store) /\ (n - 1) + 1 = n /\ n \in 1 .. Len(store) /\ 1 \in 1 .. Len(store)
  BY <1>1 DEF Ends
<1>8. Grown(store[1], store[n], Totals(n)) /\ store[n].at >= store[1].at + (n - 1)
  BY <1>6, <1>7
<1>9. store[n].at - store[1].at \in Nat \ {0}
  <2>1. store[n].at \in Nat /\ store[1].at \in Nat
    BY <1>2, <1>7
  <2> QED
    BY <1>7, <1>8, <2>1
<1> QED
  BY <1>8, <1>9

LEMMA TypesHold ==
  ASSUME StoreInv
  PROVE  TypeOK
<1>1. \A i \in Ends : Elapsed(i) \in Nat \ {0}
  BY WindowSteps
<1>2. \A i \in Ends : Elapsed(i) > 0
  BY <1>1
<1>3. Len(store) \in 0 .. WindowSize
  BY HistoryFacts, WindowSizeAssumption DEF StoreInv, TypeInv
<1> QED
  BY <1>2, <1>3 DEF StoreInv, TypeInv, TypeOK

(* The window, the counters and the clock have their types, and time goes  *)
(* on from each snapshot to the next.                                      *)
THEOREM LiveTypeCorrect == Spec => []TypeOK
<1>1. StoreInv => TypeOK
  BY TypesHold
<1> QED
  BY <1>1, StoreIsFaithful, PTL

(* What the dashboard shows of one receiver or exporter (store.go:191-217). *)
LEMMA OwnerWindow ==
  ASSUME StoreInv, Len(store) >= 2, NEW metric \in Counters, NEW signal, NEW owner
  PROVE  /\ WindowRatePerSecond(store, OfOwner(metric, signal, owner)) \in Nat
         /\ Most(metric, signal, owner) \in Nat
         /\ WindowRatePerSecond(store, OfOwner(metric, signal, owner)) <= Most(metric, signal, owner)
<1> DEFINE n == Len(store)
           P == PlacesOf(metric, signal, owner)
           labels == OfOwner(metric, signal, owner)
           rate == WindowRatePerSecond(store, labels)
           p == LookupValue(store[1], labels)
           c == LookupValue(store[n], labels)
           elapsed == store[n].at - store[1].at
           reals == [i \in Ends |-> RealAt(i, P)]
           whole == PerUnit(SumFunction(reals), elapsed)
           last == PerUnit(RealAt(n, P), Elapsed(n))
           latest == RatePerSecond(store[n - 1], store[n], labels)
<1>1. n \in Ends /\ n \in Nat /\ 1 \in 1 .. n /\ n \in 1 .. n /\ Ends = 2 .. n
  BY HistoryFacts DEF Ends
<1>2. /\ IsStep(store[n - 1], store[n], truth[n]) /\ truth[n] \in Intervals
      /\ Elapsed(n) = truth[n].seconds /\ Elapsed(n) \in Nat \ {0}
  BY <1>1, WindowSteps
<1>3. /\ store[1] \in Snapshots /\ store[n] \in Snapshots
      /\ WellExposed(store[1]) /\ WellExposed(store[n])
  BY <1>1, ElementOfSeq DEF StoreInv, TypeInv, ExposedInv
<1>4. P \subseteq Place /\ P \in SUBSET Place
  BY PlacesFacts
<1>5. \A i \in Ends : /\ RealAt(i, P) = SumFunction(Counts(truth[i], P))
                      /\ RealAt(i, P) \in Nat
                      /\ \A j \in P : Count(truth[i], Series[j]) <= RealAt(i, P)
  <2>1. \A i \in Ends : RealAt(i, P) = SumFunction(Counts(truth[i], P))
    BY DEF RealAt, Counts
  <2> HIDE DEF P
  <2> QED
    BY <1>4, <2>1, WindowSteps, CountsFacts
<1>6. Summable(reals, Ends) /\ SumFunction(reals) \in Nat
  <2>1. Summable(reals, Ends)
    BY <1>5, HistoryFacts DEF Summable
  <2> HIDE DEF reals
  <2> QED
    BY <2>1, SumRemove
<1>7. \A i \in Ends : reals[i] = RealAt(i, P)
  OBVIOUS
<1>8. elapsed \in Nat \ {0}
  BY <1>1, WindowGrows
<1>9. whole \in Nat /\ last \in Nat
  <2> HIDE DEF reals, elapsed
  <2>1. RealAt(n, P) \in Nat
    BY <1>1, <1>5
  <2> QED
    BY <1>2, <1>6, <1>8, <2>1, PerUnitBounds
<1>10. Most(metric, signal, owner) = IF whole < last THEN last ELSE whole
  BY DEF Most
<1>11. ASSUME NEW j \in P
       PROVE  Totals(n)[j] <= SumFunction(reals)
  <2>1. j \in Place
    BY <1>4
  <2>2. Summable(History(j), Ends)
    BY <2>1, HistoryFacts
  <2>3. Totals(n)[j] = SumFunction(History(j))
    <3>1. Ends \subseteq 2 .. n
      BY <1>1
    <3>2. SumOn(History(j), 2 .. n) = SumFunction(History(j))
      BY <2>2, <3>1, SumOnSteps
    <3> QED
      BY <2>1, <3>2 DEF Totals
  <2>4. \A i \in Ends : History(j)[i] \in Nat /\ History(j)[i] <= RealAt(i, P)
    BY <1>5, <2>1, WindowSteps, IntervalFacts DEF History
  <2> HIDE DEF reals, P
  <2>5. /\ \A i \in Ends \cap Ends : History(j)[i] * 1 <= reals[i] * 1
        /\ \A i \in Ends \ Ends : History(j)[i] = 0
    BY <1>5, <1>7, <2>4
  <2>6. SumFunction(History(j)) * 1 <= SumFunction(reals) * 1
    BY <1>6, <2>2, <2>5, SumScaled
  <2>7. SumFunction(History(j)) \in Nat
    BY <2>2, SumRemove
  <2> QED
    BY <1>6, <2>3, <2>6, <2>7
<1>12. latest \in Nat /\ latest <= last
  <2>1. /\ latest \in Nat
        /\ latest > 0 => \E j \in P : /\ Count(truth[n], Series[j]) > 0
                                      /\ latest <= PerUnit(Count(truth[n], Series[j]), truth[n].seconds)
    BY <1>2, OwnerRate
  <2> HIDE DEF P, latest, last
  <2>2. CASE latest = 0
    BY <1>9, <2>2
  <2>3. CASE latest > 0
    <3>1. PICK j \in P : latest <= PerUnit(Count(truth[n], Series[j]), Elapsed(n))
      BY <1>2, <2>1, <2>3
    <3> DEFINE a == Count(truth[n], Series[j])
               b == RealAt(n, P)
    <3>2. a \in Nat /\ b \in Nat /\ a <= b
      BY <1>1, <1>2, <1>4, <1>5, IntervalFacts
    <3> HIDE DEF a, b
    <3>3. PerUnit(a, Elapsed(n)) <= PerUnit(b, Elapsed(n)) /\ PerUnit(a, Elapsed(n)) \in Nat
      BY <1>2, <3>2, PerUnitBounds
    <3>4. last = PerUnit(b, Elapsed(n)) /\ latest <= PerUnit(a, Elapsed(n))
      BY <3>1 DEF last, a, b
    <3> QED
      BY <1>9, <2>1, <3>3, <3>4
  <2> QED
    BY <2>1, <2>2, <2>3
<1>13. /\ Grown(store[1], store[n], Totals(n)) /\ Totals(n) \in [Place -> Nat]
  BY <1>1, WindowGrows, HistoryFacts
<1>14. p # Absent /\ c # Absent =>
         /\ p \in Nat /\ c \in Nat
         /\ \E j \in P : c - p <= Totals(n)[j]
  <2> HIDE DEF n
  <2> QED
    BY <1>3, <1>13, OwnerGrowth
<1>15. rate = IF elapsed < MinWindowElapsed \/ p = Absent \/ c = Absent THEN 0
              ELSE IF c < p THEN latest ELSE PerUnit(c - p, elapsed)
  <2>1. ~(Len(store) < 2)
    BY <1>1
  <2> QED
    BY <2>1 DEF WindowRatePerSecond
<1> HIDE DEF rate, p, c, elapsed, reals, whole, last, latest, P
<1>16. rate \in Nat /\ (rate <= whole \/ rate <= last)
  <2>1. CASE elapsed < MinWindowElapsed \/ p = Absent \/ c = Absent
    BY <1>9, <1>15, <2>1
  <2>2. CASE ~(elapsed < MinWindowElapsed \/ p = Absent \/ c = Absent) /\ c < p
    BY <1>12, <1>15, <2>2
  <2>3. CASE ~(elapsed < MinWindowElapsed \/ p = Absent \/ c = Absent) /\ ~(c < p)
    <3>1. rate = PerUnit(c - p, elapsed) /\ p \in Nat /\ c \in Nat
      BY <1>14, <1>15, <2>3
    <3>2. PICK j \in P : c - p <= Totals(n)[j]
      BY <1>14, <2>3
    <3>3. Totals(n)[j] \in Nat /\ Totals(n)[j] <= SumFunction(reals)
      BY <1>4, <1>11, <1>13
    <3> DEFINE d == c - p
               s == SumFunction(reals)
    <3>4. d \in Nat /\ s \in Nat /\ d <= s /\ rate = PerUnit(d, elapsed) /\ whole = PerUnit(s, elapsed)
      BY <1>6, <2>3, <3>1, <3>2, <3>3 DEF whole
    <3> HIDE DEF d, s
    <3>5. PerUnit(d, elapsed) \in Nat /\ PerUnit(d, elapsed) <= PerUnit(s, elapsed)
      BY <1>8, <3>4, PerUnitBounds
    <3> QED
      BY <3>4, <3>5
  <2> QED
    BY <2>1, <2>2, <2>3
<1>17. rate <= IF whole < last THEN last ELSE whole
  BY <1>9, <1>16
<1> QED
  BY <1>9, <1>10, <1>16, <1>17 DEF rate, labels

AllOwners == {s.owner : s \in ToSet(Series)}

LEMMA OwnersFacts ==
  ASSUME NEW snap \in Snapshots, NEW metrics
  PROVE  IsFiniteSet(AllOwners) /\ Owners(snap, metrics) \subseteq AllOwners
<1> DEFINE f == [k \in Place |-> Series[k].owner]
<1>1. ToSet(Series) = {Series[k] : k \in Place}
  BY DEF ToSet, Place
<1>2. f \in Surjection(Place, AllOwners)
  <2>1. f \in [Place -> AllOwners] /\ \A o \in AllOwners : \E k \in Place : f[k] = o
    BY <1>1 DEF AllOwners
  <2> QED
    BY <2>1 DEF Surjection
<1>3. IsFiniteSet(AllOwners)
  <2> HIDE DEF f
  <2> QED
    BY <1>2, SeriesFacts, FS_Surjection
<1>4. Owners(snap, metrics) \subseteq AllOwners
  BY <1>1, SnapshotFacts DEF Owners, AllOwners
<1> QED
  BY <1>3, <1>4

(* What it shows of a signal: the sum over those that are exposed. *)
LEMMA SignalShown ==
  ASSUME StoreInv, Len(store) >= 2, NEW metric \in Counters, NEW signal
  PROVE  SignalMetrics(store, signal)[metric] <=
           SumFunction([o \in AllOwners |-> Most(metric, signal, o)])
<1> DEFINE newest == store[Len(store)]
           W(o) == WindowRatePerSecond(store, OfOwner(metric, signal, o))
           receivers == Owners(newest, {"accepted"})
           exporters == Owners(newest, {"sent", "failed", "queue_size", "queue_capacity"})
           S == IF metric = "accepted" THEN receivers ELSE exporters
           f == [o \in S |-> W(o)]
           g == [o \in AllOwners |-> Most(metric, signal, o)]
<1>1. newest \in Snapshots
  <2>1. Len(store) \in 1 .. Len(store) /\ store \in Seq(Snapshots)
    BY HistoryFacts DEF StoreInv, TypeInv
  <2> QED
    BY <2>1, ElementOfSeq
<1>2. SignalMetrics(store, signal)[metric] = SumFunction(f)
  <2>1. SignalMetrics(store, signal) =
          [accepted |-> SumFunction([o \in receivers |->
                          WindowRatePerSecond(store, OfOwner("accepted", signal, o))]),
           sent |-> SumFunction([o \in exporters |->
                          WindowRatePerSecond(store, OfOwner("sent", signal, o))]),
           failed |-> SumFunction([o \in exporters |->
                          WindowRatePerSecond(store, OfOwner("failed", signal, o))])]
    BY DEF SignalMetrics
  <2>2. CASE metric = "accepted"
    BY <2>1, <2>2
  <2>3. CASE metric = "sent"
    BY <2>1, <2>3
  <2>4. CASE metric = "failed"
    BY <2>1, <2>4
  <2> QED
    BY <2>2, <2>3, <2>4 DEF Counters
<1>3. S \subseteq AllOwners /\ IsFiniteSet(AllOwners)
  <2> HIDE DEF newest
  <2> QED
    BY <1>1, OwnersFacts
<1>4. IsFiniteSet(S)
  <2> HIDE DEF S
  <2> QED
    BY <1>3, FS_Subset
<1> HIDE DEF S
<1>5. \A o : W(o) \in Nat /\ Most(metric, signal, o) \in Nat /\ W(o) <= Most(metric, signal, o)
  BY OwnerWindow
<1> HIDE DEF W
<1>6. Summable(f, S) /\ Summable(g, AllOwners)
  BY <1>3, <1>4, <1>5 DEF Summable
<1>7. \A o \in S : f[o] = W(o) /\ g[o] = Most(metric, signal, o)
  BY <1>3
<1> HIDE DEF f, g
<1>8. /\ \A o \in S \cap AllOwners : f[o] * 1 <= g[o] * 1
      /\ \A o \in S \ AllOwners : f[o] = 0
  BY <1>3, <1>5, <1>7
<1>9. SumFunction(f) * 1 <= SumFunction(g) * 1 /\ SumFunction(f) \in Nat /\ SumFunction(g) \in Nat
  BY <1>6, <1>8, SumScaled, SumRemove
<1>10. SumFunction(f) <= SumFunction(g)
  BY <1>9
<1> QED
  BY <1>2, <1>10 DEF g

LEMMA RatesHold == StoreInv => RatesAreNotInflated
<1> SUFFICES ASSUME StoreInv, NEW signal \in Signals, NEW metric \in Counters
             PROVE  /\ \A i \in Ends :
                         Rate(i, metric, signal) * Elapsed(i) <= Real(i, metric, signal) * Unit
                    /\ Len(store) >= 2 =>
                         SignalMetrics(store, signal)[metric] <=
                           SumFunction([o \in AllOwners |-> Most(metric, signal, o)])
  BY DEF RatesAreNotInflated, Counters, AllOwners
<1> QED
  BY RateFacts, SignalShown

(* No rate exceeds the traffic there was, whatever the series, receivers   *)
(* and exporters, and however often the collector restarts.                *)
THEOREM RatesAreSound == Spec => []RatesAreNotInflated
BY StoreIsFaithful, RatesHold, PTL
-----------------------------------------------------------------------------
(* Recursion over 1 .. N defines a function. *)
LEMMA Recursion ==
  ASSUME NEW D, NEW d \in D, NEW N \in Nat, NEW step \in [1 .. N -> [D -> D]]
  PROVE  \E g \in [0 .. N -> D] :
            g[0] = d /\ \A i \in 1 .. N : g[i] = step[i][g[i - 1]]
<1> DEFINE IsUpTo(n, g) == \A i \in 0 .. n : g[i] = IF i = 0 THEN d ELSE step[i][g[i - 1]]
           T == {n \in 0 .. N : \E g \in [0 .. n -> D] : IsUpTo(n, g)}
<1>1. 0 \in T
  <2> DEFINE h == [i \in 0 .. 0 |-> d]
  <2>1. h \in [0 .. 0 -> D] /\ IsUpTo(0, h)
    OBVIOUS
  <2> HIDE DEF h, IsUpTo
  <2>2. 0 \in 0 .. N
    OBVIOUS
  <2> QED
    BY <2>1, <2>2
<1>2. ASSUME NEW n \in 1 .. N, n - 1 \in T
      PROVE  n \in T
  <2>1. PICK g \in [0 .. n - 1 -> D] : IsUpTo(n - 1, g)
    BY <1>2
  <2>2. n - 1 \in 0 .. n - 1 /\ n \in 1 .. N /\ n \in 0 .. N /\ n \notin 0 .. n - 1
    OBVIOUS
  <2>3. step[n][g[n - 1]] \in D
    BY <2>2
  <2> DEFINE h == [i \in 0 .. n |-> IF i = n THEN step[n][g[n - 1]] ELSE g[i]]
  <2>4. \A i \in 0 .. n : i # n => i \in 0 .. n - 1
    OBVIOUS
  <2>5. h \in [0 .. n -> D]
    BY <2>3, <2>4
  <2>6. ASSUME NEW i \in 0 .. n
        PROVE  h[i] = IF i = 0 THEN d ELSE step[i][h[i - 1]]
    <3>1. CASE i = n
      <4>1. h[i] = step[n][g[n - 1]] /\ i # 0
        BY <3>1
      <4>2. n - 1 \in 0 .. n /\ n - 1 # n
        OBVIOUS
      <4>3. h[n - 1] = g[n - 1]
        BY <4>2
      <4> QED
        BY <4>1, <4>3, <3>1
    <3>2. CASE i # n
      <4>1. i \in 0 .. n - 1 /\ (i # 0 => i - 1 \in 0 .. n /\ i - 1 # n)
        BY <3>2
      <4>2. h[i] = g[i] /\ (i # 0 => h[i - 1] = g[i - 1])
        BY <4>1, <3>2
      <4> QED
        BY <2>1, <4>1, <4>2
    <3> QED
      BY <3>1, <3>2
  <2>7. IsUpTo(n, h)
    BY <2>6
  <2> QED
    BY <2>2, <2>5, <2>7
<1>3. N \in T
  <2> HIDE DEF T
  <2>1. \A i \in 0 .. N : i \in T
    BY <1>1, <1>2, UpTo
  <2> QED
    BY <2>1
<1>4. PICK g \in [0 .. N -> D] : IsUpTo(N, g)
  BY <1>3
<1> QED
  BY <1>4

(* The count of a loop over the window; what it comes to is the value of   *)
(* some such function at the last snapshot.                                *)
Tally(first, skipped, bad, count) ==
  count = [i \in 0 .. Len(store) |->
             IF i < first THEN 0
             ELSE IF i \in skipped THEN count[i - 1]
             ELSE IF i \in bad THEN count[i - 1] + 1 ELSE 0]

LEMMA SustainedTallies ==
  ASSUME StoreInv, NEW first \in Nat \ {0}, NEW skipped, NEW bad
  PROVE  \E g \in [0 .. Len(store) -> Nat] :
           /\ Sustained(first, skipped, bad) = g[Len(store)]
           /\ \A i \in 0 .. Len(store) :
                /\ i < first => g[i] = 0
                /\ i >= first =>
                     /\ i - 1 \in 0 .. Len(store)
                     /\ i \in skipped => g[i] = g[i - 1]
                     /\ i \notin skipped /\ i \in bad => g[i] = g[i - 1] + 1
                     /\ i \notin skipped /\ i \notin bad => g[i] = 0
<1> DEFINE N == Len(store)
           Step(i, x) == IF i < first THEN 0
                         ELSE IF i \in skipped THEN x
                         ELSE IF i \in bad THEN x + 1 ELSE 0
           step == [i \in 1 .. N |-> [x \in Nat |-> Step(i, x)]]
           c == CHOOSE count : Tally(first, skipped, bad, count)
<1>1. N \in Nat /\ first \in Nat /\ first # 0
  BY HistoryFacts
<1>2. Sustained(first, skipped, bad) = c[N]
  BY DEF Sustained, Tally
<1> HIDE DEF N
<1>3. step \in [1 .. N -> [Nat -> Nat]]
  OBVIOUS
<1>4. \A i \in 1 .. N, x \in Nat : step[i][x] = Step(i, x)
  OBVIOUS
<1> HIDE DEF step
<1>5. PICK g \in [0 .. N -> Nat] : g[0] = 0 /\ \A i \in 1 .. N : g[i] = step[i][g[i - 1]]
  <2> DEFINE D == Nat
  <2>1. 0 \in D /\ N \in Nat /\ step \in [1 .. N -> [D -> D]]
    BY <1>1, <1>3
  <2> HIDE DEF Step, D
  <2>2. \E g \in [0 .. N -> D] : g[0] = 0 /\ \A i \in 1 .. N : g[i] = step[i][g[i - 1]]
    BY <2>1, Recursion
  <2> QED
    BY <2>2 DEF D
<1>6. ASSUME NEW i \in 0 .. N
      PROVE  /\ i < first => g[i] = 0
             /\ i >= first => i \in 1 .. N /\ i - 1 \in 0 .. N /\ g[i] = Step(i, g[i - 1])
  <2>1. i = 0 => i < first /\ g[i] = 0 /\ ~(i >= first)
    BY <1>1, <1>5
  <2>2. i # 0 => i \in 1 .. N /\ i - 1 \in 0 .. N
    BY <1>1
  <2>3. i # 0 => g[i - 1] \in Nat /\ g[i] = Step(i, g[i - 1])
    BY <1>4, <1>5, <2>2
  <2> QED
    BY <1>1, <2>1, <2>2, <2>3
<1>7. Tally(first, skipped, bad, g)
  <2>1. g = [i \in 0 .. N |-> g[i]]
    OBVIOUS
  <2>2. \A i \in 0 .. N : g[i] = Step(i, g[i - 1])
    BY <1>1, <1>6
  <2> QED
    BY <2>1, <2>2 DEF Tally, N
<1>8. Tally(first, skipped, bad, c)
  BY <1>7
<1> HIDE DEF c
<1>9. c = [i \in 0 .. N |-> c[i]] /\ \A i \in 0 .. N : c[i] = Step(i, c[i - 1])
  BY <1>8 DEF Tally, N
<1>10. \A i \in 0 .. N : c[i] \in Nat
  <2> DEFINE T == {i \in 0 .. N : c[i] \in Nat}
  <2>1. 0 \in T
    <3>1. 0 \in 0 .. N /\ 0 < first
      BY <1>1
    <3>2. c[0] = 0
      BY <1>9, <3>1
    <3> QED
      BY <3>1, <3>2
  <2>2. ASSUME NEW i \in 1 .. N, i - 1 \in T
        PROVE  i \in T
    <3>1. i \in 0 .. N /\ c[i - 1] \in Nat
      BY <2>2
    <3>2. c[i] = Step(i, c[i - 1])
      BY <1>9, <3>1
    <3>3. c[i] \in Nat
      BY <3>1, <3>2
    <3> QED
      BY <3>1, <3>3
  <2> HIDE DEF T
  <2>3. \A i \in 0 .. N : i \in T
    BY <1>1, <2>1, <2>2, UpTo
  <2> QED
    BY <2>3 DEF T
<1>11. c \in [0 .. N -> Nat]
  BY <1>9, <1>10
<1>12. \A i \in 0 .. N :
         /\ i < first => c[i] = 0
         /\ i >= first =>
              /\ i - 1 \in 0 .. N
              /\ i \in skipped => c[i] = c[i - 1]
              /\ i \notin skipped /\ i \in bad => c[i] = c[i - 1] + 1
              /\ i \notin skipped /\ i \notin bad => c[i] = 0
  <2> SUFFICES ASSUME NEW i \in 0 .. N
               PROVE  /\ i < first => c[i] = 0
                      /\ i >= first =>
                           /\ i - 1 \in 0 .. N
                           /\ i \in skipped => c[i] = c[i - 1]
                           /\ i \notin skipped /\ i \in bad => c[i] = c[i - 1] + 1
                           /\ i \notin skipped /\ i \notin bad => c[i] = 0
    OBVIOUS
  <2>1. c[i] = Step(i, c[i - 1])
    BY <1>9
  <2>2. (i >= first => ~(i < first) /\ i - 1 \in 0 .. N)
    BY <1>1
  <2>3. ASSUME i >= first
        PROVE  c[i] = IF i \in skipped THEN c[i - 1]
                      ELSE IF i \in bad THEN c[i - 1] + 1 ELSE 0
    BY <2>1, <2>2, <2>3
  <2> HIDE DEF Step
  <2>4. i < first => c[i] = 0
    BY <2>1 DEF Step
  <2> QED
    BY <2>2, <2>3, <2>4
<1> QED
  BY <1>2, <1>11, <1>12 DEF N

(* A count of two or more: the last two bad indices, with nothing but      *)
(* skipped ones between and after them.                                    *)
LEMMA SustainedTwice ==
  ASSUME StoreInv, NEW first \in Nat \ {0}, NEW skipped, NEW bad,
         Sustained(first, skipped, bad) >= 2
  PROVE  \E i, j \in first .. Len(store) :
           /\ i < j /\ i \in bad /\ j \in bad /\ i \notin skipped /\ j \notin skipped
           /\ \A k \in i .. Len(store) : k \notin {i, j} => k \in skipped
<1> DEFINE N == Len(store)
           Hit(i) == i \in bad /\ i \notin skipped
           Once(m) == \E j \in first .. m :
                        Hit(j) /\ \A k \in j .. m : k # j => k \in skipped
           Twice(m) == \E i, j \in first .. m :
                         /\ i < j /\ Hit(i) /\ Hit(j)
                         /\ \A k \in i .. m : k \notin {i, j} => k \in skipped
<1>1. N \in Nat /\ first \in Nat
  BY HistoryFacts
<1>2. PICK g \in [0 .. N -> Nat] :
        /\ Sustained(first, skipped, bad) = g[N]
        /\ \A i \in 0 .. N :
             /\ i < first => g[i] = 0
             /\ i >= first =>
                  /\ i - 1 \in 0 .. N
                  /\ i \in skipped => g[i] = g[i - 1]
                  /\ i \notin skipped /\ i \in bad => g[i] = g[i - 1] + 1
                  /\ i \notin skipped /\ i \notin bad => g[i] = 0
  BY SustainedTallies
<1> DEFINE T == {m \in 0 .. N : (g[m] >= 1 => Once(m)) /\ (g[m] >= 2 => Twice(m))}
<1> HIDE DEF N, Once, Twice
<1>3. 0 \in T
  <2>1. 0 \in 0 .. N /\ 0 < first /\ g[0] = 0
    BY <1>1, <1>2
  <2> QED
    BY <2>1
<1>4. ASSUME NEW m \in 1 .. N, m - 1 \in T
      PROVE  m \in T
  <2>1. m \in 0 .. N /\ m - 1 \in 0 .. N /\ g[m] \in Nat /\ g[m - 1] \in Nat
    BY <1>1
  <2>2. (g[m - 1] >= 1 => Once(m - 1)) /\ (g[m - 1] >= 2 => Twice(m - 1))
    BY <1>4
  <2>3. CASE m < first \/ (m \notin skipped /\ m \notin bad)
    <3>1. g[m] = 0
      BY <1>1, <1>2, <2>1, <2>3
    <3> QED
      BY <2>1, <3>1
  <2>4. CASE m >= first /\ m \in skipped
    <3>1. g[m] = g[m - 1]
      BY <1>2, <2>1, <2>4
    <3>2. \A j \in first .. m - 1 :
            j \in first .. m /\ \A k \in j .. m : k \in j .. m - 1 \/ k = m
      BY <1>1
    <3>3. Once(m - 1) => Once(m)
      BY <2>4, <3>2 DEF Once
    <3>4. Twice(m - 1) => Twice(m)
      BY <2>4, <3>2 DEF Twice
    <3> QED
      BY <2>1, <2>2, <3>1, <3>3, <3>4
  <2>5. CASE m >= first /\ m \notin skipped /\ m \in bad
    <3>1. g[m] = g[m - 1] + 1
      BY <1>2, <2>1, <2>5
    <3>2. m \in first .. m /\ Hit(m) /\ \A k \in m .. m : k = m
      BY <1>1, <2>5
    <3>3. Once(m)
      BY <3>2 DEF Once
    <3>4. Once(m - 1) => Twice(m)
      <4> HAVE Once(m - 1)
      <4>1. PICK i \in first .. m - 1 : Hit(i) /\ \A k \in i .. m - 1 : k # i => k \in skipped
        BY DEF Once
      <4>2. i < m /\ i \in first .. m /\ m \in first .. m
            /\ \A k \in i .. m : k \in i .. m - 1 \/ k = m
        BY <1>1, <2>5
      <4>3. \A k \in i .. m : k \notin {i, m} => k \in skipped
        BY <4>1, <4>2
      <4> QED
        BY <3>2, <4>1, <4>2, <4>3 DEF Twice
    <3>5. g[m] >= 2 => g[m - 1] >= 1
      BY <2>1, <3>1
    <3> QED
      BY <2>1, <2>2, <3>3, <3>4, <3>5
  <2> QED
    BY <1>1, <2>3, <2>4, <2>5
<1>5. N \in T
  <2> HIDE DEF T
  <2>1. \A m \in 0 .. N : m \in T
    BY <1>1, <1>3, <1>4, UpTo
  <2> QED
    BY <1>1, <2>1
<1>6. Twice(N)
  BY <1>2, <1>5
<1> QED
  BY <1>6 DEF Twice, N

(* A count that skips nothing has come to three if and only if the last    *)
(* three indices are bad.                                                  *)
LEMMA SustainedThrice ==
  ASSUME StoreInv, NEW bad, Len(store) >= 4
  PROVE  Sustained(2, {}, bad) >= 3 <=> \A i \in Len(store) - 2 .. Len(store) : i \in bad
<1> DEFINE N == Len(store)
<1>1. N \in Nat /\ N >= 4
  BY HistoryFacts
<1>2. PICK g \in [0 .. N -> Nat] :
        /\ Sustained(2, {}, bad) = g[N]
        /\ \A i \in 0 .. N :
             i >= 2 =>
               /\ i \in bad => g[i] = g[i - 1] + 1
               /\ i \notin bad => g[i] = 0
  <2>1. 2 \in Nat \ {0}
    OBVIOUS
  <2>2. \E g \in [0 .. N -> Nat] :
          /\ Sustained(2, {}, bad) = g[N]
          /\ \A i \in 0 .. N :
               /\ i < 2 => g[i] = 0
               /\ i >= 2 =>
                    /\ i - 1 \in 0 .. N
                    /\ i \in {} => g[i] = g[i - 1]
                    /\ i \notin {} /\ i \in bad => g[i] = g[i - 1] + 1
                    /\ i \notin {} /\ i \notin bad => g[i] = 0
    <3> DEFINE none == {}
    <3> HIDE DEF none
    <3>1. \E g \in [0 .. N -> Nat] :
            /\ Sustained(2, none, bad) = g[N]
            /\ \A i \in 0 .. N :
                 /\ i < 2 => g[i] = 0
                 /\ i >= 2 =>
                      /\ i - 1 \in 0 .. N
                      /\ i \in none => g[i] = g[i - 1]
                      /\ i \notin none /\ i \in bad => g[i] = g[i - 1] + 1
                      /\ i \notin none /\ i \notin bad => g[i] = 0
      BY <2>1, SustainedTallies
    <3> QED
      BY <3>1 DEF none
  <2> HIDE DEF N
  <2> QED
    BY <2>2
<1> HIDE DEF N
<1>3. /\ N \in 0 .. N /\ N - 1 \in 0 .. N /\ N - 2 \in 0 .. N /\ N - 3 \in 0 .. N
      /\ N >= 2 /\ N - 1 >= 2 /\ N - 2 >= 2
      /\ N - 1 - 1 = N - 2 /\ N - 2 - 1 = N - 3
      /\ \A i \in N - 2 .. N : i \in {N, N - 1, N - 2}
      /\ N \in N - 2 .. N /\ N - 1 \in N - 2 .. N /\ N - 2 \in N - 2 .. N
  BY <1>1
<1>4. g[N] \in Nat /\ g[N - 1] \in Nat /\ g[N - 2] \in Nat /\ g[N - 3] \in Nat
  BY <1>3
<1>5. /\ N \in bad => g[N] = g[N - 1] + 1
      /\ N \notin bad => g[N] = 0
      /\ N - 1 \in bad => g[N - 1] = g[N - 2] + 1
      /\ N - 1 \notin bad => g[N - 1] = 0
      /\ N - 2 \in bad => g[N - 2] = g[N - 3] + 1
      /\ N - 2 \notin bad => g[N - 2] = 0
  BY <1>2, <1>3
<1>6. g[N] >= 3 <=> N \in bad /\ N - 1 \in bad /\ N - 2 \in bad
  <2>1. CASE N \in bad /\ N - 1 \in bad /\ N - 2 \in bad
    BY <1>4, <1>5, <2>1
  <2>2. CASE N \notin bad
    BY <1>5, <2>2
  <2>3. CASE N \in bad /\ N - 1 \notin bad
    BY <1>5, <2>3
  <2>4. CASE N \in bad /\ N - 1 \in bad /\ N - 2 \notin bad
    BY <1>5, <2>4
  <2> QED
    BY <2>1, <2>2, <2>3, <2>4
<1> QED
  BY <1>2, <1>3, <1>6 DEF N

(* A good index sets the count back. *)
LEMMA SustainedCleared ==
  ASSUME StoreInv, NEW first \in Nat \ {0}, NEW skipped, NEW bad,
         Len(store) >= first, Len(store) \notin skipped, Len(store) \notin bad
  PROVE  Sustained(first, skipped, bad) = 0
<1>1. Len(store) \in Nat /\ Len(store) \in 0 .. Len(store)
  BY HistoryFacts
<1> QED
  BY <1>1, SustainedTallies
-----------------------------------------------------------------------------
LEMMA StrictProduct ==
  ASSUME NEW a \in Nat, NEW b \in Nat, NEW e \in Nat \ {0}
  PROVE  a > b <=> a * e > b * e
<1>1. b <= a => b * e <= a * e
  BY ProductMonotone
<1>2. a <= b => a * e <= b * e
  BY ProductMonotone
<1>3. a > b => a * e >= (b + 1) * e
  BY ProductMonotone
<1>4. (b + 1) * e = b * e + e /\ b * e \in Nat /\ a * e \in Nat
  OBVIOUS
<1> QED
  BY <1>2, <1>3, <1>4

(* Numbers and what they are multiples of compare alike. *)
LEMMA ScaledOrder ==
  ASSUME NEW a \in Nat, NEW b \in Nat, NEW c \in Nat, NEW d \in Nat,
         NEW e \in Nat \ {0}, NEW u \in Nat \ {0}, NEW p \in Nat, NEW q \in Nat,
         a * e = c * u, b * e = d * u
  PROVE  p * a > q * b <=> p * c > q * d
<1>1. (p * a) * e = p * (a * e) /\ (q * b) * e = q * (b * e)
  OBVIOUS
<1>2. (p * c) * u = p * (c * u) /\ (q * d) * u = q * (d * u)
  OBVIOUS
<1>3. p * a \in Nat /\ q * b \in Nat /\ p * c \in Nat /\ q * d \in Nat
  OBVIOUS
<1>4. p * a > q * b <=> (p * a) * e > (q * b) * e
  BY <1>3, StrictProduct
<1>5. p * c > q * d <=> (p * c) * u > (q * d) * u
  BY <1>3, StrictProduct
<1> QED
  BY <1>1, <1>2, <1>4, <1>5

(* A rate of nothing is zero; a rate of zero is exact only if it is one of *)
(* nothing.                                                                *)
LEMMA RateOfNothing ==
  ASSUME StoreInv, NEW i \in Ends, NEW metric \in Counters, NEW signal
  PROVE  /\ Real(i, metric, signal) = 0 => Rate(i, metric, signal) = 0
         /\ Undisturbed(i) /\ Rate(i, metric, signal) = 0 => Real(i, metric, signal) = 0
<1> DEFINE rate == Rate(i, metric, signal)
           real == Real(i, metric, signal)
           e == Elapsed(i)
<1>1. /\ rate \in Nat /\ real \in Nat /\ e \in Nat \ {0} /\ Unit \in Nat \ {0}
      /\ rate * e <= real * Unit
      /\ Undisturbed(i) => rate * e = real * Unit
  BY RateFacts, WindowSteps, UnitAssumption
<1> HIDE DEF rate, real, e
<1>2. (rate > 0 <=> rate * e > 0 * e) /\ (real > 0 <=> real * Unit > 0 * Unit)
  BY <1>1, StrictProduct
<1>3. 0 * e = 0 /\ 0 * Unit = 0
  BY <1>1
<1>4. real = 0 => rate = 0
  <2> HAVE real = 0
  <2>1. real * Unit = 0 /\ rate * e \in Nat
    BY <1>1
  <2> QED
    BY <1>1, <1>2, <1>3, <2>1
<1>5. Undisturbed(i) /\ rate = 0 => real = 0
  <2> HAVE Undisturbed(i) /\ rate = 0
  <2>1. rate * e = 0 /\ real * Unit = 0
    BY <1>1
  <2> QED
    BY <1>1, <1>2, <1>3, <2>1
<1> QED
  BY <1>4, <1>5 DEF rate, real

(* The last intervals of the window. *)
LEMMA LastEnds ==
  ASSUME StoreInv
  PROVE  /\ Len(store) \in Nat
         /\ Len(store) >= 2 => Len(store) \in Ends
         /\ Len(store) >= 4 => \A i \in Len(store) - 2 .. Len(store) : i \in Ends
<1>1. Len(store) \in Nat
  BY HistoryFacts
<1> QED
  BY <1>1 DEF Ends

LEMMA ZeroHolds ==
  ASSUME StoreInv
  PROVE  ZeroIsReal /\ SilenceIsReported
<1>1. \A signal : \A i \in Ends : Rate(i, "accepted", signal) \in Nat
  BY RateFacts DEF Counters
<1>2. ASSUME ZeroThroughput, NEW i \in Len(store) - 2 .. Len(store), Undisturbed(i),
             NEW signal \in Signals
      PROVE  Real(i, "accepted", signal) = 0
  <2>1. i \in Ends /\ ~(Rate(i, "accepted", signal) > 0)
    BY <1>2, LastEnds DEF ZeroThroughput, AnyTraffic
  <2>2. Rate(i, "accepted", signal) = 0
    BY <1>1, <2>1
  <2> QED
    BY <1>2, <2>1, <2>2, RateOfNothing DEF Counters
<1>3. ASSUME Len(store) >= 4,
             \A i \in Len(store) - 2 .. Len(store), signal \in Signals :
               Real(i, "accepted", signal) = 0
      PROVE  ZeroThroughput
  <2>1. ASSUME NEW i \in Len(store) - 2 .. Len(store), NEW signal \in Signals
        PROVE  ~(Rate(i, "accepted", signal) > 0)
    <3>1. i \in Ends /\ Real(i, "accepted", signal) = 0
      BY <1>3, LastEnds
    <3>2. Rate(i, "accepted", signal) = 0
      BY <3>1, RateOfNothing DEF Counters
    <3> QED
      BY <3>2
  <2> QED
    BY <1>3, <2>1 DEF ZeroThroughput, AnyTraffic
<1> QED
  BY <1>2, <1>3 DEF ZeroIsReal, SilenceIsReported

(* Undisturbed, two metrics of two signals compare as what was counted.    *)
LEMMA RatesCompare ==
  ASSUME StoreInv, NEW i \in Ends, Undisturbed(i), NEW p \in Nat, NEW q \in Nat,
         NEW m \in Counters, NEW k \in Counters, NEW s, NEW t
  PROVE  p * Rate(i, m, s) > q * Rate(i, k, t) <=> p * Real(i, m, s) > q * Real(i, k, t)
<1>1. /\ Rate(i, m, s) \in Nat /\ Real(i, m, s) \in Nat
      /\ Rate(i, k, t) \in Nat /\ Real(i, k, t) \in Nat
      /\ Rate(i, m, s) * Elapsed(i) = Real(i, m, s) * Unit
      /\ Rate(i, k, t) * Elapsed(i) = Real(i, k, t) * Unit
  BY RateFacts
<1>2. Elapsed(i) \in Nat \ {0} /\ Unit \in Nat \ {0}
  BY WindowSteps, UnitAssumption
<1> QED
  BY <1>1, <1>2, ScaledOrder

LEMMA DominanceHolds ==
  ASSUME StoreInv
  PROVE  DominanceIsReal
<1> DEFINE n == Len(store)
<1> SUFFICES ASSUME LogVolumeDominance, Undisturbed(n)
             PROVE  Real(n, "accepted", "logs") > 3 * Real(n, "accepted", "traces")
  BY DEF DominanceIsReal
<1>1. n \in Ends /\ Rate(n, "accepted", "logs") > 3 * Rate(n, "accepted", "traces")
  BY LastEnds DEF LogVolumeDominance
<1>2. "accepted" \in Counters
  BY DEF Counters
<1>3. /\ Rate(n, "accepted", "logs") \in Nat /\ Real(n, "accepted", "logs") \in Nat
  BY <1>1, <1>2, RateFacts
<1>4. 1 * Rate(n, "accepted", "logs") > 3 * Rate(n, "accepted", "traces")
        <=> 1 * Real(n, "accepted", "logs") > 3 * Real(n, "accepted", "traces")
  BY <1>1, <1>2, RatesCompare
<1> QED
  BY <1>1, <1>3, <1>4
-----------------------------------------------------------------------------
(* What a loss alarm stands for: two intervals with traffic in which too   *)
(* little seems to have gone out, and the last one unless it is skipped.   *)
Loses(i, signal, a, b) ==
  /\ Rate(i, "accepted", signal) > 0
  /\ a * Rate(i, "accepted", signal) > b * Rate(i, "sent", signal)

LEMMA LossIsSustained ==
  ASSUME StoreInv, NEW needs \in Nat, needs >= 2, NEW count \in Nat, count >= 2,
         NEW a, NEW b, NEW signal \in LossRule(needs, count, a, b)
  PROVE  /\ \E i, j \in Ends : i < j /\ Loses(i, signal, a, b) /\ Loses(j, signal, a, b)
         /\ Rate(Len(store), "accepted", signal) > 0 => Loses(Len(store), signal, a, b)
<1> DEFINE n == Len(store)
           in == [i \in Ends |-> Rate(i, "accepted", signal)]
           out == [i \in Ends |-> Rate(i, "sent", signal)]
           skipped == {i \in Ends : in[i] <= 0}
           bad == {i \in Ends : a * in[i] > b * out[i]}
<1>1. n >= needs /\ Sustained(2, skipped, bad) >= count
  BY DEF LossRule
<1>2. \A i \in Ends : /\ i \in skipped <=> Rate(i, "accepted", signal) <= 0
                      /\ i \in bad <=> a * Rate(i, "accepted", signal) > b * Rate(i, "sent", signal)
  OBVIOUS
<1>3. \A i \in Ends : Rate(i, "accepted", signal) \in Nat
  BY RateFacts DEF Counters
<1> HIDE DEF skipped, bad, in, out
<1>4. /\ n \in Nat /\ n \in Ends /\ Ends = 2 .. n /\ 2 \in Nat \ {0} /\ n >= 2
  BY <1>1, LastEnds DEF Ends
<1>5. Sustained(2, skipped, bad) \in Nat /\ ~(Sustained(2, skipped, bad) = 0)
  <2>1. Sustained(2, skipped, bad) \in Nat
    <3>1. n \in 0 .. n
      BY <1>4
    <3> QED
      BY <1>4, <3>1, SustainedTallies
  <2> QED
    BY <1>1, <2>1
<1>6. Sustained(2, skipped, bad) >= 2
  BY <1>1, <1>5
<1>7. \E i, j \in Ends : i < j /\ i \in bad /\ j \in bad /\ i \notin skipped /\ j \notin skipped
  BY <1>4, <1>6, SustainedTwice
<1>8. n \in skipped \/ n \in bad
  BY <1>4, <1>5, SustainedCleared
<1>9. \A i \in Ends : i \in bad /\ i \notin skipped => Loses(i, signal, a, b)
  BY <1>2, <1>3 DEF Loses
<1>10. Rate(n, "accepted", signal) > 0 => Loses(n, signal, a, b)
  BY <1>2, <1>3, <1>4, <1>8, <1>9
<1> QED
  BY <1>7, <1>9, <1>10

(* Both rules on losses. *)
LEMMA LossAlarms ==
  ASSUME StoreInv, NEW signal \in HighDropRate \cup ReceiverExporterMismatch
  PROVE  \E a, b \in Nat :
           /\ <<a, b>> \in {<<9, 10>>, <<1, 2>>}
           /\ \E i, j \in Ends : i < j /\ Loses(i, signal, a, b) /\ Loses(j, signal, a, b)
           /\ Rate(Len(store), "accepted", signal) > 0 => Loses(Len(store), signal, a, b)
<1>1. CASE signal \in HighDropRate
  <2>1. signal \in LossRule(3, 2, 9, 10)
    BY <1>1 DEF HighDropRate
  <2>2. 3 \in Nat /\ 3 >= 2 /\ 2 \in Nat /\ 2 >= 2 /\ 9 \in Nat /\ 10 \in Nat
    OBVIOUS
  <2> QED
    BY <2>1, <2>2, LossIsSustained
<1>2. CASE signal \in ReceiverExporterMismatch
  <2>1. signal \in LossRule(4, 3, 1, 2)
    BY <1>2 DEF ReceiverExporterMismatch
  <2>2. 4 \in Nat /\ 4 >= 2 /\ 3 \in Nat /\ 3 >= 2 /\ 1 \in Nat /\ 2 \in Nat
    OBVIOUS
  <2> QED
    BY <2>1, <2>2, LossIsSustained
<1> QED
  BY <1>1, <1>2

(* An undisturbed interval in which nothing is lost counts for neither.    *)
LEMMA NoLossSeen ==
  ASSUME StoreInv, NEW i \in Ends, Undisturbed(i), NEW signal, Lossless(i, signal),
         NEW a \in Nat, NEW b \in Nat, <<a, b>> \in {<<9, 10>>, <<1, 2>>}
  PROVE  ~Loses(i, signal, a, b)
<1> DEFINE A == Real(i, "accepted", signal)
           S == Real(i, "sent", signal)
<1>1. "accepted" \in Counters /\ "sent" \in Counters
  BY DEF Counters
<1>2. A \in Nat /\ S \in Nat /\ 10 * S >= 9 * A
  BY <1>1, RateFacts DEF Lossless
<1>3. a * Rate(i, "accepted", signal) > b * Rate(i, "sent", signal) <=> a * A > b * S
  BY <1>1, RatesCompare
<1>4. Rate(i, "accepted", signal) > 0 => A > 0
  <2>1. A = 0 => Rate(i, "accepted", signal) = 0
    BY <1>1, RateOfNothing
  <2> HIDE DEF A
  <2> QED
    BY <1>2, <2>1
<1>5. (a = 9 /\ b = 10) \/ (a = 1 /\ b = 2)
  OBVIOUS
<1> HIDE DEF A, S
<1>6. A > 0 => ~(a * A > b * S)
  BY <1>2, <1>5
<1> QED
  BY <1>3, <1>4, <1>6 DEF Loses

LEMMA GoodIntervalHolds ==
  ASSUME StoreInv
  PROVE  GoodIntervalClears
<1> DEFINE n == Len(store)
<1> SUFFICES ASSUME n >= 2, Undisturbed(n), NEW signal \in Signals,
                    Real(n, "accepted", signal) > 0, Lossless(n, signal),
                    signal \in HighDropRate \cup ReceiverExporterMismatch
             PROVE  FALSE
  BY DEF GoodIntervalClears
<1>1. n \in Ends /\ "accepted" \in Counters
  BY LastEnds DEF Counters
<1>2. Rate(n, "accepted", signal) \in Nat /\ Real(n, "accepted", signal) \in Nat
  BY <1>1, RateFacts
<1>3. Rate(n, "accepted", signal) > 0
  <2>1. Rate(n, "accepted", signal) # 0
    BY <1>1, RateOfNothing
  <2> QED
    BY <1>2, <2>1
<1>4. PICK a, b \in Nat : /\ <<a, b>> \in {<<9, 10>>, <<1, 2>>}
                          /\ Loses(n, signal, a, b)
  BY <1>3, LossAlarms
<1> QED
  BY <1>1, <1>4, NoLossSeen

(* With counters from the start only a restart disturbs an interval, and a *)
(* restart is of one interval.                                             *)
LEMMA EagerIsCalm ==
  ASSUME StoreInv, eager, NEW i \in Ends
  PROVE  Undisturbed(i) <=> ~truth[i].restart
<1>1. IsStep(store[i - 1], store[i], truth[i])
  BY WindowSteps
<1>2. \A k \in DOMAIN Series : k \in DOMAIN store[i - 1].samples
  BY <1>1 DEF IsStep, WellExposed, Place
<1> QED
  BY <1>2 DEF Undisturbed

LEMMA OneRestart ==
  ASSUME StoreInv, eager, Restarts <= 1, NEW i \in Ends, NEW j \in Ends, i # j
  PROVE  Undisturbed(i) \/ Undisturbed(j)
<1> SUFFICES ASSUME truth[i].restart, truth[j].restart
             PROVE  FALSE
  BY EagerIsCalm
<1> DEFINE R == {k \in Ends : truth[k].restart}
<1>1. i \in R /\ j \in R
  OBVIOUS
<1>2. IsFiniteSet(R)
  BY HistoryFacts, FS_Subset
<1>3. {i, j} \subseteq R
  BY <1>1
<1>4. IsFiniteSet({i, j}) /\ Cardinality({i, j}) <= Cardinality(R)
  BY <1>2, <1>3, FS_Subset
<1>5. Cardinality({i, j}) = 2
  <2>1. IsFiniteSet({i}) /\ Cardinality({i}) = 1
    BY FS_Singleton
  <2>2. {i} \cup {j} = {i, j} /\ j \notin {i}
    OBVIOUS
  <2>3. Cardinality({i} \cup {j}) = Cardinality({i}) + 1
    BY <2>1, <2>2, FS_AddElement
  <2> QED
    BY <2>1, <2>2, <2>3
<1>6. Cardinality(R) \in Nat /\ Cardinality(R) <= 1
  BY <1>2, FS_CardinalityType DEF Restarts
<1> QED
  BY <1>4, <1>5, <1>6

LEMMA OneRestartHolds ==
  ASSUME StoreInv
  PROVE  OneRestartIsNoLoss
<1> SUFFICES ASSUME NEW signal \in Signals, eager, Restarts <= 1,
                    \A i \in Ends : Lossless(i, signal),
                    signal \in HighDropRate \cup ReceiverExporterMismatch
             PROVE  FALSE
  BY DEF OneRestartIsNoLoss
<1>1. PICK a, b \in Nat :
        /\ <<a, b>> \in {<<9, 10>>, <<1, 2>>}
        /\ \E i, j \in Ends : i < j /\ Loses(i, signal, a, b) /\ Loses(j, signal, a, b)
  BY LossAlarms
<1>2. PICK i, j \in Ends : i < j /\ Loses(i, signal, a, b) /\ Loses(j, signal, a, b)
  BY <1>1
<1>3. i # j
  BY <1>2 DEF Ends
<1>4. Undisturbed(i) \/ Undisturbed(j)
  BY <1>3, OneRestart
<1> QED
  BY <1>1, <1>2, <1>4, NoLossSeen
-----------------------------------------------------------------------------
(* What a rate would be if no series had been missed. *)
Truly(i, signal) == PerUnit(Real(i, "accepted", signal), Elapsed(i))

LEMMA TrulyFacts ==
  ASSUME StoreInv, NEW i \in Ends, NEW signal
  PROVE  /\ Rate(i, "accepted", signal) \in Nat /\ Truly(i, signal) \in Nat
         /\ Rate(i, "accepted", signal) <= Truly(i, signal)
         /\ Undisturbed(i) => Rate(i, "accepted", signal) = Truly(i, signal)
<1> DEFINE rate == Rate(i, "accepted", signal)
           real == Real(i, "accepted", signal)
           e == Elapsed(i)
<1>1. /\ rate \in Nat /\ real \in Nat /\ rate * e <= real * Unit
      /\ Undisturbed(i) => rate * e = real * Unit
  BY RateFacts DEF Counters
<1>2. e \in Nat \ {0} /\ Unit % e = 0
  BY WindowSteps
<1>3. Truly(i, signal) = PerUnit(real, e)
  BY DEF Truly
<1> HIDE DEF rate, real, e
<1>4. PerUnit(real, e) \in Nat /\ rate <= PerUnit(real, e) /\ PerUnit(real, e) * e = real * Unit
  BY <1>1, <1>2, PerUnitBounds, PerUnitExact
<1>5. Undisturbed(i) => rate = PerUnit(real, e)
  <2> HAVE Undisturbed(i)
  <2>1. rate * e = PerUnit(real, e) * e
    BY <1>1, <1>4
  <2>2. PerUnit(real, e) > rate <=> PerUnit(real, e) * e > rate * e
    BY <1>1, <1>2, <1>4, StrictProduct
  <2>3. rate * e \in Nat
    BY <1>1, <1>2
  <2> QED
    BY <1>1, <1>4, <2>1, <2>2, <2>3
<1> QED
  BY <1>1, <1>3, <1>4, <1>5 DEF rate

LEMMA BackpressureHolds ==
  ASSUME StoreInv
  PROVE  BackpressureIsReal
<1> SUFFICES ASSUME NEW signal \in ReceiverBackpressure, eager, Restarts <= 1
             PROVE  \E i \in {Len(store) - 1, Len(store)} :
                      2 * (Len(store) - 3) * Truly(i, signal)
                        <= SumFunction([j \in 2 .. Len(store) - 2 |-> Truly(j, signal)])
  BY DEF BackpressureIsReal, Truly
<1> DEFINE n == Len(store)
           D == 2 .. n - 2
           f == [i \in D |-> Rate(i, "accepted", signal)]
           g == [i \in D |-> Truly(i, signal)]
<1>1. n >= 4 /\ \A i \in {n - 1, n} :
        2 * (n - 3) * Rate(i, "accepted", signal) <= SumFunction(f)
  BY DEF ReceiverBackpressure
<1>2. n \in Nat /\ n \in Ends /\ n - 1 \in Ends /\ n # n - 1 /\ D \subseteq Ends
  BY <1>1, LastEnds DEF Ends
<1>3. PICK i \in {n - 1, n} : Undisturbed(i) /\ i \in Ends
  BY <1>2, OneRestart
<1>4. Rate(i, "accepted", signal) = Truly(i, signal)
  BY <1>3, TrulyFacts
<1>5. Summable(f, D) /\ Summable(g, D) /\ \A x \in D : f[x] * 1 <= g[x] * 1
  <2>1. \A x \in D : /\ Rate(x, "accepted", signal) \in Nat /\ Truly(x, signal) \in Nat
                     /\ Rate(x, "accepted", signal) <= Truly(x, signal)
    BY <1>2, TrulyFacts
  <2>2. IsFiniteSet(D)
    BY <1>2, HistoryFacts, FS_Subset
  <2> QED
    BY <2>1, <2>2 DEF Summable
<1>6. SumFunction(f) <= SumFunction(g)
  <2> HIDE DEF D, f, g
  <2>1. \A x \in D \cap D : f[x] * 1 <= g[x] * 1
    BY <1>5
  <2>2. \A x \in D \ D : f[x] = 0
    OBVIOUS
  <2>3. SumFunction(f) * 1 <= SumFunction(g) * 1
    BY <1>5, <2>1, <2>2, SumScaled
  <2>4. SumFunction(f) \in Nat /\ SumFunction(g) \in Nat
    BY <1>5, SumRemove
  <2> QED
    BY <2>3, <2>4
<1>7. SumFunction(f) \in Nat /\ SumFunction(g) \in Nat
  <2> HIDE DEF D, f, g
  <2> QED
    BY <1>5, SumRemove
<1>8. Truly(i, signal) \in Nat
  BY <1>3, TrulyFacts
<1>9. 2 * (n - 3) * Truly(i, signal) <= SumFunction(g)
  <2> DEFINE x == 2 * (n - 3) * Truly(i, signal)
  <2>1. x <= SumFunction(f)
    BY <1>1, <1>3, <1>4
  <2>2. x \in Int
    BY <1>2, <1>8
  <2> HIDE DEF x, f, g
  <2> QED
    BY <1>6, <1>7, <2>1, <2>2 DEF x
<1> QED
  BY <1>3, <1>9
-----------------------------------------------------------------------------
Queues(metric, owner) == {k \in Place : Series[k].metric = metric /\ Series[k].owner = owner}

(* A queue's gauge is read from the same series in every snapshot. *)
LEMMA QueueValue ==
  ASSUME StoreInv, NEW i \in 1 .. Len(store),
         NEW metric \in {"queue_size", "queue_capacity"}, NEW owner
  PROVE  LET value == LookupValue(store[i], QueueLabels(metric, owner))
             first == Min(Queues(metric, owner))
         IN  /\ Queues(metric, owner) = {} => value = Absent
             /\ Queues(metric, owner) # {} =>
                  /\ first \in Place /\ first \in Queues(metric, owner)
                  /\ value = truth[i].after[Series[first]] /\ value \in Nat
<1> DEFINE labels == QueueLabels(metric, owner)
           Q == Queues(metric, owner)
<1>1. store[i] \in Snapshots /\ truth[i] \in Intervals
  BY ElementOfSeq DEF StoreInv, TypeInv
<1>2. \A k \in Q : /\ k \in Place /\ k \in DOMAIN store[i].samples
                   /\ store[i].samples[k] = truth[i].after[Series[k]]
  BY DEF Queues, StoreInv, GaugesInv, IsGauge
<1>3. {k \in DOMAIN store[i].samples : Matches(labels, Series[k])} = Q
  <2>1. DOMAIN store[i].samples \subseteq Place
    BY <1>1, SnapshotFacts
  <2>2. \A k \in Place : Matches(labels, Series[k]) <=> k \in Q
    BY OwnerMatches DEF Queues
  <2> HIDE DEF labels, Q
  <2> QED
    BY <1>2, <2>1, <2>2
<1> HIDE DEF labels, Q
<1>4. LookupValue(store[i], labels) = IF Q = {} THEN Absent ELSE store[i].samples[Min(Q)]
  BY <1>3 DEF LookupValue
<1>5. Q \in SUBSET Nat
  BY <1>2, SeriesFacts
<1>6. Q # {} => Min(Q) \in Q
  BY <1>5, MinFacts
<1>7. \A k \in Place : truth[i].after[Series[k]] \in Nat
  BY <1>1, IntervalFacts
<1> QED
  BY <1>2, <1>4, <1>6, <1>7 DEF labels, Q

LEMMA QueueHolds ==
  ASSUME StoreInv
  PROVE  QueueAlarmIsReal
<1> SUFFICES ASSUME NEW e \in QueueNearCapacity
             PROVE  \E size, capacity \in {s \in ToSet(Series) : s.owner = e} :
                      /\ size.metric = "queue_size" /\ capacity.metric = "queue_capacity"
                      /\ \E i, j \in 1 .. Len(store) :
                           /\ i < j
                           /\ \A k \in {i, j} :
                                /\ truth[k].after[capacity] > 0
                                /\ 10 * truth[k].after[size] > 8 * truth[k].after[capacity]
                           /\ \A k \in i .. Len(store) :
                                k \notin {i, j} => truth[k].after[capacity] = 0
  BY DEF QueueAlarmIsReal
<1> DEFINE n == Len(store)
           Size(i) == LookupValue(store[i], QueueLabels("queue_size", e))
           Capacity(i) == LookupValue(store[i], QueueLabels("queue_capacity", e))
           skipped == {i \in 1 .. n : Size(i) = Absent \/ Capacity(i) <= 0}
           bad == {i \in 1 .. n : Size(i) * 100 > 80 * Capacity(i)}
           size == Min(Queues("queue_size", e))
           capacity == Min(Queues("queue_capacity", e))
<1>1. n >= 3 /\ Sustained(1, skipped, bad) >= 2
  BY DEF QueueNearCapacity
<1>2. \A i \in 1 .. n : /\ i \in skipped <=> Size(i) = Absent \/ Capacity(i) <= 0
                        /\ i \in bad <=> Size(i) * 100 > 80 * Capacity(i)
  OBVIOUS
<1>3. \A i \in 1 .. n :
        /\ Queues("queue_size", e) = {} => Size(i) = Absent
        /\ Queues("queue_size", e) # {} =>
             /\ size \in Place /\ size \in Queues("queue_size", e)
             /\ Size(i) = truth[i].after[Series[size]] /\ Size(i) \in Nat
        /\ Queues("queue_capacity", e) = {} => Capacity(i) = Absent
        /\ Queues("queue_capacity", e) # {} =>
             /\ capacity \in Place /\ capacity \in Queues("queue_capacity", e)
             /\ Capacity(i) = truth[i].after[Series[capacity]] /\ Capacity(i) \in Nat
  BY QueueValue
<1> HIDE DEF skipped, bad, Size, Capacity, size, capacity
<1>4. PICK i, j \in 1 .. n :
        /\ i < j /\ i \in bad /\ j \in bad /\ i \notin skipped /\ j \notin skipped
        /\ \A k \in i .. n : k \notin {i, j} => k \in skipped
  <2>1. 1 \in Nat \ {0}
    OBVIOUS
  <2> QED
    BY <1>1, <2>1, SustainedTwice
<1>5. Queues("queue_size", e) # {} /\ Queues("queue_capacity", e) # {}
  BY <1>2, <1>3, <1>4 DEF Absent
<1>6. /\ size \in Place /\ capacity \in Place
      /\ Series[size].metric = "queue_size" /\ Series[size].owner = e
      /\ Series[capacity].metric = "queue_capacity" /\ Series[capacity].owner = e
      /\ Series[size] \in ToSet(Series) /\ Series[capacity] \in ToSet(Series)
  BY <1>3, <1>4, <1>5, SeriesFacts DEF Queues
<1>7. \A k \in 1 .. n : /\ truth[k].after[Series[size]] \in Nat /\ truth[k].after[Series[capacity]] \in Nat
                        /\ Size(k) = truth[k].after[Series[size]]
                        /\ Capacity(k) = truth[k].after[Series[capacity]]
  BY <1>3, <1>5
<1>8. \A k \in {i, j} : /\ truth[k].after[Series[capacity]] > 0
                        /\ 10 * truth[k].after[Series[size]] > 8 * truth[k].after[Series[capacity]]
  <2> SUFFICES ASSUME NEW k \in {i, j}
               PROVE  /\ truth[k].after[Series[capacity]] > 0
                      /\ 10 * truth[k].after[Series[size]] > 8 * truth[k].after[Series[capacity]]
    OBVIOUS
  <2> DEFINE x == truth[k].after[Series[size]]
             y == truth[k].after[Series[capacity]]
  <2>1. k \in 1 .. n /\ k \in bad /\ k \notin skipped
    BY <1>4
  <2>2. ~(Capacity(k) <= 0) /\ Size(k) * 100 > 80 * Capacity(k)
    BY <1>2, <2>1
  <2>3. x \in Nat /\ y \in Nat /\ Size(k) = x /\ Capacity(k) = y
    BY <1>7, <2>1
  <2> HIDE DEF x, y
  <2>4. y > 0 /\ 10 * x > 8 * y
    BY <2>2, <2>3
  <2> QED
    BY <2>4 DEF x, y
<1>9. \A k \in i .. n : k \notin {i, j} => truth[k].after[Series[capacity]] = 0
  <2> SUFFICES ASSUME NEW k \in i .. n, k \notin {i, j}
               PROVE  truth[k].after[Series[capacity]] = 0
    OBVIOUS
  <2>1. k \in 1 .. n
    OBVIOUS
  <2>2. Size(k) = Absent \/ Capacity(k) <= 0
    BY <1>2, <1>4, <2>1
  <2> QED
    BY <1>7, <2>1, <2>2 DEF Absent
<1> QED
  BY <1>4, <1>6, <1>8, <1>9
-----------------------------------------------------------------------------
(* The rate of an exporter all of whose series count, undisturbed. *)
LEMMA OwnerRateRises ==
  ASSUME NEW prev, NEW curr, NEW iv, IsStep(prev, curr, iv), Calm(prev, iv),
         NEW metric \in Counters, NEW signal, NEW owner,
         PlacesOf(metric, signal, owner) # {},
         \A k \in PlacesOf(metric, signal, owner) : Count(iv, Series[k]) > 0
  PROVE  RatePerSecond(prev, curr, OfOwner(metric, signal, owner)) > 0
<1> DEFINE labels == OfOwner(metric, signal, owner)
           P == PlacesOf(metric, signal, owner)
           rate == RatePerSecond(prev, curr, labels)
           p == LookupValue(prev, labels)
           c == LookupValue(curr, labels)
           e == curr.at - prev.at
           j == Min(P)
<1>1. /\ prev \in Snapshots /\ curr \in Snapshots /\ iv \in Intervals
      /\ WellExposed(prev) /\ WellExposed(curr) /\ Follows(prev, curr, iv)
      /\ ~iv.restart /\ \A k \in Place : Count(iv, Series[k]) > 0 => k \in DOMAIN prev.samples
  BY DEF IsStep, Calm
<1>2. iv.seconds \in Nat \ {0} /\ Unit \in Nat \ {0} /\ Unit % iv.seconds = 0
  BY <1>1, IntervalFacts, UnitAssumption
<1>3. e = iv.seconds /\ ~(e <= 0)
  BY <1>1, <1>2, SnapshotFacts DEF Follows
<1>4. ASSUME NEW k \in P
      PROVE  /\ k \in Place
             /\ k \in DOMAIN prev.samples /\ k \in DOMAIN curr.samples
             /\ prev.samples[k] \in Nat /\ Count(iv, Series[k]) \in Nat
             /\ curr.samples[k] = prev.samples[k] + Count(iv, Series[k])
  <2>1. k \in Place /\ ~IsGauge(Series[k])
    BY PlacesFacts
  <2>2. k \in DOMAIN prev.samples /\ Count(iv, Series[k]) > 0
    BY <1>1, <2>1
  <2>3. Count(iv, Series[k]) \in Nat /\ Count(iv, Series[k]) = iv.after[Series[k]]
    BY <1>1, <2>1, IntervalFacts
  <2>4. Value(curr, k) = Value(prev, k) + iv.after[Series[k]] /\ Value(prev, k) \in Nat
    BY <1>1, <2>1, ValueFacts DEF Follows
  <2>5. Value(curr, k) > 0
    BY <2>2, <2>3, <2>4
  <2>6. k \in DOMAIN curr.samples
    BY <1>1, <2>1, <2>5 DEF WellExposed
  <2> QED
    BY <2>1, <2>2, <2>3, <2>4, <2>6 DEF Value
<1>5. \A snap \in {prev, curr} : {k \in DOMAIN snap.samples : Matches(labels, Series[k])} = P
  <2> SUFFICES ASSUME NEW snap \in {prev, curr}
               PROVE  {k \in DOMAIN snap.samples : Matches(labels, Series[k])} = P
    OBVIOUS
  <2>1. DOMAIN snap.samples \subseteq Place
    BY <1>1, SnapshotFacts
  <2>2. \A k \in Place : Matches(labels, Series[k]) <=> k \in P
    BY OwnerMatches
  <2>3. \A k \in P : k \in Place /\ k \in DOMAIN snap.samples
    BY <1>4
  <2> HIDE DEF labels, P
  <2> QED
    BY <2>1, <2>2, <2>3
<1>6. rate = IF p = Absent \/ c = Absent \/ c < p THEN 0 ELSE PerUnit(c - p, iv.seconds)
  <2>1. rate = IF p = Absent \/ c = Absent \/ c < p \/ e <= 0 THEN 0 ELSE PerUnit(c - p, e)
    BY DEF RatePerSecond
  <2> HIDE DEF rate, p, c, e
  <2> QED
    BY <1>3, <2>1
<1>7. j \in P
  <2>1. P \in SUBSET Nat /\ P # {}
    BY <1>4, SeriesFacts
  <2> HIDE DEF P
  <2> QED
    BY <2>1, MinFacts
<1>8. Count(iv, Series[j]) > 0
  BY <1>7
<1> HIDE DEF P, labels, j
<1>9. p = prev.samples[j] /\ c = curr.samples[j]
  BY <1>5, <1>7 DEF LookupValue, j
<1> DEFINE d == Count(iv, Series[j])
<1>10. p \in Nat /\ d \in Nat /\ d > 0 /\ c = p + d
  BY <1>4, <1>7, <1>8, <1>9
<1> HIDE DEF p, c, d, rate
<1>11. rate = PerUnit(d, iv.seconds)
  <2>1. p # Absent /\ c # Absent /\ ~(c < p) /\ c - p = d
    BY <1>10 DEF Absent
  <2> QED
    BY <1>6, <2>1
<1>12. rate \in Nat /\ rate * iv.seconds = d * Unit
  BY <1>2, <1>10, <1>11, PerUnitExact, PerUnitBounds
<1>13. d * Unit > 0 * Unit
  BY <1>2, <1>10, StrictProduct
<1>14. rate > 0
  <2>1. rate = 0 => rate * iv.seconds = 0
    BY <1>2
  <2>2. 0 * Unit = 0
    BY <1>2
  <2> QED
    BY <1>12, <1>13, <2>1, <2>2
<1> QED
  BY <1>14 DEF rate, labels

LEMMA FailuresHold ==
  ASSUME StoreInv
  PROVE  FailuresAreSustained
<1> DEFINE n == Len(store)
           last == n - 2 .. n
           Fail(i, k) == Count(truth[i], Series[k]) > 0
           Failing(i, signal, e) ==
             RatePerSecond(store[i - 1], store[i], OfOwner("failed", signal, e)) > 0
           exporting == {"sent", "failed", "queue_size", "queue_capacity"}
<1> SUFFICES ASSUME n >= 4, NEW e \in AllOwners
             PROVE  /\ e \in ExporterSustainedFailures =>
                         \E signal \in Signals : \A i \in last :
                           \E k \in PlacesOf("failed", signal, e) : Fail(i, k)
                    /\ (\E signal \in Signals :
                          /\ PlacesOf("failed", signal, e) # {}
                          /\ \A i \in last :
                               Undisturbed(i) /\ \A k \in PlacesOf("failed", signal, e) : Fail(i, k))
                         => e \in ExporterSustainedFailures
  BY DEF FailuresAreSustained, AllOwners
<1>1. \A i \in last : i \in Ends
  BY LastEnds
<1>2. "failed" \in Counters
  BY DEF Counters
<1>3. \A signal : Sustained(2, {}, {i \in Ends : Failing(i, signal, e)}) >= 3
                    <=> \A i \in last : Failing(i, signal, e)
  <2> TAKE signal
  <2> DEFINE bad == {i \in Ends : Failing(i, signal, e)}
  <2>1. \A i \in last : i \in bad <=> Failing(i, signal, e)
    BY <1>1
  <2> HIDE DEF bad, Failing
  <2>2. Sustained(2, {}, bad) >= 3 <=> \A i \in last : i \in bad
    BY SustainedThrice
  <2> QED
    BY <2>1, <2>2 DEF bad
<1>4. ~(n < 4)
  BY LastEnds
<1>5. e \in ExporterSustainedFailures <=>
        /\ e \in Owners(store[n], exporting)
        /\ \E signal \in Signals : Sustained(2, {}, {i \in Ends : Failing(i, signal, e)}) >= 3
  BY <1>4 DEF ExporterSustainedFailures
<1>6. \A i \in Ends : IsStep(store[i - 1], store[i], truth[i])
  BY WindowSteps
<1>7. ASSUME e \in ExporterSustainedFailures
      PROVE  \E signal \in Signals : \A i \in last :
               \E k \in PlacesOf("failed", signal, e) : Fail(i, k)
  <2>1. PICK signal \in Signals : \A i \in last : Failing(i, signal, e)
    BY <1>3, <1>5, <1>7
  <2>2. ASSUME NEW i \in last
        PROVE  \E k \in PlacesOf("failed", signal, e) : Fail(i, k)
    BY <1>1, <1>2, <1>6, <2>1, OwnerRate
  <2> QED
    BY <2>2
<1>8. ASSUME NEW signal \in Signals, PlacesOf("failed", signal, e) # {},
             \A i \in last :
               Undisturbed(i) /\ \A k \in PlacesOf("failed", signal, e) : Fail(i, k)
      PROVE  e \in ExporterSustainedFailures
  <2>1. \A i \in last : Failing(i, signal, e)
    <3> SUFFICES ASSUME NEW i \in last PROVE Failing(i, signal, e)
      OBVIOUS
    <3>1. IsStep(store[i - 1], store[i], truth[i]) /\ Calm(store[i - 1], truth[i])
      BY <1>1, <1>8, WindowSteps
    <3> QED
      BY <1>2, <1>8, <3>1, OwnerRateRises
  <2>2. PICK k \in PlacesOf("failed", signal, e) : TRUE
    BY <1>8
  <2>3. k \in Place /\ ~IsGauge(Series[k]) /\ Series[k].metric = "failed" /\ Series[k].owner = e
    BY <1>2, <2>2, PlacesFacts DEF PlacesOf, Places
  <2>4. n \in last /\ n \in Ends
    BY LastEnds
  <2>5. IsStep(store[n - 1], store[n], truth[n]) /\ ~truth[n].restart /\ Fail(n, k)
    BY <1>6, <1>8, <2>2, <2>4 DEF Undisturbed
  <2>6. k \in DOMAIN store[n].samples
    <3>1. /\ truth[n] \in Intervals /\ store[n - 1] \in Snapshots
          /\ WellExposed(store[n]) /\ Follows(store[n - 1], store[n], truth[n])
      BY <2>5 DEF IsStep
    <3>2. /\ Value(store[n], k) = Value(store[n - 1], k) + truth[n].after[Series[k]]
          /\ Value(store[n - 1], k) \in Nat
          /\ truth[n].after[Series[k]] = Count(truth[n], Series[k])
          /\ Count(truth[n], Series[k]) \in Nat
      BY <2>3, <2>5, <3>1, ValueFacts, IntervalFacts DEF Follows
    <3>3. Value(store[n], k) > 0
      BY <2>5, <3>2
    <3> QED
      BY <2>3, <3>1, <3>3 DEF WellExposed
  <2>7. e \in Owners(store[n], exporting)
    BY <2>3, <2>6 DEF Owners
  <2> QED
    BY <1>3, <1>5, <2>1, <2>7
<1> QED
  BY <1>7, <1>8
-----------------------------------------------------------------------------
(* Three intervals of silence are reported, restarts or not, for every     *)
(* collector and every window.                                             *)
THEOREM SilencesAreReported == Spec => []SilenceIsReported
<1>1. StoreInv => SilenceIsReported
  BY ZeroHolds
<1> QED
  BY <1>1, StoreIsFaithful, PTL

(* Whatever the series and whatever happens between two scrapes, an alarm  *)
(* of a live rule is about something that did happen, and is taken back by *)
(* an interval in which all goes well.                                     *)
THEOREM LiveAlarmsAreReal == Spec => []AlarmsAreReal
<1>1. StoreInv => AlarmsAreReal
  BY ZeroHolds, FailuresHold, OneRestartHolds, GoodIntervalHolds, BackpressureHolds,
     QueueHolds, DominanceHolds DEF AlarmsAreReal
<1> QED
  BY <1>1, StoreIsFaithful, PTL
-----------------------------------------------------------------------------
(* The dashboard *)

(* A part of a sum. *)
LEMMA SumPart ==
  ASSUME NEW S, NEW f, Summable(f, S), NEW X
  PROVE  SumOn(f, X) <= SumFunction(f)
<1> DEFINE g == [y \in X \cap S |-> f[y]]
<1>1. Summable(g, X \cap S) /\ SumOn(f, X) = SumFunction(g)
  BY FS_Intersection DEF Summable, SumOn
<1>2. /\ \A x \in (X \cap S) \cap S : g[x] * 1 <= f[x] * 1
      /\ \A x \in (X \cap S) \ S : g[x] = 0
  BY DEF Summable
<1> HIDE DEF g
<1>3. SumFunction(g) * 1 <= SumFunction(f) * 1 /\ SumFunction(g) \in Nat /\ SumFunction(f) \in Nat
  BY <1>1, <1>2, SumScaled, SumRemove
<1> QED
  BY <1>1, <1>3

(* What holds element by element of sums holds of the sums. *)
LEMMA SumPointwise ==
  ASSUME NEW S, NEW f, Summable(f, S), NEW g, Summable(g, S), NEW h, Summable(h, S),
         \A x \in S : h[x] = f[x] + g[x]
  PROVE  SumFunction(h) = SumFunction(f) + SumFunction(g)
<1> DEFINE F(X) == SumOn(f, X)
           G(X) == SumOn(g, X)
           H(X) == SumOn(h, X)
           T == {X \in SUBSET S : H(X) = F(X) + G(X)}
<1>1. \A X : /\ F(X) \in Nat /\ (X = {} => F(X) = 0)
             /\ \A x \in X : x \in S => F(X) = f[x] + F(X \ {x})
  BY SumOnSteps
<1>2. \A X : /\ G(X) \in Nat /\ (X = {} => G(X) = 0)
             /\ \A x \in X : x \in S => G(X) = g[x] + G(X \ {x})
  BY SumOnSteps
<1>3. \A X : /\ H(X) \in Nat /\ (X = {} => H(X) = 0)
             /\ \A x \in X : x \in S => H(X) = h[x] + H(X \ {x})
  BY SumOnSteps
<1>4. F(S) = SumFunction(f) /\ G(S) = SumFunction(g) /\ H(S) = SumFunction(h)
  BY SumOnSteps
<1>5. IsFiniteSet(S) /\ \A x \in S : f[x] \in Nat /\ g[x] \in Nat
  BY DEF Summable
<1> HIDE DEF F, G, H
<1>6. {} \in T
  BY <1>1, <1>2, <1>3
<1>7. ASSUME NEW X \in SUBSET S, X # {}, \A x \in X : X \ {x} \in T
      PROVE  X \in T
  <2>1. PICK x \in X : x \in S
    BY <1>7
  <2>2. /\ F(X) = f[x] + F(X \ {x}) /\ G(X) = g[x] + G(X \ {x}) /\ H(X) = h[x] + H(X \ {x})
        /\ F(X \ {x}) \in Nat /\ G(X \ {x}) \in Nat
    BY <1>1, <1>2, <1>3, <2>1
  <2>3. H(X \ {x}) = F(X \ {x}) + G(X \ {x})
    BY <1>7, <2>1
  <2> QED
    BY <1>5, <2>1, <2>2, <2>3
<1>8. S \in T
  <2> HIDE DEF T
  <2>1. \A X \in SUBSET S : X \in T
    BY <1>5, <1>6, <1>7, SubsetInduction
  <2> QED
    BY <2>1
<1> QED
  BY <1>4, <1>8

(* Elements of one family that each have one of their own in another,      *)
(* which is worth as much, add up to no more.                              *)
LEMMA SumInjected ==
  ASSUME NEW S, NEW f, Summable(f, S), NEW T, NEW g, Summable(g, T), NEW e \in Nat, NEW u \in Nat,
         NEW h, \A x \in S : f[x] # 0 => h[x] \in T /\ f[x] * e <= g[h[x]] * u,
         \A x, y \in S : f[x] # 0 /\ f[y] # 0 /\ h[x] = h[y] => x = y
  PROVE  SumFunction(f) * e <= SumFunction(g) * u
<1> DEFINE F(X) == SumOn(f, X)
           H(Y) == SumOn(g, Y)
           Img(X) == {h[x] : x \in {z \in X : f[z] # 0}}
           G == {X \in SUBSET S : F(X) * e <= H(Img(X)) * u}
<1>1. \A X : /\ F(X) \in Nat /\ (X = {} => F(X) = 0)
             /\ \A x \in X : x \in S => F(X) = f[x] + F(X \ {x})
  BY SumOnSteps
<1>2. \A Y : /\ H(Y) \in Nat /\ H(Y) <= SumFunction(g)
             /\ \A y \in Y : y \in T => H(Y) = g[y] + H(Y \ {y})
  BY SumOnSteps, SumPart
<1>3. F(S) = SumFunction(f) /\ SumFunction(g) \in Nat
  BY SumOnSteps, SumRemove
<1>4. /\ IsFiniteSet(S) /\ \A x \in S : f[x] \in Nat
      /\ \A y \in T : g[y] \in Nat
  BY DEF Summable
<1>5. ASSUME NEW X \in SUBSET S, NEW x \in X
      PROVE  /\ f[x] = 0 => Img(X \ {x}) = Img(X)
             /\ f[x] # 0 => h[x] \in Img(X) /\ Img(X \ {x}) = Img(X) \ {h[x]}
  OBVIOUS
<1> HIDE DEF F, H, Img
<1>6. {} \in G
  <2>1. F({}) = 0 /\ H(Img({})) \in Nat
    BY <1>1, <1>2
  <2>2. 0 * e <= H(Img({})) * u
    BY <2>1
  <2> QED
    BY <2>1, <2>2
<1>7. ASSUME NEW X \in SUBSET S, X # {}, \A x \in X : X \ {x} \in G
      PROVE  X \in G
  <2>1. PICK x \in X : x \in S
    BY <1>7
  <2> DEFINE A == F(X \ {x})
             B == H(Img(X \ {x}))
  <2>2. F(X) = f[x] + A /\ A \in Nat /\ B \in Nat /\ A * e <= B * u /\ f[x] \in Nat
    BY <1>1, <1>2, <1>4, <1>7, <2>1
  <2>3. CASE f[x] = 0
    <3>1. H(Img(X)) = B
      BY <1>5, <2>1, <2>3
    <3> HIDE DEF A, B
    <3> QED
      BY <2>2, <2>3, <3>1
  <2>4. CASE f[x] # 0
    <3>1. h[x] \in Img(X) /\ h[x] \in T /\ f[x] * e <= g[h[x]] * u
      BY <1>5, <2>1, <2>4
    <3>2. H(Img(X)) = g[h[x]] + B /\ g[h[x]] \in Nat
      BY <1>2, <1>4, <1>5, <2>1, <2>4, <3>1
    <3> HIDE DEF A, B
    <3> DEFINE v == f[x]
               w == g[h[x]]
    <3>3. v \in Nat /\ w \in Nat /\ v * e <= w * u
      BY <2>2, <3>1, <3>2
    <3> HIDE DEF v, w
    <3>4. (v + A) * e <= (w + B) * u
      BY <2>2, <3>3
    <3> QED
      BY <2>2, <3>2, <3>4 DEF v, w
  <2> QED
    BY <2>3, <2>4
<1>8. S \in G
  <2> HIDE DEF G
  <2>1. \A X \in SUBSET S : X \in G
    BY <1>4, <1>6, <1>7, SubsetInduction
  <2> QED
    BY <2>1
<1> DEFINE a == F(S)
           b == H(Img(S))
           c == SumFunction(g)
<1>9. a * e <= b * u /\ b <= c /\ a \in Nat /\ b \in Nat /\ c \in Nat
  BY <1>1, <1>2, <1>3, <1>8
<1> HIDE DEF a, b, c
<1>10. b * u <= c * u /\ b * u \in Nat /\ c * u \in Nat /\ a * e \in Nat
  BY <1>9, ProductMonotone
<1>11. a * e <= c * u
  BY <1>9, <1>10
<1> QED
  BY <1>3, <1>11 DEF a, c

(* A window lasts as long as its intervals, and divides the Unit. *)
Lengths == [i \in Ends |-> truth[i].seconds]

LEMMA WindowLasts ==
  ASSUME StoreInv, Len(store) >= 2
  PROVE  LET elapsed == store[Len(store)].at - store[1].at
         IN  elapsed \in Nat \ {0} /\ Unit % elapsed = 0
<1> DEFINE n == Len(store)
           T == {m \in 0 .. n - 1 : store[m + 1].at = store[1].at + SumOn(Lengths, 2 .. m + 1)}
<1>1. n \in Nat /\ Ends = 2 .. n /\ n \in 2 .. WindowSize /\ n \in Ends /\ IsFiniteSet(Ends)
  BY HistoryFacts DEF Ends, StoreInv, TypeInv
<1>2. \A i \in Ends : /\ Lengths[i] = truth[i].seconds /\ Lengths[i] \in Nat
                      /\ truth[i] \in Intervals /\ store[i].at = store[i - 1].at + Lengths[i]
  BY WindowSteps, IntervalFacts DEF Lengths, IsStep, Follows
<1>3. Summable(Lengths, Ends)
  <2>1. \A i \in Ends : truth[i].seconds \in Nat
    BY <1>2
  <2> QED
    BY <1>1, <2>1 DEF Summable, Lengths
<1>4. \A i \in 1 .. n : store[i].at \in Nat
  BY ElementOfSeq, SnapshotFacts DEF StoreInv, TypeInv
<1>5. \A b : SumOn(Lengths, 2 .. b) \in Nat /\ (2 .. b = {} => SumOn(Lengths, 2 .. b) = 0)
  BY <1>3, SumOnSteps
<1>6. 0 \in T
  <2>1. SumOn(Lengths, 2 .. 0 + 1) = 0 /\ 1 \in 1 .. n
    BY <1>1, <1>5
  <2> QED
    BY <1>1, <1>4, <2>1
<1>7. ASSUME NEW m \in 1 .. n - 1, m - 1 \in T
      PROVE  m \in T
  <2>1. m + 1 \in Ends /\ m \in 1 .. n /\ (m - 1) + 1 = m /\ (m + 1) - 1 = m /\ m \in 0 .. n - 1
    BY <1>1
  <2>2. SumOn(Lengths, 2 .. m + 1) = Lengths[m + 1] + SumOn(Lengths, 2 .. (m + 1) - 1)
    BY <1>3, <2>1, SumInterval
  <2>3. store[m].at = store[1].at + SumOn(Lengths, 2 .. m)
    BY <1>7, <2>1
  <2>4. store[m + 1].at = store[m].at + Lengths[m + 1] /\ Lengths[m + 1] \in Nat
    BY <1>2, <2>1
  <2>5. SumOn(Lengths, 2 .. m) \in Nat /\ store[1].at \in Nat
    BY <1>1, <1>4, <1>5
  <2>6. store[m + 1].at = store[1].at + SumOn(Lengths, 2 .. m + 1)
    BY <2>1, <2>2, <2>3, <2>4, <2>5
  <2> QED
    BY <2>1, <2>6
<1>8. n - 1 \in T
  <2>1. n - 1 \in 0 .. n - 1 /\ n - 1 \in Nat
    BY <1>1
  <2> HIDE DEF T
  <2>2. \A m \in 0 .. n - 1 : m \in T
    BY <1>6, <1>7, <2>1, UpTo
  <2> QED
    BY <2>1, <2>2
<1>9. store[n].at = store[1].at + SumFunction(Lengths)
  <2>1. (n - 1) + 1 = n /\ Ends \subseteq 2 .. n
    BY <1>1
  <2>2. SumOn(Lengths, 2 .. n) = SumFunction(Lengths)
    BY <1>3, <2>1, SumOnSteps
  <2> QED
    BY <1>8, <2>1, <2>2
<1>10. Unit % SumFunction(Lengths) = 0
  <2>1. Lengths \in [2 .. n -> {iv.seconds : iv \in Intervals}]
    BY <1>1, <1>2 DEF Lengths
  <2> QED
    BY <1>1, <2>1, WindowsAssumption
<1>11. store[n].at - store[1].at \in Nat \ {0}
  BY <1>1, WindowGrows
<1>12. store[1].at \in Nat /\ SumFunction(Lengths) \in Nat
  BY <1>1, <1>3, <1>4, SumRemove
<1>13. store[n].at - store[1].at = SumFunction(Lengths)
  BY <1>9, <1>12
<1> QED
  BY <1>10, <1>11, <1>13

Counted == {k \in Place : ~IsGauge(Series[k])}

(* The totals, step by step. *)
LEMMA TotalSteps ==
  ASSUME StoreInv, NEW b \in Ends, NEW k \in Place
  PROVE  /\ Totals(b)[k] = Count(truth[b], Series[k]) + Totals(b - 1)[k]
         /\ Count(truth[b], Series[k]) \in Nat /\ Totals(b - 1)[k] \in Nat /\ Totals(b)[k] \in Nat
<1>1. IsFiniteSet(Ends) /\ Summable(History(k), Ends) /\ b \in Int /\ 2 \in Int /\ 2 <= b
  BY HistoryFacts DEF Ends
<1>2. SumOn(History(k), 2 .. b) = History(k)[b] + SumOn(History(k), 2 .. b - 1)
  BY <1>1, SumInterval
<1>3. History(k)[b] = Count(truth[b], Series[k])
  BY DEF History
<1>4. \A a : Totals(a)[k] = SumOn(History(k), 2 .. a) /\ Totals(a)[k] \in Nat
  BY HistoryFacts DEF Totals
<1>5. Count(truth[b], Series[k]) \in Nat
  BY WindowSteps, IntervalFacts
<1> QED
  BY <1>2, <1>3, <1>4, <1>5

LEMMA TotalStart ==
  ASSUME StoreInv, NEW k \in Place
  PROVE  Totals(1)[k] = 0
<1>1. Summable(History(k), Ends) /\ 2 .. 1 = {}
  BY HistoryFacts
<1>2. SumOn(History(k), 2 .. 1) = 0
  BY <1>1, SumOnSteps
<1> QED
  BY <1>2 DEF Totals

(* Without disturbance the window shows one set of counters throughout,    *)
(* each of which has grown by what it counted.                             *)
LEMMA SteadyWindow ==
  ASSUME StoreInv, Len(store) >= 2, \A i \in Ends : Undisturbed(i)
  PROVE  \A k \in Counted :
           /\ Value(store[Len(store)], k) = Value(store[1], k) + Totals(Len(store))[k]
           /\ k \in DOMAIN store[Len(store)].samples <=> k \in DOMAIN store[1].samples
           /\ Totals(Len(store))[k] > 0 => k \in DOMAIN store[1].samples
<1> DEFINE n == Len(store)
           Steady(i) == \A k \in Counted :
             /\ Value(store[i], k) = Value(store[1], k) + Totals(i)[k]
             /\ k \in DOMAIN store[i].samples <=> k \in DOMAIN store[1].samples
             /\ Totals(i)[k] > 0 => k \in DOMAIN store[1].samples
           T == {m \in 0 .. n - 1 : Steady(m + 1)}
<1>1. n \in Nat /\ Ends = 2 .. n /\ n - 1 \in Nat /\ n - 1 \in 0 .. n - 1 /\ (n - 1) + 1 = n
      /\ 1 \in 1 .. n
  BY HistoryFacts DEF Ends
<1>2. \A i \in 1 .. n : store[i] \in Snapshots /\ WellExposed(store[i])
  BY ElementOfSeq DEF StoreInv, TypeInv, ExposedInv
<1>3. \A i \in 1 .. n, k \in Place : Value(store[i], k) \in Nat
  BY <1>2, ValueFacts
<1>4. 0 \in T
  <2>1. 0 + 1 = 1 /\ 0 \in 0 .. n - 1
    BY <1>1
  <2>2. Steady(1)
    BY <1>1, <1>3, TotalStart DEF Counted
  <2> QED
    BY <2>1, <2>2
<1>5. ASSUME NEW m \in 1 .. n - 1, m - 1 \in T
      PROVE  m \in T
  <2> DEFINE b == m + 1
  <2>1. b \in Ends /\ b - 1 = m /\ m \in 1 .. n /\ b \in 1 .. n /\ (m - 1) + 1 = m /\ m \in 0 .. n - 1
    BY <1>1
  <2>2. Steady(m)
    BY <1>5, <2>1
  <2> HIDE DEF b, Steady
  <2>3. IsStep(store[m], store[b], truth[b]) /\ Calm(store[m], truth[b])
    BY <2>1, WindowSteps
  <2>4. ASSUME NEW k \in Counted
        PROVE  /\ Value(store[b], k) = Value(store[1], k) + Totals(b)[k]
               /\ k \in DOMAIN store[b].samples <=> k \in DOMAIN store[1].samples
               /\ Totals(b)[k] > 0 => k \in DOMAIN store[1].samples
    <3>1. k \in Place /\ ~IsGauge(Series[k])
      BY DEF Counted
    <3> DEFINE c == Count(truth[b], Series[k])
    <3>2. Totals(b)[k] = c + Totals(m)[k] /\ c \in Nat /\ Totals(m)[k] \in Nat
      BY <2>1, <3>1, TotalSteps
    <3>3. Value(store[b], k) = Value(store[m], k) + c
      <4>1. ~truth[b].restart /\ truth[b] \in Intervals /\ Follows(store[m], store[b], truth[b])
        BY <2>3 DEF IsStep, Calm
      <4>2. c = truth[b].after[Series[k]]
        BY <3>1, <4>1, IntervalFacts
      <4> QED
        BY <3>1, <4>1, <4>2 DEF Follows
    <3>4. c > 0 => k \in DOMAIN store[m].samples
      BY <2>3, <3>1 DEF Calm
    <3>5. /\ Value(store[m], k) = Value(store[1], k) + Totals(m)[k]
          /\ k \in DOMAIN store[m].samples <=> k \in DOMAIN store[1].samples
          /\ Totals(m)[k] > 0 => k \in DOMAIN store[1].samples
      BY <2>2 DEF Steady
    <3>6. Value(store[m], k) \in Nat /\ Value(store[1], k) \in Nat
      BY <1>1, <1>3, <2>1, <3>1
    <3>7. /\ k \in DOMAIN store[b].samples <=> Value(store[b], k) > 0 \/ eager
          /\ k \in DOMAIN store[m].samples <=> Value(store[m], k) > 0 \/ eager
      BY <1>2, <2>1, <3>1 DEF WellExposed
    <3> HIDE DEF c
    <3>8. Totals(b)[k] > 0 => c > 0 \/ Totals(m)[k] > 0
      BY <3>2
    <3>9. Value(store[b], k) = Value(store[1], k) + Totals(b)[k]
      BY <3>2, <3>3, <3>5, <3>6
    <3>10. Value(store[b], k) > 0 <=> c > 0 \/ Value(store[m], k) > 0
      BY <3>2, <3>3, <3>6
    <3> QED
      BY <3>4, <3>5, <3>7, <3>8, <3>9, <3>10
  <2>5. Steady(b)
    BY <2>4 DEF Steady
  <2> QED
    BY <2>1, <2>5 DEF b
<1>6. n - 1 \in T
  <2> HIDE DEF T
  <2>1. \A m \in 0 .. n - 1 : m \in T
    BY <1>1, <1>4, <1>5, UpTo
  <2> QED
    BY <1>1, <2>1
<1> QED
  BY <1>1, <1>6

(* What a signal has counted in the window, up to an interval. *)
InPlaces(b, places) == [k \in places |-> Totals(b)[k]]
SignalTotal(b, metric, signal) == SumFunction(InPlaces(b, Places(metric, signal)))

LEMMA SignalTotals ==
  ASSUME StoreInv, NEW metric \in Counters, NEW signal
  PROVE  /\ \A b : /\ Summable(InPlaces(b, Places(metric, signal)), Places(metric, signal))
                   /\ SignalTotal(b, metric, signal) \in Nat
         /\ SignalTotal(1, metric, signal) = 0
         /\ \A b \in Ends : SignalTotal(b, metric, signal) =
              Real(b, metric, signal) + SignalTotal(b - 1, metric, signal)
<1> DEFINE P == Places(metric, signal)
<1>1. P \subseteq Place /\ IsFiniteSet(P)
  BY PlacesFacts
<1> HIDE DEF P
<1>2. \A b : Totals(b) \in [Place -> Nat]
  BY HistoryFacts
<1>3. \A b : Summable(InPlaces(b, P), P)
  BY <1>1, <1>2 DEF Summable, InPlaces
<1>4. \A b : SumFunction(InPlaces(b, P)) \in Nat
  BY <1>3, SumRemove
<1>5. SumFunction(InPlaces(1, P)) = 0
  <2> DEFINE f == InPlaces(1, P)
  <2>1. \A k \in P : f[k] = 0
    BY <1>1, TotalStart DEF InPlaces
  <2>2. Summable(f, P) /\ SumFunction(f) \in Nat
    BY <1>3, <1>4
  <2> HIDE DEF f
  <2>3. /\ \A k \in P \cap P : f[k] * 1 <= f[k] * 0
        /\ \A k \in P \ P : f[k] = 0
    BY <2>1
  <2>4. SumFunction(f) * 1 <= SumFunction(f) * 0
    BY <2>2, <2>3, SumScaled
  <2>5. SumFunction(f) = 0
    BY <2>2, <2>4
  <2> QED
    BY <2>5 DEF f
<1>6. ASSUME NEW b \in Ends
      PROVE  SumFunction(InPlaces(b, P)) = Real(b, metric, signal) + SumFunction(InPlaces(b - 1, P))
  <2>1. truth[b] \in Intervals
    BY WindowSteps
  <2>2. Summable(Counts(truth[b], P), P) /\ Real(b, metric, signal) = SumFunction(Counts(truth[b], P))
    BY <1>1, <2>1, CountsFacts DEF Real, RealAt, Counts, P
  <2>3. \A k \in P : InPlaces(b, P)[k] = Counts(truth[b], P)[k] + InPlaces(b - 1, P)[k]
    BY <1>1, TotalSteps DEF InPlaces, Counts
  <2> QED
    BY <1>3, <2>2, <2>3, SumPointwise
<1> QED
  BY <1>3, <1>4, <1>5, <1>6 DEF SignalTotal, P

LEMMA LossesAddUp ==
  ASSUME StoreInv, Len(store) >= 2, NEW signal, \A i \in Ends : Lossless(i, signal)
  PROVE  10 * SignalTotal(Len(store), "sent", signal)
           >= 9 * SignalTotal(Len(store), "accepted", signal)
<1> DEFINE n == Len(store)
           S(b) == SignalTotal(b, "sent", signal)
           A(b) == SignalTotal(b, "accepted", signal)
           T == {m \in 0 .. n - 1 : 10 * S(m + 1) >= 9 * A(m + 1)}
<1>1. n \in Nat /\ Ends = 2 .. n /\ n - 1 \in Nat /\ n - 1 \in 0 .. n - 1 /\ (n - 1) + 1 = n
  BY HistoryFacts DEF Ends
<1>2. "sent" \in Counters /\ "accepted" \in Counters
  BY DEF Counters
<1>3. /\ \A b : S(b) \in Nat /\ A(b) \in Nat
      /\ S(1) = 0 /\ A(1) = 0
      /\ \A b \in Ends : /\ S(b) = Real(b, "sent", signal) + S(b - 1)
                         /\ A(b) = Real(b, "accepted", signal) + A(b - 1)
  BY <1>2, SignalTotals
<1>4. \A b \in Ends : /\ Real(b, "sent", signal) \in Nat /\ Real(b, "accepted", signal) \in Nat
                      /\ 10 * Real(b, "sent", signal) >= 9 * Real(b, "accepted", signal)
  BY <1>2, RateFacts DEF Lossless
<1> HIDE DEF S, A
<1>5. 0 \in T
  BY <1>1, <1>3
<1>6. ASSUME NEW m \in 1 .. n - 1, m - 1 \in T
      PROVE  m \in T
  <2>1. m + 1 \in Ends /\ (m + 1) - 1 = m /\ (m - 1) + 1 = m /\ m \in 0 .. n - 1
    BY <1>1
  <2>2. 10 * S(m) >= 9 * A(m)
    BY <1>6, <2>1
  <2>3. /\ S(m + 1) = Real(m + 1, "sent", signal) + S(m)
        /\ A(m + 1) = Real(m + 1, "accepted", signal) + A(m)
        /\ S(m) \in Nat /\ A(m) \in Nat
    BY <1>3, <2>1
  <2>4. /\ Real(m + 1, "sent", signal) \in Nat /\ Real(m + 1, "accepted", signal) \in Nat
        /\ 10 * Real(m + 1, "sent", signal) >= 9 * Real(m + 1, "accepted", signal)
    BY <1>4, <2>1
  <2>5. 10 * S(m + 1) >= 9 * A(m + 1)
    BY <2>2, <2>3, <2>4
  <2> QED
    BY <2>1, <2>5
<1>7. n - 1 \in T
  <2> HIDE DEF T
  <2>1. \A m \in 0 .. n - 1 : m \in T
    BY <1>1, <1>5, <1>6, UpTo
  <2> QED
    BY <1>1, <2>1
<1> QED
  BY <1>1, <1>7 DEF S, A

(* Over a steady window, a receiver or an exporter is shown with exactly   *)
(* what the first of its series has counted.                               *)
LEMMA SteadyOwner ==
  ASSUME StoreInv, Len(store) >= 2, \A i \in Ends : Undisturbed(i),
         NEW metric \in Counters, NEW signal, NEW owner,
         store[Len(store)].at - store[1].at >= MinWindowElapsed
  PROVE  LET n == Len(store)
             rate == WindowRatePerSecond(store, OfOwner(metric, signal, owner))
             exposed == PlacesOf(metric, signal, owner) \cap DOMAIN store[n].samples
         IN  /\ exposed = {} => rate = 0
             /\ exposed # {} => \E j \in exposed :
                  rate * (store[n].at - store[1].at) = Totals(n)[j] * Unit
<1> DEFINE n == Len(store)
           labels == OfOwner(metric, signal, owner)
           rate == WindowRatePerSecond(store, labels)
           p == LookupValue(store[1], labels)
           c == LookupValue(store[n], labels)
           elapsed == store[n].at - store[1].at
           P == PlacesOf(metric, signal, owner)
           exposed == P \cap DOMAIN store[n].samples
<1>1. elapsed \in Nat \ {0} /\ Unit % elapsed = 0
  BY WindowLasts
<1>2. /\ store[1] \in Snapshots /\ store[n] \in Snapshots
      /\ n \in Nat /\ 1 \in 1 .. n /\ n \in 1 .. n /\ n \in Ends
  BY HistoryFacts, ElementOfSeq DEF StoreInv, TypeInv, Ends
<1>3. P \subseteq Counted
  BY PlacesFacts DEF Counted
<1>4. Found(store[n], labels) = exposed
  <2>1. DOMAIN store[n].samples \subseteq Place /\ P \subseteq Place
    BY <1>2, <1>3, SnapshotFacts DEF Counted
  <2>2. \A k \in Place : Matches(labels, Series[k]) <=> k \in P
    BY OwnerMatches
  <2> HIDE DEF labels, P
  <2> QED
    BY <2>1, <2>2 DEF Found
<1>5. Found(store[1], labels) = exposed
  <2>1. DOMAIN store[1].samples \subseteq Place /\ P \subseteq Place
    BY <1>2, <1>3, SnapshotFacts DEF Counted
  <2>2. \A k \in Place : Matches(labels, Series[k]) <=> k \in P
    BY OwnerMatches
  <2>3. \A k \in P : k \in DOMAIN store[n].samples <=> k \in DOMAIN store[1].samples
    BY <1>3, SteadyWindow
  <2> HIDE DEF labels, P
  <2> QED
    BY <2>1, <2>2, <2>3 DEF Found
<1>6. rate = IF elapsed < MinWindowElapsed \/ p = Absent \/ c = Absent THEN 0
             ELSE IF c < p THEN RatePerSecond(store[n - 1], store[n], labels)
             ELSE PerUnit(c - p, elapsed)
  <2>1. ~(Len(store) < 2)
    BY <1>2
  <2> QED
    BY <2>1 DEF WindowRatePerSecond
<1>7. exposed = {} => rate = 0
  <2> HAVE exposed = {}
  <2>1. c = Absent
    BY <1>2, <1>4, LookupFirst
  <2> HIDE DEF rate, p, c, elapsed
  <2> QED
    BY <1>6, <2>1
<1>8. ASSUME exposed # {}
      PROVE  \E j \in exposed : rate * elapsed = Totals(n)[j] * Unit
  <2>0. exposed \subseteq Nat /\ exposed \subseteq Counted
    BY <1>3, SeriesFacts DEF Counted
  <2> HIDE DEF exposed, labels
  <2>1. PICK i \in exposed : p = store[1].samples[i] /\ \A k \in exposed : i <= k
    BY <1>2, <1>5, <1>8, LookupFirst
  <2>2. PICK j \in exposed : c = store[n].samples[j] /\ \A k \in exposed : j <= k
    BY <1>2, <1>4, <1>8, LookupFirst
  <2>3. i = j
    <3>1. i <= j /\ j <= i /\ i \in Nat /\ j \in Nat
      BY <2>0, <2>1, <2>2
    <3> QED
      BY <3>1
  <2>4. j \in DOMAIN store[n].samples /\ j \in DOMAIN store[1].samples /\ j \in Place
    BY <1>4, <1>5, <2>0 DEF Found, Counted
  <2>5. p = Value(store[1], j) /\ c = Value(store[n], j)
    BY <2>1, <2>2, <2>3, <2>4 DEF Value
  <2>6. c = p + Totals(n)[j]
    BY <2>0, <2>5, SteadyWindow
  <2>7. p \in Nat /\ Totals(n)[j] \in Nat
    BY <1>2, <2>4, <2>5, ValueFacts, TotalSteps
  <2> DEFINE d == Totals(n)[j]
  <2>8. ~(elapsed < MinWindowElapsed) /\ p # Absent /\ c # Absent /\ ~(c < p) /\ c - p = d
    <3>1. elapsed \in Nat /\ elapsed >= MinWindowElapsed
      BY <1>1
    <3> HIDE DEF p, c, elapsed
    <3> QED
      BY <2>6, <2>7, <3>1 DEF Absent, MinWindowElapsed
  <2> HIDE DEF rate, p, c, elapsed, d
  <2>9. rate = PerUnit(d, elapsed) /\ d \in Nat
    BY <1>6, <2>7, <2>8 DEF d
  <2>10. rate * elapsed = d * Unit
    BY <1>1, <2>9, PerUnitExact
  <2> QED
    BY <2>10 DEF d
<1> QED
  BY <1>7, <1>8

LEMMA DashboardHolds == StoreInv => DashboardShowsNoFalseDrop
<1> SUFFICES ASSUME StoreInv, NEW signal \in Signals, Len(store) >= 2,
                    \A i \in Ends : Undisturbed(i) /\ Lossless(i, signal),
                    OneSeriesEach("sent", signal)
             PROVE  ~DropRateExceeds(SignalMetrics(store, signal), 10)
  BY DEF DashboardShowsNoFalseDrop
<1> DEFINE n == Len(store)
           newest == store[n]
           e == newest.at - store[1].at
           W(metric, o) == WindowRatePerSecond(store, OfOwner(metric, signal, o))
           receivers == Owners(newest, {"accepted"})
           exporters == Owners(newest, {"sent", "failed", "queue_size", "queue_capacity"})
           fin == [o \in receivers |-> W("accepted", o)]
           fout == [o \in exporters |-> W("sent", o)]
           in == SumFunction(fin)
           out == SumFunction(fout)
           PA == Places("accepted", signal)
           PS == Places("sent", signal)
           gin == InPlaces(n, PA)
           gout == InPlaces(n, PS)
           realIn == SumFunction(gin)
           realOut == SumFunction(gout)
<1>1. /\ SignalMetrics(store, signal).accepted = in
      /\ SignalMetrics(store, signal).sent = out
  BY DEF SignalMetrics
<1>2. e \in Nat \ {0} /\ Unit \in Nat
  BY WindowLasts, UnitAssumption
<1>3. "sent" \in Counters /\ "accepted" \in Counters
  BY DEF Counters
<1>4. newest \in Snapshots /\ n \in Ends
  BY HistoryFacts, ElementOfSeq DEF StoreInv, TypeInv, Ends
<1>5. IsFiniteSet(receivers) /\ IsFiniteSet(exporters)
  <2>1. IsFiniteSet(AllOwners) /\ receivers \subseteq AllOwners /\ exporters \subseteq AllOwners
    BY <1>4, OwnersFacts
  <2> HIDE DEF receivers, exporters
  <2> QED
    BY <2>1, FS_Subset
<1>6. \A o : W("accepted", o) \in Nat /\ W("sent", o) \in Nat
  BY <1>3, OwnerWindow
<1>7. Summable(fin, receivers) /\ Summable(fout, exporters)
  <2> HIDE DEF receivers, exporters, W
  <2> QED
    BY <1>5, <1>6 DEF Summable
<1>8. in \in Nat /\ out \in Nat
  <2> HIDE DEF fin, fout
  <2> QED
    BY <1>7, SumRemove
<1>9. /\ Summable(gin, PA) /\ Summable(gout, PS) /\ realIn \in Nat /\ realOut \in Nat
      /\ 10 * realOut >= 9 * realIn
  <2>1. /\ Summable(gin, PA) /\ Summable(gout, PS) /\ realIn \in Nat /\ realOut \in Nat
    BY <1>3, SignalTotals DEF SignalTotal
  <2>2. 10 * realOut >= 9 * realIn
    BY LossesAddUp DEF SignalTotal
  <2> QED
    BY <2>1, <2>2
<1>10. \A i \in Ends : Undisturbed(i)
  OBVIOUS
<1>11. CASE e < MinWindowElapsed
  <2>1. \A o : W("accepted", o) = 0
    <3>1. ~(Len(store) < 2)
      BY <1>4 DEF Ends
    <3> QED
      BY <1>11, <3>1 DEF WindowRatePerSecond
  <2>2. /\ \A o \in receivers \cap receivers : fin[o] * 1 <= fin[o] * 0
        /\ \A o \in receivers \ receivers : fin[o] = 0
    BY <2>1
  <2>3. in * 1 <= in * 0
    <3> HIDE DEF fin, receivers
    <3> QED
      BY <1>7, <2>2, SumScaled
  <2> HIDE DEF in, out
  <2>4. in = 0
    BY <1>8, <2>3
  <2> QED
    BY <1>1, <1>8, <2>4 DEF DropRateExceeds
<1>12. CASE e >= MinWindowElapsed
  <2>1. in * e <= realIn * Unit
    <3> DEFINE Good(o, j) == j \in PA /\ Series[j].owner = o /\ W("accepted", o) * e = Totals(n)[j] * Unit
               h == [o \in receivers |-> CHOOSE j : Good(o, j)]
    <3>1. ASSUME NEW o \in receivers, W("accepted", o) # 0
          PROVE  Good(o, h[o])
      <4>1. \E j \in PlacesOf("accepted", signal, o) \cap DOMAIN newest.samples :
              W("accepted", o) * e = Totals(n)[j] * Unit
        BY <1>3, <1>10, <1>12, <3>1, SteadyOwner
      <4>2. \E j : Good(o, j)
        BY <4>1 DEF PlacesOf
      <4> HIDE DEF Good
      <4> QED
        BY <4>2
    <3>2. \A o \in receivers : fin[o] = W("accepted", o)
      OBVIOUS
    <3>3. \A j \in PA : gin[j] = Totals(n)[j] /\ Totals(n)[j] \in Nat
      BY <1>3, <1>4, PlacesFacts, TotalSteps DEF InPlaces
    <3>4. \A o \in receivers : fin[o] # 0 =>
            h[o] \in PA /\ Series[h[o]].owner = o /\ fin[o] * e = gin[h[o]] * Unit
      BY <3>1, <3>2, <3>3
    <3> HIDE DEF h, fin, gin, receivers, PA, W, e
    <3>5. \A o \in receivers : fin[o] # 0 => h[o] \in PA /\ fin[o] * e <= gin[h[o]] * Unit
      <4> SUFFICES ASSUME NEW o \in receivers, fin[o] # 0
                   PROVE  h[o] \in PA /\ fin[o] * e <= gin[h[o]] * Unit
        OBVIOUS
      <4>1. h[o] \in PA /\ fin[o] * e = gin[h[o]] * Unit /\ fin[o] \in Nat
        BY <1>6, <3>2, <3>4
      <4>2. fin[o] * e \in Nat
        BY <1>2, <4>1
      <4> QED
        BY <4>1, <4>2
    <3>6. \A o, q \in receivers : fin[o] # 0 /\ fin[q] # 0 /\ h[o] = h[q] => o = q
      BY <3>4
    <3> QED
      BY <1>2, <1>7, <1>9, <3>5, <3>6, SumInjected
  <2>2. realOut * Unit <= out * e
    <3> DEFINE h == [k \in PS |-> Series[k].owner]
    <3>1. \A k \in PS : gout[k] = Totals(n)[k] /\ Totals(n)[k] \in Nat /\ k \in Counted /\ k \in Place
                        /\ Series[k].metric = "sent" /\ k \in PlacesOf("sent", signal, Series[k].owner)
      BY <1>3, <1>4, PlacesFacts, TotalSteps DEF InPlaces, Counted, PlacesOf, Places
    <3>2. ASSUME NEW k \in PS, gout[k] # 0
          PROVE  h[k] \in exporters /\ gout[k] * Unit <= fout[h[k]] * e
      <4> DEFINE o == Series[k].owner
                 exposed == PlacesOf("sent", signal, o) \cap DOMAIN newest.samples
      <4>1. Totals(n)[k] > 0
        BY <3>1, <3>2
      <4>2. k \in DOMAIN newest.samples
        BY <1>10, <3>1, <4>1, SteadyWindow
      <4>3. o \in exporters /\ fout[o] = W("sent", o)
        BY <3>1, <4>2 DEF Owners
      <4>4. exposed = {k}
        <5>1. k \in exposed
          BY <3>1, <4>2
        <5>2. \A j \in exposed : j = k
          BY DEF OneSeriesEach, PlacesOf
        <5> QED
          BY <5>1, <5>2
      <4>5. W("sent", o) * e = Totals(n)[k] * Unit
        <5>1. exposed # {} => \E j \in exposed : W("sent", o) * e = Totals(n)[j] * Unit
          BY <1>3, <1>10, <1>12, SteadyOwner
        <5> HIDE DEF exposed, W, e
        <5> QED
          BY <4>4, <5>1
      <4>6. Totals(n)[k] * Unit \in Nat
        BY <1>2, <3>1
      <4> QED
        BY <3>1, <4>3, <4>5, <4>6
    <3>3. \A j, k \in PS : h[j] = h[k] => j = k
      BY DEF OneSeriesEach
    <3> HIDE DEF h, fout, gout, exporters, PS, e
    <3>4. \A k \in PS : gout[k] # 0 => h[k] \in exporters /\ gout[k] * Unit <= fout[h[k]] * e
      BY <3>2
    <3>5. \A j, k \in PS : gout[j] # 0 /\ gout[k] # 0 /\ h[j] = h[k] => j = k
      BY <3>3
    <3> QED
      BY <1>2, <1>7, <1>9, <3>4, <3>5, SumInjected
  <2> HIDE DEF in, out, realIn, realOut, e
  <2>3. 9 * in <= 10 * out
    <3> DEFINE u == Unit
               a == in * e
               b == realIn * u
               c == realOut * u
               d == out * e
    <3>0. u \in Nat
      BY <1>2
    <3> HIDE DEF u
    <3>1. a \in Nat /\ b \in Nat /\ c \in Nat /\ d \in Nat
      BY <1>2, <1>8, <1>9, <3>0
    <3>2. 9 * b <= 10 * c
      <4>1. (9 * realIn) * u <= (10 * realOut) * u
        <5> DEFINE x == 9 * realIn
                   y == 10 * realOut
        <5>1. x \in Nat /\ y \in Nat /\ x <= y
          BY <1>9
        <5> HIDE DEF x, y
        <5>2. x * u <= y * u
          BY <3>0, <5>1, ProductMonotone
        <5> QED
          BY <5>2 DEF x, y
      <4>2. (9 * realIn) * u = 9 * b /\ (10 * realOut) * u = 10 * c
        BY <1>9, <3>0
      <4> QED
        BY <4>1, <4>2
    <3>3. a <= b /\ c <= d
      BY <2>1, <2>2 DEF u
    <3> HIDE DEF a, b, c, d
    <3>4. 9 * a <= 10 * d
      BY <3>1, <3>2, <3>3
    <3>5. 9 * a = (9 * in) * e /\ 10 * d = (10 * out) * e
      BY <1>2, <1>8 DEF a, d
    <3> DEFINE x == 9 * in
               y == 10 * out
    <3>6. x \in Nat /\ y \in Nat /\ x * e <= y * e
      BY <1>8, <3>4, <3>5
    <3> HIDE DEF x, y
    <3>7. x <= y
      <4> SUFFICES ASSUME y < x PROVE FALSE
        BY <3>6
      <4>1. y + 1 <= x /\ y + 1 \in Nat
        BY <3>6
      <4>2. (y + 1) * e <= x * e
        BY <1>2, <3>6, <4>1, ProductMonotone
      <4>3. (y + 1) * e = y * e + e /\ y * e \in Nat /\ x * e \in Nat
        BY <1>2, <3>6
      <4> QED
        BY <1>2, <3>6, <4>2, <4>3
    <3> QED
      BY <3>7 DEF x, y
  <2>4. ~(out < in /\ (in - out) * 100 > 10 * in)
    BY <1>8, <2>3
  <2> QED
    BY <1>1, <2>4 DEF DropRateExceeds
<1>13. e < MinWindowElapsed \/ e >= MinWindowElapsed
  BY <1>2 DEF MinWindowElapsed
<1> QED
  BY <1>11, <1>12, <1>13

(* The dashboard shows no drop of a signal that lost nothing, for any      *)
(* receivers with any number of series each.                               *)
THEOREM DashboardIsTruthful == Spec => []DashboardShowsNoFalseDrop
BY StoreIsFaithful, DashboardHolds, PTL
==============================================================================
