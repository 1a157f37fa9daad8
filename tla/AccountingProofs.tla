-------------------------- MODULE AccountingProofs --------------------------
(***************************************************************************)
(* What the accounting operators guarantee for every pod, window and       *)
(* resolution, the sum over the pods of a budget included.  The sum is a   *)
(* fold of the library: the first part shows, by induction over a finite   *)
(* set, that it is well defined and does not depend on the order.          *)
(***************************************************************************)
EXTENDS PodConversion, FiniteSetTheorems, WellFoundedInduction, TLAPS

-----------------------------------------------------------------------------
(***************************************************************************)
(* Induction over finite sets.                                             *)
(***************************************************************************)
\* Of a family of finite sets that is not empty, one has no proper subset in it.
LEMMA MinimalSet ==
    ASSUME NEW S, NEW T \in SUBSET FiniteSubsetsOf(S), T # {}
    PROVE \E s \in T : \A r \in T : r \subseteq s => r = s
<1>1. PICK s \in T : \A r \in T : ~(<<r, s>> \in StrictSubsetOrdering(S))
  BY WFMin, FS_StrictSubsetOrderingWellFounded
<1>. QED BY <1>1 DEF StrictSubsetOrdering, FiniteSubsetsOf

\* Induction over a finite set, with a set of subsets for the predicate.
LEMMA FiniteInduction ==
    ASSUME NEW S, IsFiniteSet(S), NEW F,
           {} \in F, \A s \in F, x \in S : s \in SUBSET S /\ x \notin s => s \cup {x} \in F
    PROVE  S \in F
<1>. DEFINE Bad == {s \in SUBSET S : s \notin F}
<1>1. SUFFICES ASSUME Bad # {} PROVE FALSE
  OBVIOUS
<1>2. Bad \in SUBSET FiniteSubsetsOf(S)
  BY FS_Subset DEF FiniteSubsetsOf
<1>. HIDE DEF Bad
<1>3. PICK s \in Bad : \A r \in Bad : r \subseteq s => r = s
  BY <1>1, <1>2, MinimalSet
<1>. USE DEF Bad
<1>4. PICK x \in s : TRUE
  OBVIOUS
<1>5. s \ {x} \in F
  BY <1>3
<1>6. (s \ {x}) \cup {x} = s
  OBVIOUS
<1>. QED BY <1>5, <1>6

\* Induction over the numbers, in the same form.
LEMMA Counting ==
    ASSUME NEW F, 0 \in F, \A n \in Nat : n \in F => n + 1 \in F, NEW k \in Nat
    PROVE  k \in F
<1>. DEFINE Fs == {s \in SUBSET (1..k) : Cardinality(s) \in F}
<1>1. IsFiniteSet(1..k) /\ Cardinality(1..k) = k
  BY FS_Interval
<1>2. {} \in Fs
  BY FS_EmptySet
<1>3. ASSUME NEW s \in Fs, NEW x \in 1..k, x \notin s
      PROVE  s \cup {x} \in Fs
  <2>1. IsFiniteSet(s)
    BY <1>1, FS_Subset
  <2>2. Cardinality(s \cup {x}) = Cardinality(s) + 1 /\ Cardinality(s) \in Nat
    BY <1>3, <2>1, FS_AddElement, FS_CardinalityType
  <2>. QED BY <2>2
<1>. HIDE DEF Fs
<1>4. 1..k \in Fs
  BY <1>1, <1>2, <1>3, FiniteInduction
<1>. QED BY <1>1, <1>4 DEF Fs

\* Induction over a finite set from all the smaller ones.
LEMMA StrongInduction ==
    ASSUME NEW S, IsFiniteSet(S), NEW F,
           \A s \in SUBSET S : (\A r \in SUBSET s : r # s => r \in F) => s \in F
    PROVE  S \in F
<1>. DEFINE Bad == {s \in SUBSET S : s \notin F}
<1>1. SUFFICES ASSUME Bad # {} PROVE FALSE
  OBVIOUS
<1>2. Bad \in SUBSET FiniteSubsetsOf(S)
  BY FS_Subset DEF FiniteSubsetsOf
<1>. HIDE DEF Bad
<1>3. PICK s \in Bad : \A r \in Bad : r \subseteq s => r = s
  BY <1>1, <1>2, MinimalSet
<1>. QED BY <1>3 DEF Bad


-----------------------------------------------------------------------------
(***************************************************************************)
(* Sums over finite sets.                                                  *)
(***************************************************************************)
\* The sum of the function f over the set S.
Total(f, S) == MapThenSumSet(LAMBDA i : f[i], S)

Pick(s) == CHOOSE x \in s : TRUE

\* g adds f up over every subset of S, an element at a time.
SumEq(g, f, S) ==
    g = [s \in SUBSET S |-> IF s = {} THEN 0 ELSE f[Pick(s)] + g[s \ {Pick(s)}]]

\* The equation of a sum has a solution: one for the subsets of n elements gives
\* one for those of n + 1.
LEMMA SumExists ==
    ASSUME NEW S, IsFiniteSet(S), NEW f
    PROVE  \E g : SumEq(g, f, S)
<1>. DEFINE Step(g, s) == IF s = {} THEN 0 ELSE f[Pick(s)] + g[s \ {Pick(s)}]
            UpTo(g, n) == \A s \in SUBSET S : Cardinality(s) <= n => g[s] = Step(g, s)
            F == {n \in Nat : \E g : UpTo(g, n)}
<1>1. \A s \in SUBSET S : s # {} =>
        /\ Pick(s) \in s /\ IsFiniteSet(s) /\ s \ {Pick(s)} \in SUBSET S
        /\ Cardinality(s) \in Nat /\ Cardinality(s \ {Pick(s)}) = Cardinality(s) - 1
  <2>. SUFFICES ASSUME NEW s \in SUBSET S, s # {} 
      PROVE /\ Pick(s) \in s /\ IsFiniteSet(s) /\ s \ {Pick(s)} \in SUBSET S
            /\ Cardinality(s) \in Nat /\ Cardinality(s \ {Pick(s)}) = Cardinality(s) - 1
     OBVIOUS
  <2>1. Pick(s) \in s
     BY DEF Pick
  <2>2. IsFiniteSet(s)
     BY FS_Subset
  <2>. QED BY <2>1, <2>2, FS_RemoveElement, FS_CardinalityType
<1>a. \A s \in SUBSET S : IsFiniteSet(s) /\ Cardinality(s) \in Nat /\ (Cardinality(s) = 0 <=> s = {})
  BY FS_Subset, FS_CardinalityType, FS_EmptySet
<1>2. 0 \in F
  <2>. DEFINE g == [s \in SUBSET S |-> 0]
  <2>1. \A s \in SUBSET S : Cardinality(s) <= 0 => s = {}
    BY <1>a
  <2>2. UpTo(g, 0)
    BY <2>1
  <2>. QED BY <2>2
<1>3. ASSUME NEW n \in Nat, NEW g, UpTo(g, n)
      PROVE  UpTo([s \in SUBSET S |-> Step(g, s)], n + 1)
  <2>. DEFINE h == [s \in SUBSET S |-> Step(g, s)]
  <2>. SUFFICES ASSUME NEW s \in SUBSET S, Cardinality(s) <= n + 1 PROVE h[s] = Step(h, s)
    OBVIOUS
  <2>1. CASE s = {}
    BY <2>1
  <2>2. CASE s # {}
    <3>. DEFINE r == s \ {Pick(s)}
    <3>1. r \in SUBSET S /\ Cardinality(r) <= n
      BY <1>1, <2>2
    <3>2. g[r] = h[r]
      BY <3>1, <1>3
    <3>. QED BY <2>2, <3>2
  <2>. QED BY <2>1, <2>2
<1>4. ASSUME NEW n \in Nat, n \in F PROVE n + 1 \in F
  <2>1. PICK g : UpTo(g, n)
    BY <1>4
  <2>. DEFINE h == [s \in SUBSET S |-> Step(g, s)]
  <2>. HIDE DEF UpTo
  <2>2. UpTo(h, n + 1)
    BY <1>3, <2>1
  <2>3. n + 1 \in Nat
    OBVIOUS
  <2>. HIDE DEF h
  <2>. QED BY <2>2, <2>3
<1>5. Cardinality(S) \in Nat
  BY FS_CardinalityType
<1>. HIDE DEF F
<1>6. Cardinality(S) \in F
  BY <1>2, <1>4, <1>5, Counting
<1>. USE DEF F
<1>7. PICK g : UpTo(g, Cardinality(S))
  BY <1>6
<1>8. \A s \in SUBSET S : g[s] = Step(g, s)
  BY <1>7, FS_Subset
<1>. DEFINE h == [s \in SUBSET S |-> Step(g, s)]
<1>9. \A s \in SUBSET S : g[s] = h[s]
  BY <1>8
<1>10. \A s \in SUBSET S : h[s] = Step(h, s)
  BY <1>1, <1>9
<1>. QED BY <1>10 DEF SumEq

\* What is picked from a set belongs to it.
LEMMA PickIn ==
    ASSUME NEW s, s # {} PROVE Pick(s) \in s
BY DEF Pick

\* Two solutions agree where both are defined.
LEMMA SumUnique ==
    ASSUME NEW S, IsFiniteSet(S), NEW T \in SUBSET S, NEW f, NEW g, NEW h,
           SumEq(g, f, S), SumEq(h, f, T)
    PROVE  g[T] = h[T]
<1>. DEFINE F == {s \in SUBSET T : g[s] = h[s]}
<1>1. ASSUME NEW s \in SUBSET T, \A r \in SUBSET s : r # s => r \in F
      PROVE  s \in F
  <2>1. CASE s = {}
    BY <2>1 DEF SumEq
  <2>2. CASE s # {}
    <3>1. Pick(s) \in s
      BY <2>2, PickIn
    <3>2. s \ {Pick(s)} \in F
      BY <1>1, <3>1
    <3>3. g[s] = f[Pick(s)] + g[s \ {Pick(s)}] /\ h[s] = f[Pick(s)] + h[s \ {Pick(s)}]
      BY <2>2, <3>1 DEF SumEq
    <3>. QED BY <3>2, <3>3
  <2>. QED BY <2>1, <2>2
<1>2. IsFiniteSet(T)
  BY FS_Subset
<1>. HIDE DEF F
<1>3. T \in F
  BY <1>1, <1>2, StrongInduction
<1>. QED BY <1>3 DEF F

\* The fold of the library is such a solution.
LEMMA TotalIs ==
    ASSUME NEW f, NEW S, IsFiniteSet(S)
    PROVE  \E g : SumEq(g, f, S) /\ Total(f, S) = g[S]
<1>1. Total(f, S) = (CHOOSE g : SumEq(g, f, S))[S]
  BY DEF Total, MapThenSumSet, MapThenFoldSet, SumEq, Pick
<1>2. PICK h : SumEq(h, f, S)
  BY SumExists
<1>3. SumEq(CHOOSE g : SumEq(g, f, S), f, S)
  BY <1>2
<1>. QED BY <1>1, <1>3

\* A sum of nothing.
LEMMA TotalEmpty ==
    ASSUME NEW f PROVE Total(f, {}) = 0
<1>1. PICK g : SumEq(g, f, {}) /\ Total(f, {}) = g[{}]
  BY TotalIs, FS_EmptySet
<1>2. g[{}] = 0
  BY <1>1 DEF SumEq
<1>. QED BY <1>1, <1>2

\* A sum is the element picked and the sum of the others.
LEMMA TotalPick ==
    ASSUME NEW f, NEW S, IsFiniteSet(S), S # {}
    PROVE  Total(f, S) = f[Pick(S)] + Total(f, S \ {Pick(S)})
<1>. DEFINE T == S \ {Pick(S)}
<1>1. T \in SUBSET S /\ IsFiniteSet(T)
  BY FS_RemoveElement
<1>2. PICK g : SumEq(g, f, S) /\ Total(f, S) = g[S]
  BY TotalIs
<1>3. PICK h : SumEq(h, f, T) /\ Total(f, T) = h[T]
  BY <1>1, TotalIs
<1>4. g[T] = h[T]
  BY <1>1, <1>2, <1>3, SumUnique
<1>5. g[S] = f[Pick(S)] + g[T]
  BY <1>2 DEF SumEq
<1>. QED BY <1>2, <1>3, <1>4, <1>5

\* A sum of integers is one.
LEMMA TotalInt ==
    ASSUME NEW f, NEW S, IsFiniteSet(S), \A i \in S : f[i] \in Int
    PROVE  Total(f, S) \in Int
<1>. DEFINE F == {s \in SUBSET S : Total(f, s) \in Int}
<1>1. ASSUME NEW s \in SUBSET S, \A r \in SUBSET s : r # s => r \in F
      PROVE  s \in F
  <2>1. CASE s = {}
    BY <2>1, TotalEmpty
  <2>2. CASE s # {}
    <3>1. Pick(s) \in s /\ IsFiniteSet(s)
      BY <2>2, PickIn, FS_Subset
    <3>2. s \ {Pick(s)} \in F
      BY <1>1, <3>1
    <3>. QED BY <2>2, <3>1, <3>2, TotalPick
  <2>. QED BY <2>1, <2>2
<1>. HIDE DEF F
<1>2. S \in F
  BY <1>1, StrongInduction
<1>. QED BY <1>2 DEF F

\* Any element may be taken out of a sum first: the order does not matter.
LEMMA TotalRemove ==
    ASSUME NEW f, NEW S, IsFiniteSet(S), \A i \in S : f[i] \in Int, NEW x \in S
    PROVE  Total(f, S) = f[x] + Total(f, S \ {x})
<1>. DEFINE Splits(s, y) == Total(f, s) = f[y] + Total(f, s \ {y})
            F == {s \in SUBSET S : \A y \in s : Splits(s, y)}
<1>1. ASSUME NEW s \in SUBSET S, \A r \in SUBSET s : r # s => r \in F, NEW y \in s
      PROVE  Splits(s, y)
  <2>. DEFINE p == Pick(s)
  <2>1. p \in s /\ IsFiniteSet(s)
    BY PickIn, FS_Subset
  <2>2. Splits(s, p)
    BY <2>1, TotalPick
  <2>3. CASE y # p
    <3>. DEFINE t == s \ {p}
                u == s \ {y}
                v == t \ {y}
    <3>1. Total(f, t) = f[y] + Total(f, v)
      BY <1>1, <2>1, <2>3
    <3>2. u \ {p} = v
      OBVIOUS
    <3>3. Total(f, u) = f[p] + Total(f, u \ {p})
      BY <1>1, <2>1, <2>3
    <3>4. Total(f, v) \in Int
      BY <2>1, FS_RemoveElement, TotalInt
    <3>5. f[y] \in Int /\ f[p] \in Int
      BY <2>1
    <3>6. Total(f, s) = f[p] + Total(f, t)
      BY <2>2
    <3>7. Total(f, u) = f[p] + Total(f, v)
      BY <3>2, <3>3
    <3>. HIDE DEF p, t, u, v
    <3>8. Total(f, s) = f[y] + Total(f, u)
      BY <3>1, <3>4, <3>5, <3>6, <3>7
    <3>. QED BY <3>8 DEF u
  <2>. QED BY <2>2, <2>3
<1>. HIDE DEF Splits
<1>2. \A s \in SUBSET S : (\A r \in SUBSET s : r # s => r \in F) => s \in F
  BY <1>1
<1>. HIDE DEF F
<1>3. S \in F
  BY <1>2, StrongInduction
<1>. QED BY <1>3 DEF F, Splits

\* Only the values on the set matter to a sum.
LEMMA TotalAgree ==
    ASSUME NEW S, IsFiniteSet(S), NEW f, NEW g, \A i \in S : f[i] = g[i]
    PROVE  Total(f, S) = Total(g, S)
<1>1. PICK h : SumEq(h, f, S) /\ Total(f, S) = h[S]
  BY TotalIs
<1>2. PICK k : SumEq(k, g, S) /\ Total(g, S) = k[S]
  BY TotalIs
<1>3. \A s \in SUBSET S : s # {} => f[Pick(s)] = g[Pick(s)]
  BY PickIn
<1>4. SumEq(h, g, S)
  BY <1>1, <1>3 DEF SumEq
<1>. QED BY <1>1, <1>2, <1>4, SumUnique

\* A sum grows with its terms.
LEMMA TotalOrdered ==
    ASSUME NEW S, IsFiniteSet(S), NEW f, NEW g,
           \A i \in S : f[i] \in Int /\ g[i] \in Int /\ f[i] <= g[i]
    PROVE  Total(f, S) <= Total(g, S)
<1>. DEFINE F == {s \in SUBSET S : Total(f, s) <= Total(g, s)}
<1>1. ASSUME NEW s \in SUBSET S, \A r \in SUBSET s : r # s => r \in F
      PROVE  s \in F
  <2>1. CASE s = {}
    BY <2>1, TotalEmpty
  <2>2. CASE s # {}
    <3>. DEFINE p == Pick(s)
                r == s \ {p}
    <3>1. p \in s /\ IsFiniteSet(s) /\ IsFiniteSet(r)
      BY <2>2, PickIn, FS_Subset
    <3>2. Total(f, r) <= Total(g, r)
      BY <1>1, <3>1
    <3>3. Total(f, s) = f[p] + Total(f, r) /\ Total(g, s) = g[p] + Total(g, r)
      BY <2>2, <3>1, TotalPick
    <3>4. Total(f, r) \in Int /\ Total(g, r) \in Int
      BY <3>1, TotalInt
    <3>5. f[p] \in Int /\ g[p] \in Int /\ f[p] <= g[p]
      BY <3>1
    <3>. HIDE DEF p, r
    <3>6. Total(f, s) <= Total(g, s)
      BY <3>2, <3>3, <3>4, <3>5
    <3>. QED BY <3>6
  <2>. QED BY <2>1, <2>2
<1>. HIDE DEF F
<1>2. S \in F
  BY <1>1, StrongInduction
<1>. QED BY <1>2 DEF F

\* A sum over two sets that share nothing is the sum over one and the other.
LEMMA TotalUnion ==
    ASSUME NEW S, IsFiniteSet(S), NEW T, IsFiniteSet(T), S \cap T = {},
           NEW f, \A i \in S \cup T : f[i] \in Int
    PROVE  Total(f, S \cup T) = Total(f, S) + Total(f, T)
<1>. DEFINE F == {s \in SUBSET T : Total(f, S \cup s) = Total(f, S) + Total(f, s)}
<1>1. ASSUME NEW s \in F, NEW x \in T, x \notin s
      PROVE  s \cup {x} \in F
  <2>. DEFINE U == S \cup s
              V == S \cup (s \cup {x})
              r == s \cup {x}
  <2>1. IsFiniteSet(s) /\ s \in SUBSET T
    BY FS_Subset
  <2>2. IsFiniteSet(r) /\ IsFiniteSet(U) /\ IsFiniteSet(V)
    BY <2>1, FS_AddElement, FS_Union
  <2>3. r \ {x} = s /\ V \ {x} = U /\ x \in r /\ x \in V
    BY <1>1
  <2>4. (\A i \in r : f[i] \in Int) /\ (\A i \in V : f[i] \in Int) /\ f[x] \in Int
    BY <2>1
  <2>5. Total(f, U) = Total(f, S) + Total(f, s)
    BY <1>1
  <2>6. Total(f, S) \in Int /\ Total(f, s) \in Int
    BY <2>1, TotalInt
  <2>7. r \in SUBSET T
    BY <2>1
  <2>. HIDE DEF U, V, r
  <2>8. Total(f, r) = f[x] + Total(f, s) /\ Total(f, V) = f[x] + Total(f, U)
    BY <2>2, <2>3, <2>4, TotalRemove
  <2>9. Total(f, V) = Total(f, S) + Total(f, r)
    BY <2>4, <2>5, <2>6, <2>8
  <2>. QED BY <2>7, <2>9 DEF V, r
<1>2. {} \in F
  <2>1. Total(f, S) \in Int /\ S \cup {} = S
    BY TotalInt
  <2>. QED BY <2>1, TotalEmpty
<1>3. T \in F
  <2>1. \A s \in F, x \in T : s \in SUBSET T /\ x \notin s => s \cup {x} \in F
    BY <1>1
  <2>. HIDE DEF F
  <2>. QED BY <1>2, <2>1, FiniteInduction
<1>. QED BY <1>3 DEF F

\* A sum of the same number all over.
LEMMA TotalConstant ==
    ASSUME NEW S, IsFiniteSet(S), NEW f, NEW k \in Int, \A i \in S : f[i] = k
    PROVE  Total(f, S) = k * Cardinality(S)
<1>. DEFINE F == {s \in SUBSET S : Total(f, s) = k * Cardinality(s)}
<1>1. ASSUME NEW s \in SUBSET S, \A r \in SUBSET s : r # s => r \in F
      PROVE  s \in F
  <2>1. CASE s = {}
    BY <2>1, TotalEmpty, FS_EmptySet
  <2>2. CASE s # {}
    <3>. DEFINE p == Pick(s)
                r == s \ {p}
    <3>1. p \in s /\ IsFiniteSet(s) /\ IsFiniteSet(r)
      BY <2>2, PickIn, FS_Subset
    <3>2. Total(f, r) = k * Cardinality(r)
      BY <1>1, <3>1
    <3>3. Total(f, s) = k + Total(f, r)
      BY <2>2, <3>1, TotalPick
    <3>4. Cardinality(s) = Cardinality(r) + 1 /\ Cardinality(r) \in Nat
      BY <3>1, FS_RemoveElement, FS_CardinalityType
    <3>. HIDE DEF p, r
    <3>5. k * (Cardinality(r) + 1) = k * Cardinality(r) + k
      BY <3>4
    <3>6. Total(f, s) = k * Cardinality(s)
      BY <3>2, <3>3, <3>4, <3>5
    <3>. QED BY <3>6
  <2>. QED BY <2>1, <2>2
<1>. HIDE DEF F
<1>2. S \in F
  BY <1>1, StrongInduction
<1>. QED BY <1>2 DEF F

\* A sum of natural numbers is one, at least as large as each of them.
LEMMA TotalNat ==
    ASSUME NEW S, IsFiniteSet(S), NEW f, \A i \in S : f[i] \in Nat
    PROVE  Total(f, S) \in Nat /\ \A i \in S : f[i] <= Total(f, S)
<1>. DEFINE z == [i \in S |-> 0]
<1>1. ASSUME NEW T \in SUBSET S PROVE Total(f, T) \in Nat
  <2>1. IsFiniteSet(T)
    BY FS_Subset
  <2>2. Total(z, T) = 0 * Cardinality(T) /\ Cardinality(T) \in Nat
    BY <2>1, TotalConstant, FS_CardinalityType
  <2>3. Total(z, T) <= Total(f, T)
    BY <2>1, TotalOrdered
  <2>4. Total(f, T) \in Int
    BY <2>1, TotalInt
  <2>. QED BY <2>2, <2>3, <2>4
<1>2. ASSUME NEW i \in S PROVE f[i] <= Total(f, S)
  <2>1. Total(f, S) = f[i] + Total(f, S \ {i})
    BY TotalRemove
  <2>2. Total(f, S \ {i}) \in Nat
    BY <1>1
  <2>. QED BY <2>1, <2>2
<1>. QED BY <1>1, <1>2

\* Only a term that is not zero makes a sum that is not zero.
LEMMA TotalZero ==
    ASSUME NEW S, IsFiniteSet(S), NEW f, \A i \in S : f[i] = 0
    PROVE  Total(f, S) = 0
BY TotalConstant, FS_CardinalityType

-----------------------------------------------------------------------------
(***************************************************************************)
(* The smallest, the largest and the worst of a finite set.                *)
(***************************************************************************)
\* The values of a function on a finite set are finitely many.
LEMMA FiniteImage ==
    ASSUME NEW S, IsFiniteSet(S), NEW f
    PROVE  IsFiniteSet({f[x] : x \in S})
<1>. DEFINE F == {s \in SUBSET S : IsFiniteSet({f[x] : x \in s})}
<1>1. {} \in F
  <2>1. {f[x] : x \in {}} = {}
    OBVIOUS
  <2>. QED BY <2>1, FS_EmptySet
<1>2. ASSUME NEW s \in F, NEW y \in S PROVE s \cup {y} \in F
  <2>. DEFINE A == {f[x] : x \in s}
  <2>1. {f[x] : x \in s \cup {y}} = A \cup {f[y]}
    OBVIOUS
  <2>2. IsFiniteSet(A)
    OBVIOUS
  <2>. HIDE DEF A
  <2>3. IsFiniteSet(A \cup {f[y]})
    BY <2>2, FS_AddElement
  <2>. QED BY <2>1, <2>3
<1>. HIDE DEF F
<1>3. S \in F
  BY <1>1, <1>2, FiniteInduction
<1>. QED BY <1>3 DEF F

\* A finite set of integers has a smallest and a largest element.
LEMMA MinIs ==
    ASSUME NEW S \in SUBSET Int, IsFiniteSet(S), S # {}
    PROVE  Min(S) \in S /\ \A y \in S : Min(S) <= y
<1>. DEFINE F == {s \in SUBSET S : s = {} \/ \E x \in s : \A y \in s : x <= y}
<1>1. ASSUME NEW s \in F, NEW z \in S PROVE s \cup {z} \in F
  <2>1. CASE s = {}
    BY <2>1
  <2>2. CASE s # {}
    <3>1. PICK x \in s : \A y \in s : x <= y
      BY <2>2
    <3>. QED BY <3>1
  <2>. QED BY <2>1, <2>2
<1>2. {} \in F
  OBVIOUS
<1>. HIDE DEF F
<1>3. S \in F
  BY <1>1, <1>2, FiniteInduction
<1>. QED BY <1>3 DEF F, Min

LEMMA MaxIs ==
    ASSUME NEW S \in SUBSET Int, IsFiniteSet(S), S # {}
    PROVE  Max(S) \in S /\ \A y \in S : Max(S) >= y
<1>. DEFINE F == {s \in SUBSET S : s = {} \/ \E x \in s : \A y \in s : x >= y}
<1>1. ASSUME NEW s \in F, NEW z \in S PROVE s \cup {z} \in F
  <2>1. CASE s = {}
    BY <2>1
  <2>2. CASE s # {}
    <3>1. PICK x \in s : \A y \in s : x >= y
      BY <2>2
    <3>. QED BY <3>1
  <2>. QED BY <2>1, <2>2
<1>2. {} \in F
  OBVIOUS
<1>. HIDE DEF F
<1>3. S \in F
  BY <1>1, <1>2, FiniteInduction
<1>. QED BY <1>3 DEF F, Max

-----------------------------------------------------------------------------
(***************************************************************************)
(* Sums of which only a part counts, or that are made of smaller sums.     *)
(***************************************************************************)
\* Terms that are zero may be left out of a sum.
LEMMA TotalSupport ==
    ASSUME NEW S, IsFiniteSet(S), NEW T \in SUBSET S, NEW f, \A i \in S : f[i] \in Int,
           \A i \in S \ T : f[i] = 0
    PROVE  Total(f, S) = Total(f, T)
<1>. DEFINE F == {s \in SUBSET (S \ T) : Total(f, T \cup s) = Total(f, T)}
<1>1. ASSUME NEW s \in F, NEW x \in S \ T, x \notin s
      PROVE  s \cup {x} \in F
  <2>. DEFINE U == T \cup s
              V == T \cup (s \cup {x})
  <2>1. IsFiniteSet(V) /\ (\A i \in V : f[i] \in Int) /\ x \in V /\ f[x] = 0
    BY <1>1, FS_Subset
  <2>2. V \ {x} = U
    BY <1>1
  <2>3. Total(f, U) \in Int
    BY FS_Subset, TotalInt
  <2>4. Total(f, U) = Total(f, T)
    OBVIOUS
  <2>. HIDE DEF U, V
  <2>5. Total(f, V) = f[x] + Total(f, U)
    BY <2>1, <2>2, TotalRemove
  <2>6. Total(f, V) = Total(f, T)
    BY <2>1, <2>3, <2>4, <2>5
  <2>. QED BY <2>6 DEF V
<1>2. {} \in F
  <2>1. T \cup {} = T
    OBVIOUS
  <2>. QED BY <2>1
<1>3. IsFiniteSet(S \ T)
  BY FS_Subset
<1>. HIDE DEF F
<1>4. S \ T \in F
  BY <1>1, <1>2, <1>3, FiniteInduction
<1>5. T \cup (S \ T) = S
  OBVIOUS
<1>. QED BY <1>4, <1>5 DEF F

\* The second components of the pairs of s that begin with n.
Column(n, s) == {t \in Int : <<n, t>> \in s}

LEMMA ColumnFinite ==
    ASSUME NEW s, IsFiniteSet(s), NEW n
    PROVE  IsFiniteSet(Column(n, s))
<1>. DEFINE f == [e \in s |-> e[2]]
            A == {f[e] : e \in s}
<1>1. Column(n, s) \subseteq A
  <2>1. ASSUME NEW t, <<n, t>> \in s PROVE t = f[<<n, t>>]
    BY <2>1
  <2>. QED BY <2>1 DEF Column
<1>. HIDE DEF f
<1>2. IsFiniteSet(A)
  BY FiniteImage
<1>. QED BY <1>1, <1>2, FS_Subset

\* A sum over pairs whose terms depend on the first component alone.
LEMMA TotalByColumn ==
    ASSUME NEW N, IsFiniteSet(N), NEW c, \A n \in N : c[n] \in Int,
           NEW L \in SUBSET (N \X Int), IsFiniteSet(L), NEW f, \A e \in L : f[e] = c[e[1]],
           NEW h, \A n \in N : h[n] = c[n] * Cardinality(Column(n, L))
    PROVE  Total(f, L) = Total(h, N)
<1>. DEFINE H(s) == [n \in N |-> c[n] * Cardinality(Column(n, s))]
            F == {s \in SUBSET L : Total(f, s) = Total(H(s), N)}
<1>1. ASSUME NEW s \in SUBSET L
      PROVE  /\ IsFiniteSet(s) /\ \A n \in N : IsFiniteSet(Column(n, s))
             /\ \A n \in N : Cardinality(Column(n, s)) \in Nat
             /\ \A n \in N : H(s)[n] = c[n] * Cardinality(Column(n, s)) /\ H(s)[n] \in Int
  <2>1. IsFiniteSet(s)
    BY FS_Subset
  <2>2. \A n \in N : IsFiniteSet(Column(n, s)) /\ Cardinality(Column(n, s)) \in Nat
    BY <2>1, ColumnFinite, FS_CardinalityType
  <2>. QED BY <2>1, <2>2
<1>2. {} \in F
  <2>1. \A n \in N : Column(n, {}) = {}
    BY DEF Column
  <2>2. \A n \in N : H({})[n] = 0
    BY <2>1, FS_EmptySet
  <2>. HIDE DEF H
  <2>. QED BY <2>2, TotalEmpty, TotalZero
<1>3. ASSUME NEW s \in F, NEW e \in L, e \notin s
      PROVE  s \cup {e} \in F
  <2>. DEFINE u == s \cup {e}
  <2>1. PICK m \in N, t \in Int : e = <<m, t>>
    OBVIOUS
  <2>2. Column(m, u) = Column(m, s) \cup {t} /\ t \notin Column(m, s)
    BY <1>3, <2>1 DEF Column
  <2>3. \A n \in N \ {m} : Column(n, u) = Column(n, s)
    BY <2>1 DEF Column
  <2>4. Cardinality(Column(m, u)) = Cardinality(Column(m, s)) + 1
    BY <1>1, <2>2, FS_AddElement
  <2>5. u \in SUBSET L /\ s \in SUBSET L
    OBVIOUS
  <2>6. u \ {e} = s /\ e \in u
    BY <1>3
  <2>7. Total(f, s) = Total(H(s), N)
    OBVIOUS
  <2>. HIDE DEF u, F
  <2>8. H(u)[m] = H(s)[m] + c[m] /\ \A n \in N \ {m} : H(u)[n] = H(s)[n]
    <3>1. PICK j, k : j = c[m] /\ k = Cardinality(Column(m, s))
      OBVIOUS
    <3>2. j \in Int /\ k \in Nat
      BY <1>1, <2>5, <3>1
    <3>3. j * (k + 1) = j * k + j
      BY <3>2
    <3>4. /\ H(u)[m] = j * (k + 1) /\ H(s)[m] = j * k
          /\ \A n \in N \ {m} : H(u)[n] = H(s)[n]
      BY <1>1, <2>3, <2>4, <2>5, <3>1
    <3>. QED BY <3>1, <3>3, <3>4
  <2>9. PICK x, y : x = H(u) /\ y = H(s)
    OBVIOUS
  <2>10. /\ x[m] = y[m] + c[m] /\ (\A n \in N \ {m} : x[n] = y[n])
         /\ \A n \in N : x[n] \in Int /\ y[n] \in Int
    BY <1>1, <2>5, <2>8, <2>9
  <2>11. /\ Total(x, N) = x[m] + Total(x, N \ {m})
         /\ Total(y, N) = y[m] + Total(y, N \ {m})
    BY <2>10, TotalRemove
  <2>12. IsFiniteSet(N \ {m})
    BY FS_RemoveElement
  <2>13. Total(x, N \ {m}) = Total(y, N \ {m}) /\ Total(y, N \ {m}) \in Int
    BY <2>10, <2>12, TotalAgree, TotalInt
  <2>14. Total(f, u) = f[e] + Total(f, s)
    <3>1. IsFiniteSet(u) /\ \A i \in u : f[i] \in Int
      BY <1>1, <2>5
    <3>. QED BY <2>6, <3>1, TotalRemove
  <2>15. f[e] = c[m]
    BY <2>1
  <2>16. Total(f, u) = Total(x, N)
    BY <2>7, <2>9, <2>10, <2>11, <2>13, <2>14, <2>15
  <2>. QED BY <2>5, <2>9, <2>16 DEF u, F
<1>. HIDE DEF F
<1>4. L \in F
  BY <1>2, <1>3, FiniteInduction
<1>5. Total(f, L) = Total(H(L), N)
  BY <1>4 DEF F
<1>6. \A n \in N : H(L)[n] = h[n]
  OBVIOUS
<1>. HIDE DEF H
<1>. QED BY <1>5, <1>6, TotalAgree

-----------------------------------------------------------------------------
(***************************************************************************)
(* One pod's contribution, and the quantity in the status.                 *)
(***************************************************************************)
AccountingPods == [start : Int, end : Int \cup {None}, gpus : Int]

\* A contribution is never negative: clock skew and empty windows give 0, so
\* nothing cancels real consumption (WindowUsage).
THEOREM UsageNonNegative ==
    ASSUME NEW pod \in AccountingPods, NEW from \in Int, NEW to \in Int
    PROVE  WindowUsage(pod, from, to) \in Nat
BY NoneAssumption
   DEF WindowUsage, AccountingPods, LaterOf, EffectiveEnd, Inverted

\* A pod contributes at most what its GPUs could do in the whole window.
THEOREM UsageBounded ==
    ASSUME NEW pod \in AccountingPods, NEW from \in Int, NEW to \in Int,
           pod.gpus >= 0, from <= to
    PROVE  WindowUsage(pod, from, to) <= pod.gpus * (to - from)
<1> DEFINE effStart == LaterOf(pod.start, from)
           effEnd   == EffectiveEnd(pod, to)
<1>1. /\ pod.gpus \in Nat /\ effStart \in Int /\ effEnd \in Int
      /\ from <= effStart /\ effEnd <= to
      BY NoneAssumption DEF AccountingPods, LaterOf, EffectiveEnd
<1>2. \A g \in Nat : \A x, y \in Nat : x <= y => g * x <= g * y
      OBVIOUS
<1>3. CASE effStart < effEnd
      <2>1. pod.gpus * (effEnd - effStart) <= pod.gpus * (to - from)
            BY <1>1, <1>2, <1>3
      <2>2. 0 <= pod.gpus * (to - from)
            BY <1>1, <1>2
      <2> QED BY <2>1, <2>2 DEF WindowUsage
<1>4. CASE ~(effStart < effEnd)
      BY <1>1, <1>2, <1>4 DEF WindowUsage
<1> QED BY <1>3, <1>4

\* Adjacent windows tile: what a pod contributes to [from, to) is what it
\* contributes before any instant of it and after.  Windows are half-open, so no
\* instant is billed twice or dropped as a window slides.
THEOREM UsageSplits ==
    ASSUME NEW pod \in AccountingPods, NEW from \in Int, NEW mid \in Int, NEW to \in Int,
           from <= mid, mid <= to
    PROVE  WindowUsage(pod, from, to) = WindowUsage(pod, from, mid) + WindowUsage(pod, mid, to)
<1> DEFINE s == LaterOf(pod.start, from)
           m == LaterOf(s, mid)
           e == EffectiveEnd(pod, to)
           d == EffectiveEnd(pod, mid)
           g == pod.gpus
<1>1. s \in Int /\ m \in Int /\ e \in Int /\ d \in Int /\ g \in Int
      BY NoneAssumption DEF AccountingPods, LaterOf, EffectiveEnd
<1>2. LaterOf(pod.start, mid) = m
      BY DEF AccountingPods, LaterOf
<1>3. CASE Inverted(pod) \/ g <= 0
      BY <1>1, <1>3 DEF WindowUsage
<1>4. CASE ~Inverted(pod) /\ g > 0
      <2>1. WindowUsage(pod, from, to) = IF from < to /\ s < e THEN g * (e - s) ELSE 0
            BY <1>4 DEF WindowUsage
      <2>2. WindowUsage(pod, from, mid) = IF from < mid /\ s < d THEN g * (d - s) ELSE 0
            BY <1>4 DEF WindowUsage
      <2>3. WindowUsage(pod, mid, to) = IF mid < to /\ m < e THEN g * (e - m) ELSE 0
            BY <1>2, <1>4 DEF WindowUsage
      <2>4. /\ d <= mid /\ d <= e /\ (d = e \/ d = mid) /\ (m = s \/ m = mid) /\ mid <= m /\ s <= m
            /\ e <= to /\ from <= s
            BY <1>1, NoneAssumption DEF AccountingPods, LaterOf, EffectiveEnd
      <2>5. \A x, y, z \in Int : x * (z - y) + x * (y - y) = x * (z - y)
            OBVIOUS
      <2>6. CASE s < mid /\ mid < e
            <3>1. m = mid /\ d = mid
                  BY <1>1, <2>4, <2>6 DEF LaterOf
            <3>2. g * (e - s) = g * (mid - s) + g * (e - mid)
                  BY <1>1
            <3> QED BY <1>1, <2>1, <2>2, <2>3, <2>4, <2>6, <3>1, <3>2
      <2>7. CASE s < mid /\ ~(mid < e)
            <3>1. d = e /\ ~(m < e)
                  BY <1>1, <2>4, <2>7
            <3> QED BY <1>1, <2>1, <2>2, <2>3, <2>4, <2>7, <3>1
      <2>8. CASE ~(s < mid)
            <3>1. m = s /\ ~(s < d)
                  BY <1>1, <2>4, <2>8 DEF LaterOf
            <3> QED BY <1>1, <2>1, <2>2, <2>3, <2>4, <2>8, <3>1
      <2> QED BY <2>6, <2>7, <2>8
<1> QED BY <1>1, <1>3, <1>4

\* The ticks of the set L that are not before from.
Since(L, from) == {t \in L : t >= from}

\* The ticks of the interval of a pod, cut off at to.
TicksTo(pod, to) == pod.start..(EffectiveEnd(pod, to) - 1)

\* A contribution counts the ticks of the pod's interval in the window, each at
\* the pod's GPUs.
LEMMA UsageCounts ==
    ASSUME NEW pod \in AccountingPods, pod.gpus \in Nat, ~Inverted(pod),
           NEW from \in Int, NEW to \in Int, from < to
    PROVE  LET W == Since(TicksTo(pod, to), from)
           IN  /\ IsFiniteSet(W) /\ Cardinality(W) \in Nat
               /\ WindowUsage(pod, from, to) = pod.gpus * Cardinality(W)
<1>. DEFINE W == Since(TicksTo(pod, to), from)
            a == LaterOf(pod.start, from)
            z == EffectiveEnd(pod, to)
<1>1. a \in Int /\ z \in Int /\ pod.start \in Int
  BY NoneAssumption DEF AccountingPods, LaterOf, EffectiveEnd
<1>2. W = a..(z - 1)
  BY <1>1 DEF LaterOf, Since, TicksTo
<1>3. WindowUsage(pod, from, to) = IF a < z /\ pod.gpus > 0 THEN pod.gpus * (z - a) ELSE 0
  BY DEF WindowUsage
<1>. HIDE DEF W, a, z
<1>4. IsFiniteSet(W) /\ Cardinality(W) = IF a > z - 1 THEN 0 ELSE z - 1 - a + 1
  <2>1. PICK y : y = z - 1
    OBVIOUS
  <2>2. y \in Int
    BY <1>1, <2>1
  <2>3. IsFiniteSet(a..y) /\ Cardinality(a..y) = IF a > y THEN 0 ELSE y - a + 1
    BY <1>1, <2>2, FS_Interval
  <2>. QED BY <1>2, <2>1, <2>3
<1>5. WindowUsage(pod, from, to) = pod.gpus * Cardinality(W) /\ Cardinality(W) \in Nat
  <2>1. CASE a < z
    <3>1. Cardinality(W) = z - a
      BY <1>1, <1>4, <2>1
    <3>. QED BY <1>1, <1>3, <2>1, <3>1
  <2>2. CASE ~(a < z)
    <3>1. Cardinality(W) = 0
      BY <1>1, <1>4, <2>2
    <3>. QED BY <1>3, <2>2, <3>1
  <2>. QED BY <2>1, <2>2
<1>. QED BY <1>4, <1>5 DEF W

\* A stored quantity is a natural number of thousandths within half a thousandth
\* of the amount it stands for (gpuHoursToQuantity).
THEOREM QuantityRounds ==
    ASSUME NEW h \in Nat
    PROVE  LET q == GpuHoursToQuantity(h)
           IN  /\ q \in Nat
               /\ 2 * UnitsPerMilli * q <= 2 * h + UnitsPerMilli
               /\ 2 * h < 2 * UnitsPerMilli * q + UnitsPerMilli
<1> DEFINE n == 2 * h + UnitsPerMilli
           k == 2 * UnitsPerMilli
<1>1. n \in Nat /\ k \in Nat \ {0}
      BY UnitsAssumption
<1>2. GpuHoursToQuantity(h) = n \div k
      BY DEF GpuHoursToQuantity, LaterOf
<1> HIDE DEF n, k
<1>3. /\ n \div k \in Int
      /\ k * (n \div k) <= n
      /\ n < k * (n \div k) + k
      BY <1>1
<1>4. n \div k \in Nat
      BY <1>1, <1>3
<1> DEFINE q == n \div k
<1>5. /\ q \in Nat /\ k * q <= n /\ n < k * q + k
      BY <1>3, <1>4
<1> HIDE DEF q
<1>6. /\ 2 * UnitsPerMilli * q <= 2 * h + UnitsPerMilli
      /\ 2 * h + UnitsPerMilli < 2 * UnitsPerMilli * q + 2 * UnitsPerMilli
      BY <1>5 DEF n, k
<1>7. 2 * h < 2 * UnitsPerMilli * q + UnitsPerMilli
      BY <1>5, <1>6, UnitsAssumption
<1>8. GpuHoursToQuantity(h) = q
      BY <1>2 DEF q
<1> QED BY <1>5, <1>6, <1>7, <1>8

\* An amount that is no GPU-hours at all is stored as zero.
THEOREM QuantityClamps ==
    ASSUME NEW h \in Int, h < 0
    PROVE  GpuHoursToQuantity(h) = 0
<1>1. GpuHoursToQuantity(h) = UnitsPerMilli \div (2 * UnitsPerMilli)
      BY UnitsAssumption DEF GpuHoursToQuantity, LaterOf
<1> QED BY <1>1, UnitsAssumption

-----------------------------------------------------------------------------
(***************************************************************************)
(* What is made of a pod, and of the pods of a budget.                     *)
(***************************************************************************)
\* The request of a pod is the sum over the containers that ask for any.
LEMMA RequestTotal ==
    ASSUME NEW pod, IsFiniteSet(DOMAIN pod.requests)
    PROVE  LET asking == {i \in DOMAIN pod.requests : pod.requests[i] # None}
           IN  GpuRequestTotal(pod) = Total(pod.requests, asking)
<1>. DEFINE asking == {i \in DOMAIN pod.requests : pod.requests[i] # None}
<1>. QED BY DEF GpuRequestTotal, Total

LEMMA RequestNat ==
    ASSUME NEW pod, IsPod(pod)
    PROVE  GpuRequestTotal(pod) \in Nat
<1>. DEFINE asking == {i \in DOMAIN pod.requests : pod.requests[i] # None}
<1>1. IsFiniteSet(asking)
  BY FS_Subset DEF IsPod
<1>2. \A i \in asking : pod.requests[i] \in Nat
  BY DEF IsPod
<1>. HIDE DEF asking
<1>3. Total(pod.requests, asking) \in Nat
  BY <1>1, <1>2, TotalNat
<1>. QED BY <1>3, RequestTotal DEF IsPod, asking

\* The starts and the ends that the statuses of a pod show.
LEMMA StartsAre ==
    ASSUME NEW pod, NEW t
    PROVE  t \in ContainerStarts(pod) <=>
              /\ t # None
              /\ \E i \in DOMAIN pod.statuses :
                    \/ t = pod.statuses[i].running
                    \/ t = pod.statuses[i].termStart
                    \/ t = pod.statuses[i].lastStart
<1>. DEFINE shown(s) == {s.running, s.termStart, s.lastStart}
            all == UNION {shown(s) : s \in {pod.statuses[i] : i \in DOMAIN pod.statuses}}
<1>1. ContainerStarts(pod) = all \ {None}
  BY DEF ContainerStarts
<1>2. t \in all <=> \E i \in DOMAIN pod.statuses : t \in shown(pod.statuses[i])
  <2>. HIDE DEF shown
  <2>1. t \in all <=> \E s \in {pod.statuses[i] : i \in DOMAIN pod.statuses} : t \in shown(s)
    OBVIOUS
  <2>. QED BY <2>1
<1>. HIDE DEF all
<1>. QED BY <1>1, <1>2

LEMMA EndsAre ==
    ASSUME NEW pod, NEW t
    PROVE  t \in ContainerEnds(pod) <=>
              t # None /\ \E i \in DOMAIN pod.statuses : t = pod.statuses[i].termEnd
BY DEF ContainerEnds

\* They are finitely many.
LEMMA StartsFinite ==
    ASSUME NEW pod, IsPod(pod)
    PROVE  /\ ContainerStarts(pod) \in SUBSET Int /\ IsFiniteSet(ContainerStarts(pod))
           /\ ContainerEnds(pod) \in SUBSET Int /\ IsFiniteSet(ContainerEnds(pod))
<1>. DEFINE D == DOMAIN pod.statuses
            runs  == [i \in D |-> pod.statuses[i].running]
            terms == [i \in D |-> pod.statuses[i].termStart]
            lasts == [i \in D |-> pod.statuses[i].lastStart]
            ends  == [i \in D |-> pod.statuses[i].termEnd]
            Im(f) == {f[i] : i \in D}
            all   == (Im(runs) \cup Im(terms)) \cup Im(lasts)
<1>1. IsFiniteSet(D)
  BY DEF IsPod
<1>2. /\ IsFiniteSet(Im(runs)) /\ IsFiniteSet(Im(terms))
      /\ IsFiniteSet(Im(lasts)) /\ IsFiniteSet(Im(ends))
  <2>. HIDE DEF D, runs, terms, lasts, ends
  <2>. QED BY <1>1, FiniteImage
<1>3. IsFiniteSet(all)
  <2>. HIDE DEF Im
  <2>. QED BY <1>2, FS_Union
<1>4. ContainerStarts(pod) = all \ {None}
  BY StartsAre
<1>5. ContainerEnds(pod) = Im(ends) \ {None}
  BY DEF ContainerEnds
<1>6. IsFiniteSet(all \ {None}) /\ IsFiniteSet(Im(ends) \ {None})
  BY <1>2, <1>3, FS_RemoveElement
<1>7. all \ {None} \in SUBSET Int /\ Im(ends) \ {None} \in SUBSET Int
  BY DEF IsPod, IsContainerStatus, Instants
<1>. QED BY <1>4, <1>5, <1>6, <1>7

LEMMA StartIs ==
    ASSUME NEW pod, IsPod(pod)
    PROVE  /\ EarliestContainerStart(pod) \in Instants
           /\ ContainerStarts(pod) # {} =>
                 /\ EarliestContainerStart(pod) \in ContainerStarts(pod)
                 /\ \A t \in ContainerStarts(pod) : EarliestContainerStart(pod) <= t
<1>1. CASE ContainerStarts(pod) = {}
  BY <1>1 DEF EarliestContainerStart, IsPod
<1>2. CASE ContainerStarts(pod) # {}
  <2>1. EarliestContainerStart(pod) = Min(ContainerStarts(pod))
    BY <1>2 DEF EarliestContainerStart
  <2>. QED BY <2>1, <1>2, StartsFinite, MinIs DEF Instants
<1>. QED BY <1>1, <1>2

LEMMA EndIs ==
    ASSUME NEW pod, IsPod(pod)
    PROVE  /\ PodEnd(pod) \in Instants
           /\ Terminal(pod) /\ ContainerEnds(pod) # {} =>
                 /\ PodEnd(pod) \in ContainerEnds(pod)
                 /\ \A t \in ContainerEnds(pod) : PodEnd(pod) >= t
<1>1. CASE ContainerEnds(pod) = {} \/ ~Terminal(pod)
  BY <1>1 DEF PodEnd, IsPod, Instants
<1>2. CASE ContainerEnds(pod) # {} /\ Terminal(pod)
  <2>1. PodEnd(pod) = Max(ContainerEnds(pod))
    BY <1>2 DEF PodEnd
  <2>. QED BY <2>1, <1>2, StartsFinite, MaxIs DEF Instants
<1>. QED BY <1>1, <1>2

\* What podToAccounting hands to the engine is a pod of the engine.
LEMMA Converted ==
    ASSUME NEW pod, IsPod(pod), Accountable(pod)
    PROVE  PodToAccounting(pod) \in AccountingPods /\ PodToAccounting(pod).gpus \in Nat
BY RequestNat, StartIs, EndIs
   DEF PodToAccounting, AccountingPod, AccountingPods, Accountable, Instants

\* The sum of Compute.
LEMMA ComputeIs ==
    ASSUME NEW window, NEW quota, NEW now, NEW pods, IsFiniteSet(DOMAIN pods)
    PROVE  LET from   == WindowStart(window, now)
               usages == [i \in DOMAIN pods |-> WindowUsage(pods[i], from, now)]
               result == Compute(window, quota, now, pods)
           IN  /\ result.consumed = Total(usages, DOMAIN pods)
               /\ result.over = (result.consumed >= quota)
<1>. DEFINE D == DOMAIN pods
            from == WindowStart(window, now)
            usages == [i \in D |-> WindowUsage(pods[i], from, now)]
            Eq(g) == g = [s \in SUBSET D |->
                            IF s = {} THEN 0
                            ELSE WindowUsage(pods[Pick(s)], from, now) + g[s \ {Pick(s)}]]
            result == Compute(window, quota, now, pods)
<1>1. result.consumed = (CHOOSE g : Eq(g))[D]
  BY DEF Compute, MapThenSumSet, MapThenFoldSet, Pick
<1>2. \A s \in SUBSET D : s # {} => WindowUsage(pods[Pick(s)], from, now) = usages[Pick(s)]
  BY PickIn
<1>3. ASSUME NEW g PROVE Eq(g) <=> SumEq(g, usages, D)
  BY <1>2 DEF SumEq
<1>4. PICK h : SumEq(h, usages, D)
  BY SumExists
<1>. HIDE DEF Eq, usages
<1>5. Eq(CHOOSE g : Eq(g))
  BY <1>3, <1>4
<1>6. PICK k : SumEq(k, usages, D) /\ Total(usages, D) = k[D]
  BY TotalIs
<1>7. (CHOOSE g : Eq(g))[D] = k[D]
  BY <1>3, <1>5, <1>6, SumUnique
<1>8. result.over = (result.consumed >= quota)
  BY DEF Compute
<1>. QED BY <1>1, <1>6, <1>7, <1>8 DEF usages


\* Whatever pods a budget lists, if any of them may be enforced on then one of
\* these is chosen, and it has used more than every other, or as much and comes
\* first by name (pickWorstOffender).
THEOREM WorstIsChosen ==
    ASSUME NEW listing, IsFiniteSet(DOMAIN listing), DOMAIN listing \in SUBSET Nat,
           \A n \in DOMAIN listing : IsPod(listing[n]),
           NEW from \in Int, NEW now \in Int,
           Offenders(listing, from, now) # {}
    PROVE  LET usage(n) == WindowUsage(PodToAccounting(listing[n]), from, now)
               worst    == WorstOffender(listing, from, now)
           IN  /\ worst \in Offenders(listing, from, now)
               /\ \A m \in Offenders(listing, from, now) \ {worst} :
                     usage(worst) > usage(m) \/ (usage(worst) = usage(m) /\ worst < m)
<1>. DEFINE usage(n) == WindowUsage(PodToAccounting(listing[n]), from, now)
            worse(n, m) == usage(n) > usage(m) \/ (usage(n) = usage(m) /\ n < m)
            offenders == Offenders(listing, from, now)
            Has(s) == \E n \in s : \A m \in s \ {n} : worse(n, m)
            F == {s \in SUBSET offenders : s = {} \/ Has(s)}
<1>1. \A n \in offenders : usage(n) \in Nat
  BY Converted, UsageNonNegative DEF Offenders
<1>2. offenders \in SUBSET Nat /\ IsFiniteSet(offenders)
  BY FS_Subset DEF Offenders
<1>3. WorstOffender(listing, from, now) =
        CHOOSE n \in offenders : \A m \in offenders \ {n} : worse(n, m)
  BY DEF WorstOffender
<1>. HIDE DEF offenders, usage
<1>4. ASSUME NEW s \in F, NEW z \in offenders PROVE s \cup {z} \in F
  <2>1. CASE s = {}
    BY <2>1
  <2>2. CASE z \in s
    <3>1. s \cup {z} = s
      BY <2>2
    <3>. QED BY <3>1
  <2>3. CASE s # {} /\ z \notin s
    <3>1. PICK n \in s : \A m \in s \ {n} : worse(n, m)
      BY <2>3
    <3>2. n \in Nat /\ z \in Nat /\ n # z /\ usage(n) \in Nat /\ usage(z) \in Nat
      BY <1>1, <1>2, <2>3
    <3>3. CASE worse(n, z)
      <4>1. \A m \in (s \cup {z}) \ {n} : worse(n, m)
        BY <3>1, <3>3
      <4>. QED BY <4>1
    <3>4. CASE worse(z, n)
      <4>1. ASSUME NEW m \in (s \cup {z}) \ {z}, m # n PROVE worse(z, m)
        <5>1. worse(n, m)
          BY <3>1, <4>1
        <5>2. m \in Nat /\ usage(m) \in Nat
          BY <1>1, <1>2, <4>1
        <5>. QED BY <3>2, <3>4, <5>1, <5>2
      <4>2. \A m \in (s \cup {z}) \ {z} : worse(z, m)
        BY <3>4, <4>1
      <4>. QED BY <4>2
    <3>5. worse(n, z) \/ worse(z, n)
      BY <3>2
    <3>. QED BY <3>3, <3>4, <3>5
  <2>. QED BY <2>1, <2>2, <2>3
<1>5. {} \in F
  OBVIOUS
<1>. HIDE DEF Has, F
<1>6. offenders \in F
  BY <1>2, <1>4, <1>5, FiniteInduction
<1>7. \E n \in offenders : \A m \in offenders \ {n} : worse(n, m)
  BY <1>6 DEF F, Has, offenders
<1>. HIDE DEF worse
<1>8. LET worst == CHOOSE n \in offenders : \A m \in offenders \ {n} : worse(n, m)
      IN  worst \in offenders /\ \A m \in offenders \ {worst} : worse(worst, m)
  BY <1>7
<1>. QED BY <1>3, <1>8 DEF worse, usage, offenders

=============================================================================
