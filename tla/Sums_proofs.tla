----------------------------- MODULE Sums_proofs -----------------------------
(***************************************************************************)
(* Facts about SumFunctionOnSet, the sum of a function over a finite set,  *)
(* that the proofs about money need: the sum of nothing, of one element    *)
(* more or less, of two functions that agree, of a function changed at one *)
(* place.                                                                  *)
(*                                                                         *)
(* The sum folds an arbitrary choice of the next element.  The library     *)
(* defines it by recursion on the set, and what holds for every finite set *)
(* is shown by induction over its subsets: proper inclusion between finite *)
(* sets is well founded.                                                   *)
(***************************************************************************)
EXTENDS Functions, Integers, FiniteSets, FiniteSetTheorems,
        WellFoundedInduction, TLAPS

\* Induction over the subsets of a finite set: P is a set that has each subset
\* all of whose proper subsets it has.
LEMMA SubsetInduction ==
  ASSUME NEW S, IsFiniteSet(S), NEW P,
         \A s \in SUBSET S : (\A t \in SUBSET s : t # s => t \in P) => s \in P
  PROVE  \A s \in SUBSET S : s \in P
<1> DEFINE T == (SUBSET S) \ P
<1> SUFFICES ASSUME T # {} PROVE FALSE
  OBVIOUS
<1>1. T \subseteq FiniteSubsetsOf(S)
  BY FS_Subset DEF FiniteSubsetsOf
<1>2. \E s \in T : \A t \in T : <<t, s>> \notin StrictSubsetOrdering(S)
  <2> HIDE DEF T
  <2> QED
    BY <1>1, FS_StrictSubsetOrderingWellFounded, WFMin
<1>3. PICK s \in T : \A t \in T : <<t, s>> \notin StrictSubsetOrdering(S)
  BY <1>2
<1>4. \A t \in SUBSET s : t # s => t \notin T
  BY <1>1, <1>3 DEF StrictSubsetOrdering, FiniteSubsetsOf
<1> QED
  BY <1>4

\* The element the sum takes next, and the recursion the sum is.
Chosen(s) == CHOOSE x \in s : TRUE

Folds(g, w, S) ==
  g = [s \in SUBSET S |-> IF s = {} THEN 0 ELSE w[Chosen(s)] + g[s \ {Chosen(s)}]]

LEMMA ChosenElement == ASSUME NEW s, s # {} PROVE Chosen(s) \in s
BY DEF Chosen

LEMMA SumUnfold ==
  ASSUME NEW w, NEW S
  PROVE  SumFunctionOnSet(w, S) = (CHOOSE g : Folds(g, w, S))[S]
BY DEF SumFunctionOnSet, FoldFunctionOnSet, MapThenFoldSet, Folds, Chosen

LEMMA FoldsAt ==
  ASSUME NEW g, NEW w, NEW S, Folds(g, w, S), NEW s \in SUBSET S
  PROVE  g[s] = IF s = {} THEN 0 ELSE w[Chosen(s)] + g[s \ {Chosen(s)}]
BY DEF Folds

\* Two solutions of the recursion agree where both are defined.
LEMMA FoldsUnique ==
  ASSUME NEW w, NEW R, NEW S, IsFiniteSet(R), R \subseteq S,
         NEW g, NEW h, Folds(g, w, S), Folds(h, w, R)
  PROVE  g[R] = h[R]
<1> DEFINE P == {s \in SUBSET R : g[s] = h[s]}
<1>1. ASSUME NEW s \in SUBSET R, \A t \in SUBSET s : t # s => t \in P
      PROVE  s \in P
  <2>1. g[s] = IF s = {} THEN 0 ELSE w[Chosen(s)] + g[s \ {Chosen(s)}]
    BY FoldsAt
  <2>2. h[s] = IF s = {} THEN 0 ELSE w[Chosen(s)] + h[s \ {Chosen(s)}]
    BY FoldsAt
  <2>3. CASE s = {}
    BY <2>1, <2>2, <2>3
  <2>4. CASE s # {}
    <3>1. s \ {Chosen(s)} \in P
      BY <1>1, <2>4, ChosenElement
    <3> QED
      BY <2>1, <2>2, <2>4, <3>1
  <2> QED
    BY <2>3, <2>4
<1>2. R \in P
  <2> HIDE DEF P
  <2> QED
    BY <1>1, SubsetInduction
<1> QED
  BY <1>2

\* The recursion has a solution on every finite set.
LEMMA FoldsExists ==
  ASSUME NEW w, NEW S, IsFiniteSet(S)
  PROVE  \E g : Folds(g, w, S)
<1> DEFINE P == {s \in SUBSET S : \E g : Folds(g, w, s)}
           V(t) == (CHOOSE g : Folds(g, w, t))[t]
           U(t) == IF t = {} THEN 0 ELSE w[Chosen(t)] + V(t \ {Chosen(t)})
<1>1. ASSUME NEW s \in SUBSET S, \A t \in SUBSET s : t # s => t \in P
      PROVE  s \in P
  <2> DEFINE G == [t \in SUBSET s |-> IF t = s THEN U(s) ELSE V(t)]
  <2>1. ASSUME NEW t \in SUBSET s, t # s
        PROVE  Folds(CHOOSE g : Folds(g, w, t), w, t)
    <3>1. \E g : Folds(g, w, t)
      BY <1>1, <2>1
    <3> QED
      BY <3>1
  <2>2. ASSUME NEW t \in SUBSET s, t # s, t # {}
        PROVE  V(t) = U(t)
    <3> DEFINE r == t \ {Chosen(t)}
               gt == CHOOSE g : Folds(g, w, t)
               gr == CHOOSE g : Folds(g, w, r)
    <3>1. r \subseteq t /\ r \in SUBSET s /\ r # s
      BY <2>2
    <3>2. Folds(gt, w, t) /\ Folds(gr, w, r)
      BY <2>1, <2>2, <3>1
    <3>3. IsFiniteSet(r)
      BY <3>1, FS_Subset
    <3> HIDE DEF gt, gr, r
    <3>4. gt[r] = gr[r]
      BY <3>1, <3>2, <3>3, FoldsUnique
    <3>5. gt[t] = w[Chosen(t)] + gt[r]
      BY <3>2, <2>2, FoldsAt DEF r
    <3>6. gt[t] = w[Chosen(t)] + gr[r]
      BY <3>4, <3>5
    <3> QED
      BY <3>6, <2>2 DEF gt, gr, r
  <2>3. ASSUME {} # s
        PROVE  V({}) = 0
    <3> DEFINE g0 == CHOOSE g : Folds(g, w, {})
    <3>1. Folds(g0, w, {})
      BY <2>1, <2>3
    <3> HIDE DEF g0
    <3>2. g0[{}] = 0
      BY <3>1, FoldsAt
    <3> QED
      BY <3>2 DEF g0
  <2>4. ASSUME NEW t \in SUBSET s
        PROVE  G[t] = IF t = {} THEN 0 ELSE w[Chosen(t)] + G[t \ {Chosen(t)}]
    <3> HIDE DEF V
    <3>1. G[t] = U(t)
      <4>1. CASE t = s
        BY <4>1
      <4>2. CASE t # s /\ t = {}
        BY <4>2, <2>3
      <4>3. CASE t # s /\ t # {}
        BY <4>3, <2>2
      <4> QED
        BY <4>1, <4>2, <4>3
    <3>2. CASE t = {}
      BY <3>1, <3>2
    <3>3. CASE t # {}
      <4>1. t \ {Chosen(t)} \in SUBSET s /\ t \ {Chosen(t)} # s
        BY <3>3, ChosenElement
      <4>2. G[t \ {Chosen(t)}] = V(t \ {Chosen(t)})
        BY <4>1
      <4> QED
        BY <3>1, <3>3, <4>2
    <3> QED
      BY <3>2, <3>3
  <2> HIDE DEF V, U
  <2>5. Folds(G, w, s)
    BY <2>4 DEF Folds
  <2> QED
    BY <2>5
<1>2. S \in P
  <2> HIDE DEF P
  <2> QED
    BY <1>1, SubsetInduction
<1> QED
  BY <1>2

-----------------------------------------------------------------------------
LEMMA SumEmpty == ASSUME NEW w PROVE SumFunctionOnSet(w, {}) = 0
<1> DEFINE g0 == CHOOSE g : Folds(g, w, {})
<1>1. Folds(g0, w, {})
  BY FoldsExists, FS_EmptySet
<1> HIDE DEF g0
<1>2. g0[{}] = 0
  BY <1>1, FoldsAt
<1> QED
  BY <1>2, SumUnfold DEF g0

LEMMA SumNext ==
  ASSUME NEW w, NEW S, IsFiniteSet(S), S # {}
  PROVE  SumFunctionOnSet(w, S)
           = w[Chosen(S)] + SumFunctionOnSet(w, S \ {Chosen(S)})
<1> DEFINE R == S \ {Chosen(S)}
           g == CHOOSE f : Folds(f, w, S)
           h == CHOOSE f : Folds(f, w, R)
<1>1. IsFiniteSet(R)
  BY FS_Subset
<1>2. Folds(g, w, S)
  BY FoldsExists
<1>3. Folds(h, w, R)
  BY <1>1, FoldsExists
<1>4. SumFunctionOnSet(w, S) = g[S] /\ SumFunctionOnSet(w, R) = h[R]
  BY SumUnfold
<1>5. R \subseteq S
  OBVIOUS
<1> HIDE DEF g, h, R
<1>6. g[R] = h[R]
  BY <1>1, <1>2, <1>3, <1>5, FoldsUnique
<1>7. g[S] = w[Chosen(S)] + g[R]
  BY <1>2, FoldsAt DEF R
<1> QED
  BY <1>4, <1>6, <1>7 DEF R

\* A sum of integers is an integer, of naturals a natural.
LEMMA SumInt ==
  ASSUME NEW w, NEW S, IsFiniteSet(S), \A x \in S : w[x] \in Int
  PROVE  SumFunctionOnSet(w, S) \in Int
<1> DEFINE P == {s \in SUBSET S : SumFunctionOnSet(w, s) \in Int}
<1>1. ASSUME NEW s \in SUBSET S, \A t \in SUBSET s : t # s => t \in P
      PROVE  s \in P
  <2>1. CASE s = {}
    BY <2>1, SumEmpty
  <2>2. CASE s # {}
    <3> DEFINE n == Chosen(s)
               r == s \ {n}
    <3>1. n \in s /\ r \in P /\ IsFiniteSet(s)
      BY <1>1, <2>2, ChosenElement, FS_Subset
    <3>2. SumFunctionOnSet(w, s) = w[n] + SumFunctionOnSet(w, r)
      BY <2>2, <3>1, SumNext
    <3> QED
      BY <3>1, <3>2
  <2> QED
    BY <2>1, <2>2
<1>2. S \in P
  <2> HIDE DEF P
  <2> QED
    BY <1>1, SubsetInduction
<1> QED
  BY <1>2

LEMMA SumNat ==
  ASSUME NEW w, NEW S, IsFiniteSet(S), \A x \in S : w[x] \in Nat
  PROVE  SumFunctionOnSet(w, S) \in Nat
<1> DEFINE P == {s \in SUBSET S : SumFunctionOnSet(w, s) \in Nat}
<1>1. ASSUME NEW s \in SUBSET S, \A t \in SUBSET s : t # s => t \in P
      PROVE  s \in P
  <2>1. CASE s = {}
    BY <2>1, SumEmpty
  <2>2. CASE s # {}
    <3> DEFINE n == Chosen(s)
               r == s \ {n}
    <3>1. n \in s /\ r \in P /\ IsFiniteSet(s)
      BY <1>1, <2>2, ChosenElement, FS_Subset
    <3>2. SumFunctionOnSet(w, s) = w[n] + SumFunctionOnSet(w, r)
      BY <2>2, <3>1, SumNext
    <3> QED
      BY <3>1, <3>2
  <2> QED
    BY <2>1, <2>2
<1>2. S \in P
  <2> HIDE DEF P
  <2> QED
    BY <1>1, SubsetInduction
<1> QED
  BY <1>2

\* A sum of zeros is zero.
LEMMA SumZero ==
  ASSUME NEW w, NEW S, IsFiniteSet(S), \A x \in S : w[x] = 0
  PROVE  SumFunctionOnSet(w, S) = 0
<1> DEFINE P == {s \in SUBSET S : SumFunctionOnSet(w, s) = 0}
<1>1. ASSUME NEW s \in SUBSET S, \A t \in SUBSET s : t # s => t \in P
      PROVE  s \in P
  <2>1. CASE s = {}
    BY <2>1, SumEmpty
  <2>2. CASE s # {}
    <3> DEFINE n == Chosen(s)
               r == s \ {n}
    <3>1. n \in s /\ r \in P /\ IsFiniteSet(s)
      BY <1>1, <2>2, ChosenElement, FS_Subset
    <3>2. SumFunctionOnSet(w, s) = w[n] + SumFunctionOnSet(w, r)
      BY <2>2, <3>1, SumNext
    <3> QED
      BY <3>1, <3>2
  <2> QED
    BY <2>1, <2>2
<1>2. S \in P
  <2> HIDE DEF P
  <2> QED
    BY <1>1, SubsetInduction
<1> QED
  BY <1>2

\* Only the values on the set matter.
LEMMA SumEqual ==
  ASSUME NEW w, NEW v, NEW S, IsFiniteSet(S), \A x \in S : w[x] = v[x]
  PROVE  SumFunctionOnSet(w, S) = SumFunctionOnSet(v, S)
<1> DEFINE P == {s \in SUBSET S : SumFunctionOnSet(w, s) = SumFunctionOnSet(v, s)}
<1>1. ASSUME NEW s \in SUBSET S, \A t \in SUBSET s : t # s => t \in P
      PROVE  s \in P
  <2>1. CASE s = {}
    BY <2>1, SumEmpty
  <2>2. CASE s # {}
    <3> DEFINE n == Chosen(s)
               r == s \ {n}
    <3>1. n \in s /\ r \in P /\ IsFiniteSet(s)
      BY <1>1, <2>2, ChosenElement, FS_Subset
    <3>2. /\ SumFunctionOnSet(w, s) = w[n] + SumFunctionOnSet(w, r)
          /\ SumFunctionOnSet(v, s) = v[n] + SumFunctionOnSet(v, r)
      BY <2>2, <3>1, SumNext
    <3> QED
      BY <3>1, <3>2
  <2> QED
    BY <2>1, <2>2
<1>2. S \in P
  <2> HIDE DEF P
  <2> QED
    BY <1>1, SubsetInduction
<1> QED
  BY <1>2

\* Sums are added element by element.
LEMMA SumPlus ==
  ASSUME NEW w, NEW v, NEW u, NEW S, IsFiniteSet(S),
         \A x \in S : w[x] \in Int /\ v[x] \in Int /\ u[x] = w[x] + v[x]
  PROVE  SumFunctionOnSet(u, S) = SumFunctionOnSet(w, S) + SumFunctionOnSet(v, S)
<1> DEFINE P == {s \in SUBSET S : SumFunctionOnSet(u, s)
                                   = SumFunctionOnSet(w, s) + SumFunctionOnSet(v, s)}
<1>1. ASSUME NEW s \in SUBSET S, \A t \in SUBSET s : t # s => t \in P
      PROVE  s \in P
  <2>1. CASE s = {}
    BY <2>1, SumEmpty
  <2>2. CASE s # {}
    <3> DEFINE n == Chosen(s)
               r == s \ {n}
    <3>1. n \in s /\ r \in P /\ IsFiniteSet(s)
      BY <1>1, <2>2, ChosenElement, FS_Subset
    <3>2. /\ SumFunctionOnSet(w, s) = w[n] + SumFunctionOnSet(w, r)
          /\ SumFunctionOnSet(v, s) = v[n] + SumFunctionOnSet(v, r)
          /\ SumFunctionOnSet(u, s) = u[n] + SumFunctionOnSet(u, r)
      BY <2>2, <3>1, SumNext
    <3>3. IsFiniteSet(r) /\ r \subseteq S
      BY <3>1, FS_Subset
    <3>4. SumFunctionOnSet(w, r) \in Int /\ SumFunctionOnSet(v, r) \in Int
      BY <3>3, SumInt
    <3>5. SumFunctionOnSet(u, r) = SumFunctionOnSet(w, r) + SumFunctionOnSet(v, r)
      BY <3>1
    <3>6. n \in S
      BY <3>1
    <3> HIDE DEF r, n, P
    <3>7. SumFunctionOnSet(u, s) = SumFunctionOnSet(w, s) + SumFunctionOnSet(v, s)
      BY <3>2, <3>4, <3>5, <3>6
    <3> QED
      BY <3>7 DEF P
  <2> QED
    BY <2>1, <2>2
<1>2. S \in P
  <2> HIDE DEF P
  <2> QED
    BY <1>1, SubsetInduction
<1> QED
  BY <1>2

\* Any element may be taken first.
LEMMA SumRemove ==
  ASSUME NEW w, NEW S, IsFiniteSet(S), \A y \in S : w[y] \in Int, NEW x \in S
  PROVE  SumFunctionOnSet(w, S) = w[x] + SumFunctionOnSet(w, S \ {x})
<1> DEFINE Sm(s) == SumFunctionOnSet(w, s)
           P == {s \in SUBSET S : \A y \in s : Sm(s) = w[y] + Sm(s \ {y})}
<1>1. ASSUME NEW s \in SUBSET S, \A t \in SUBSET s : t # s => t \in P
      PROVE  s \in P
  <2> SUFFICES ASSUME NEW y \in s PROVE Sm(s) = w[y] + Sm(s \ {y})
    OBVIOUS
  <2> DEFINE n == Chosen(s)
             r == s \ {y, n}
  <2>1. n \in s /\ IsFiniteSet(s)
    BY ChosenElement, FS_Subset
  <2>2. Sm(s) = w[n] + Sm(s \ {n})
    BY <2>1, SumNext
  <2>3. CASE n = y
    BY <2>2, <2>3
  <2>4. CASE n # y
    <3>1. s \ {n} \in P /\ s \ {y} \in P
      BY <1>1, <2>1
    <3> HIDE DEF Sm
    <3>2. Sm(s \ {n}) = w[y] + Sm((s \ {n}) \ {y})
      BY <2>4, <3>1
    <3>3. Sm(s \ {y}) = w[n] + Sm((s \ {y}) \ {n})
      BY <2>1, <2>4, <3>1
    <3>4. (s \ {n}) \ {y} = r /\ (s \ {y}) \ {n} = r
      OBVIOUS
    <3>5. Sm(r) \in Int
      <4>1. r \subseteq S /\ IsFiniteSet(r)
        BY FS_Subset
      <4> QED
        BY <4>1, SumInt DEF Sm
    <3>6. w[y] \in Int /\ w[n] \in Int
      BY <2>1
    <3>7. Sm(s) = w[n] + (w[y] + Sm(r)) /\ Sm(s \ {y}) = w[n] + Sm(r)
      BY <2>2, <3>2, <3>3, <3>4
    <3> HIDE DEF n, r, P
    <3> QED
      BY <3>5, <3>6, <3>7
  <2> QED
    BY <2>3, <2>4
<1>2. S \in P
  <2> HIDE DEF P
  <2> QED
    BY <1>1, SubsetInduction
<1> QED
  BY <1>2

\* An element is added.
LEMMA SumAdd ==
  ASSUME NEW w, NEW S, IsFiniteSet(S), NEW x, x \notin S,
         \A y \in S \union {x} : w[y] \in Int
  PROVE  SumFunctionOnSet(w, S \union {x}) = w[x] + SumFunctionOnSet(w, S)
<1>1. IsFiniteSet(S \union {x})
  BY FS_AddElement
<1>2. (S \union {x}) \ {x} = S
  OBVIOUS
<1> QED
  BY <1>1, <1>2, SumRemove

\* The function changes at one element of the set.
LEMMA SumUpdate ==
  ASSUME NEW w, NEW v, NEW S, IsFiniteSet(S), NEW x \in S,
         \A y \in S : w[y] \in Int /\ v[y] \in Int,
         \A y \in S \ {x} : v[y] = w[y]
  PROVE  SumFunctionOnSet(v, S) = SumFunctionOnSet(w, S) - w[x] + v[x]
<1>1. IsFiniteSet(S \ {x})
  BY FS_Subset
<1>2. SumFunctionOnSet(v, S \ {x}) = SumFunctionOnSet(w, S \ {x})
  BY <1>1, SumEqual
<1>3. SumFunctionOnSet(w, S \ {x}) \in Int
  BY <1>1, SumInt
<1> QED
  BY <1>2, <1>3, SumRemove

\* The sum over two sets that share nothing.
LEMMA SumUnion ==
  ASSUME NEW w, NEW A, NEW B, IsFiniteSet(A), IsFiniteSet(B),
         A \intersect B = {}, \A x \in A \union B : w[x] \in Int
  PROVE  SumFunctionOnSet(w, A \union B)
           = SumFunctionOnSet(w, A) + SumFunctionOnSet(w, B)
<1> DEFINE Sm(s) == SumFunctionOnSet(w, s)
           P == {s \in SUBSET B : Sm(A \union s) = Sm(A) + Sm(s)}
<1>0. Sm(A) \in Int
  BY SumInt
<1>1. ASSUME NEW s \in SUBSET B, \A t \in SUBSET s : t # s => t \in P
      PROVE  s \in P
  <2>1. CASE s = {}
    <3>1. Sm(s) = 0
      BY <2>1, SumEmpty
    <3>2. Sm(A \union s) = Sm(A)
      <4>1. A \union s = A
        BY <2>1
      <4> QED
        BY <4>1
    <3> HIDE DEF Sm
    <3>3. Sm(A \union s) = Sm(A) + Sm(s)
      BY <1>0, <3>1, <3>2
    <3> QED
      BY <3>3
  <2>2. CASE s # {}
    <3> DEFINE n == Chosen(s)
               r == s \ {n}
    <3>1. n \in s /\ r \in P /\ IsFiniteSet(s)
      BY <1>1, <2>2, ChosenElement, FS_Subset
    <3>2. IsFiniteSet(r) /\ n \notin r /\ r \union {n} = s
      BY <3>1, FS_Subset
    <3>3. Sm(s) = w[n] + Sm(r)
      BY <3>1, <3>2, SumAdd
    <3>4. IsFiniteSet(A \union r) /\ n \notin A \union r
      BY <3>1, <3>2, FS_Union
    <3>5. (A \union r) \union {n} = A \union s
      BY <3>2
    <3>6. Sm(A \union s) = w[n] + Sm(A \union r)
      BY <3>1, <3>2, <3>4, <3>5, SumAdd
    <3>7. w[n] \in Int /\ Sm(r) \in Int
      BY <3>1, <3>2, SumInt
    <3>8. Sm(A \union r) = Sm(A) + Sm(r)
      BY <3>1
    <3> HIDE DEF Sm, n, r, P
    <3>9. Sm(A \union s) = Sm(A) + Sm(s)
      BY <1>0, <3>3, <3>6, <3>7, <3>8
    <3> QED
      BY <3>9 DEF P
  <2> QED
    BY <2>1, <2>2
<1>2. B \in P
  <2> HIDE DEF P
  <2> QED
    BY <1>1, SubsetInduction
<1> QED
  BY <1>2

\* What is zero does not count.
LEMMA SumSupport ==
  ASSUME NEW w, NEW S, NEW T, IsFiniteSet(S), T \subseteq S,
         \A x \in T : w[x] \in Int, \A x \in S \ T : w[x] = 0
  PROVE  SumFunctionOnSet(w, S) = SumFunctionOnSet(w, T)
<1>1. IsFiniteSet(T) /\ IsFiniteSet(S \ T)
  BY FS_Subset
<1>2. SumFunctionOnSet(w, S \ T) = 0 /\ SumFunctionOnSet(w, T) \in Int
  BY <1>1, SumZero, SumInt
<1>3. T \union (S \ T) = S /\ T \intersect (S \ T) = {}
  OBVIOUS
<1>4. \A x \in T \union (S \ T) : w[x] \in Int
  OBVIOUS
<1>5. SumFunctionOnSet(w, T \union (S \ T))
        = SumFunctionOnSet(w, T) + SumFunctionOnSet(w, S \ T)
  BY <1>1, <1>3, <1>4, SumUnion
<1>6. SumFunctionOnSet(w, S)
        = SumFunctionOnSet(w, T) + SumFunctionOnSet(w, S \ T)
  BY <1>3, <1>5
<1> QED
  BY <1>2, <1>6

\* A single element.
LEMMA SumSingle ==
  ASSUME NEW w, NEW S, IsFiniteSet(S), NEW x \in S, w[x] \in Int,
         \A y \in S \ {x} : w[y] = 0
  PROVE  SumFunctionOnSet(w, S) = w[x]
<1>1. SumFunctionOnSet(w, S \ {x}) = 0
  BY FS_Subset, SumZero
<1>2. \A y \in S : w[y] \in Int
  OBVIOUS
<1> QED
  BY <1>1, <1>2, SumRemove

\* Negative amounts.
LEMMA SumMinus ==
  ASSUME NEW w, NEW v, NEW S, IsFiniteSet(S),
         \A x \in S : w[x] \in Int /\ v[x] = -w[x]
  PROVE  SumFunctionOnSet(v, S) = -SumFunctionOnSet(w, S)
<1> DEFINE z == [x \in S |-> 0]
<1>1. SumFunctionOnSet(z, S) = 0
  BY SumZero
<1>2. \A x \in S : w[x] \in Int /\ v[x] \in Int /\ z[x] = w[x] + v[x]
  OBVIOUS
<1>3. SumFunctionOnSet(w, S) \in Int /\ SumFunctionOnSet(v, S) \in Int
  BY <1>2, SumInt
<1> HIDE DEF z
<1>4. SumFunctionOnSet(z, S) = SumFunctionOnSet(w, S) + SumFunctionOnSet(v, S)
  BY <1>2, SumPlus
<1> QED
  BY <1>1, <1>3, <1>4

\* A sum of smaller amounts is smaller.
LEMMA SumLeq ==
  ASSUME NEW w, NEW v, NEW S, IsFiniteSet(S),
         \A x \in S : w[x] \in Int /\ v[x] \in Int /\ w[x] =< v[x]
  PROVE  SumFunctionOnSet(w, S) =< SumFunctionOnSet(v, S)
<1> DEFINE d == [x \in S |-> v[x] - w[x]]
<1>1. \A x \in S : d[x] \in Nat /\ v[x] = w[x] + d[x]
  OBVIOUS
<1> HIDE DEF d
<1>2. SumFunctionOnSet(d, S) \in Nat
  BY <1>1, SumNat
<1>3. SumFunctionOnSet(v, S) = SumFunctionOnSet(w, S) + SumFunctionOnSet(d, S)
  BY <1>1, SumPlus
<1>4. SumFunctionOnSet(w, S) \in Int
  BY SumInt
<1> QED
  BY <1>2, <1>3, <1>4

\* A common factor.
LEMMA SumTimes ==
  ASSUME NEW w, NEW v, NEW n \in Int, NEW S, IsFiniteSet(S),
         \A x \in S : w[x] \in Int /\ v[x] = n * w[x]
  PROVE  SumFunctionOnSet(v, S) = n * SumFunctionOnSet(w, S)
<1> DEFINE W(s) == SumFunctionOnSet(w, s)
           V(s) == SumFunctionOnSet(v, s)
           P == {s \in SUBSET S : V(s) = n * W(s)}
<1>1. ASSUME NEW s \in SUBSET S, \A t \in SUBSET s : t # s => t \in P
      PROVE  s \in P
  <2>1. CASE s = {}
    <3>1. V(s) = 0 /\ W(s) = 0
      BY <2>1, SumEmpty
    <3> HIDE DEF V, W
    <3> QED
      BY <3>1
  <2>2. CASE s # {}
    <3> DEFINE c == Chosen(s)
               r == s \ {c}
    <3>1. c \in s /\ r \in P /\ IsFiniteSet(s)
      BY <1>1, <2>2, ChosenElement, FS_Subset
    <3>2. V(s) = v[c] + V(r) /\ W(s) = w[c] + W(r)
      BY <2>2, <3>1, SumNext
    <3>3. W(r) \in Int
      BY <3>1, FS_Subset, SumInt
    <3>4. w[c] \in Int /\ v[c] = n * w[c] /\ V(r) = n * W(r)
      BY <3>1
    <3>5. V(s) = n * w[c] + n * W(r)
      <4> HIDE DEF V, W, c, r, P
      <4> QED
        BY <3>2, <3>4
    <3>6. n * (w[c] + W(r)) = n * w[c] + n * W(r)
      <4> HIDE DEF V, W, c, r, P
      <4> QED
        BY <3>3, <3>4
    <3> HIDE DEF V, W, c, r, P
    <3>7. V(s) = n * W(s)
      BY <3>2, <3>5, <3>6
    <3> QED
      BY <3>7 DEF P
  <2> QED
    BY <2>1, <2>2
<1>2. S \in P
  <2> HIDE DEF P
  <2> QED
    BY <1>1, SubsetInduction
<1> QED
  BY <1>2

\* Ones are counted.
LEMMA SumOnes ==
  ASSUME NEW w, NEW S, IsFiniteSet(S), \A x \in S : w[x] = 1
  PROVE  SumFunctionOnSet(w, S) = Cardinality(S)
<1> DEFINE P == {s \in SUBSET S : SumFunctionOnSet(w, s) = Cardinality(s)}
<1>1. ASSUME NEW s \in SUBSET S, \A t \in SUBSET s : t # s => t \in P
      PROVE  s \in P
  <2>1. CASE s = {}
    BY <2>1, SumEmpty, FS_EmptySet
  <2>2. CASE s # {}
    <3> DEFINE c == Chosen(s)
               r == s \ {c}
    <3>1. c \in s /\ r \in P /\ IsFiniteSet(s)
      BY <1>1, <2>2, ChosenElement, FS_Subset
    <3>2. SumFunctionOnSet(w, s) = w[c] + SumFunctionOnSet(w, r)
      BY <2>2, <3>1, SumNext
    <3>3. Cardinality(r) = Cardinality(s) - 1 /\ Cardinality(s) \in Nat
      BY <3>1, FS_RemoveElement, FS_CardinalityType
    <3>4. w[c] = 1 /\ SumFunctionOnSet(w, r) = Cardinality(r)
      BY <3>1
    <3> HIDE DEF c, r, P
    <3>5. SumFunctionOnSet(w, s) = Cardinality(s)
      BY <3>2, <3>3, <3>4
    <3> QED
      BY <3>5 DEF P
  <2> QED
    BY <2>1, <2>2
<1>2. S \in P
  <2> HIDE DEF P
  <2> QED
    BY <1>1, SubsetInduction
<1> QED
  BY <1>2

=============================================================================
