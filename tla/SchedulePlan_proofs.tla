------------------------- MODULE SchedulePlan_proofs -------------------------
(***************************************************************************)
(* What a plan contains, for every request, and the sums and folds that it *)
(* is made of (SumFunctionOnSet and MapThenFoldSet of the community        *)
(* modules), for sets of any size.  Where a fact is about all finite sets, *)
(* its proof picks a smallest set for which it would fail.                 *)
(***************************************************************************)
EXTENDS SchedulePlan, FiniteSetTheorems, WellFoundedInduction, TLAPS

(***************************************************************************)
(* Sums                                                                    *)
(***************************************************************************)
Chosen(S) == CHOOSE x \in S : TRUE

\* g gives the sum of f over each subset of S.
AddsUp(g, f, S) ==
    g = [s \in SUBSET S |-> IF s = {} THEN 0 ELSE f[Chosen(s)] + g[s \ {Chosen(s)}]]

\* The sum is what the fold of the community modules computes.
LEMMA SumIsFold ==
    ASSUME NEW f, NEW S
    PROVE  SumFunctionOnSet(f, S) = (CHOOSE g : AddsUp(g, f, S))[S]
BY DEF SumFunctionOnSet, FoldFunctionOnSet, MapThenFoldSet, AddsUp, Chosen

\* Among the subsets of a finite set that have a property there is a smallest.
LEMMA SmallestSubset ==
    ASSUME NEW S, IsFiniteSet(S), NEW T, T \subseteq SUBSET S, T # {}
    PROVE  \E t \in T : \A u \in SUBSET t : u # t => u \notin T
<1>1. IsWellFoundedOn(StrictSubsetOrdering(S), SUBSET S)
      BY FS_StrictSubsetOrderingWellFounded, FS_FiniteSubsetsOfFinite
<1>2. PICK t \in T : \A u \in T : ~(<<u, t>> \in StrictSubsetOrdering(S))
      BY <1>1, WFMin
<1> QED
    BY <1>2 DEF StrictSubsetOrdering

\* Two functions that add up f agree wherever both are defined.
LEMMA OneSum ==
    ASSUME NEW S, IsFiniteSet(S), NEW U \in SUBSET S, NEW f, NEW g, NEW h,
           AddsUp(g, f, S), AddsUp(h, f, U)
    PROVE  \A s \in SUBSET U : g[s] = h[s]
<1> DEFINE T == {s \in SUBSET U : g[s] # h[s]}
<1> SUFFICES ASSUME T # {} PROVE FALSE
    OBVIOUS
<1>0. T \subseteq SUBSET S
      OBVIOUS
<1>1. PICK t \in T : \A u \in SUBSET t : u # t => u \notin T
  <2> HIDE DEF T
  <2> QED
      BY <1>0, SmallestSubset
<1>2. t # {}
      BY <1>1 DEF AddsUp
<1> DEFINE u == t \ {Chosen(t)}
<1>3. Chosen(t) \in t
      BY <1>2 DEF Chosen
<1>4. u \in SUBSET t /\ u # t /\ u \in SUBSET U
      BY <1>3
<1>5. g[u] = h[u]
      BY <1>1, <1>4
<1>6. g[t] = f[Chosen(t)] + g[u] /\ h[t] = f[Chosen(t)] + h[u]
      BY <1>1, <1>2 DEF AddsUp
<1> QED
    BY <1>1, <1>5, <1>6

\* Every finite set has such a function.
LEMMA SumExists ==
    ASSUME NEW S, IsFiniteSet(S), NEW f
    PROVE  \E g : AddsUp(g, f, S)
<1> DEFINE T == {s \in SUBSET S : ~\E g : AddsUp(g, f, s)}
<1> SUFFICES ASSUME T # {} PROVE FALSE
    OBVIOUS
<1>0. T \subseteq SUBSET S
      OBVIOUS
<1>1. PICK t \in T : \A u \in SUBSET t : u # t => u \notin T
  <2> HIDE DEF T
  <2> QED
      BY <1>0, SmallestSubset
<1> DEFINE sum(u) == (CHOOSE g : AddsUp(g, f, u))[u]
           g == [s \in SUBSET t |-> IF s = {} THEN 0
                                    ELSE f[Chosen(s)] + sum(s \ {Chosen(s)})]
<1>2. ASSUME NEW s \in SUBSET t, s # {}
      PROVE  s \ {Chosen(s)} \in SUBSET t /\ s \ {Chosen(s)} # t
      BY <1>2 DEF Chosen
<1>3. ASSUME NEW u \in SUBSET t, u # t
      PROVE  g[u] = sum(u)
  <2> DEFINE h == CHOOSE h : AddsUp(h, f, u)
  <2>1. AddsUp(h, f, u)
        BY <1>1, <1>3
  <2>2. CASE u = {}
        BY <2>1, <2>2 DEF AddsUp
  <2>3. CASE u # {}
    <3> DEFINE v == u \ {Chosen(u)}
               k == CHOOSE k : AddsUp(k, f, v)
    <3>1. v \in SUBSET u /\ v \in SUBSET t /\ v # t
          BY <1>2, <2>3
    <3>2. AddsUp(k, f, v)
          BY <1>1, <3>1
    <3>3. IsFiniteSet(u)
          BY FS_Subset
    <3>4. h[v] = k[v]
          BY <2>1, <3>1, <3>2, <3>3, OneSum
    <3>5. h[u] = f[Chosen(u)] + h[v]
          BY <2>1, <2>3 DEF AddsUp
    <3> QED
        BY <2>3, <3>4, <3>5
  <2> QED
      BY <2>2, <2>3
<1>4. g = [s \in SUBSET t |-> IF s = {} THEN 0
                              ELSE f[Chosen(s)] + g[s \ {Chosen(s)}]]
  <2>1. \A s \in SUBSET t : s # {} => g[s \ {Chosen(s)}] = sum(s \ {Chosen(s)})
        BY <1>2, <1>3
  <2> HIDE DEF sum
  <2> QED
      BY <2>1
<1>5. AddsUp(g, f, t)
      BY <1>4 DEF AddsUp
<1> QED
    BY <1>1, <1>5

\* The sum over no arguments.
LEMMA SumEmpty ==
    ASSUME NEW f
    PROVE  SumFunctionOnSet(f, {}) = 0
<1> DEFINE g == CHOOSE g : AddsUp(g, f, {})
<1>1. AddsUp(g, f, {})
      BY SumExists, FS_EmptySet
<1>2. g[{}] = 0
      BY <1>1 DEF AddsUp
<1> QED
    BY <1>2, SumIsFold

\* The sum takes its arguments one after the other ...
LEMMA SumChosen ==
    ASSUME NEW S, IsFiniteSet(S), S # {}, NEW f
    PROVE  SumFunctionOnSet(f, S)
              = f[Chosen(S)] + SumFunctionOnSet(f, S \ {Chosen(S)})
<1> DEFINE U == S \ {Chosen(S)}
           g == CHOOSE g : AddsUp(g, f, S)
           h == CHOOSE h : AddsUp(h, f, U)
<1>1. AddsUp(g, f, S)
      BY SumExists
<1>2. IsFiniteSet(U)
      BY FS_Subset
<1>3. AddsUp(h, f, U)
      BY <1>2, SumExists
<1>4. g[U] = h[U]
      BY <1>1, <1>3, OneSum
<1>5. g[S] = f[Chosen(S)] + g[U]
      BY <1>1 DEF AddsUp
<1> QED
    BY <1>4, <1>5, SumIsFold

\* ... and is a number when they have numbers.
LEMMA SumType ==
    ASSUME NEW S, IsFiniteSet(S), NEW f, \A x \in S : f[x] \in Nat
    PROVE  SumFunctionOnSet(f, S) \in Nat
<1> DEFINE T == {s \in SUBSET S : SumFunctionOnSet(f, s) \notin Nat}
<1> SUFFICES ASSUME T # {} PROVE FALSE
    OBVIOUS
<1>0. T \subseteq SUBSET S
      OBVIOUS
<1>1. PICK t \in T : \A u \in SUBSET t : u # t => u \notin T
  <2> HIDE DEF T
  <2> QED
      BY <1>0, SmallestSubset
<1>2. t # {}
  <2>1. SumFunctionOnSet(f, {}) \in Nat
        BY SumEmpty
  <2> QED
      BY <1>1, <2>1
<1>3. Chosen(t) \in t
      BY <1>2 DEF Chosen
<1>4. SumFunctionOnSet(f, t \ {Chosen(t)}) \in Nat
      BY <1>1, <1>3
<1>5. IsFiniteSet(t)
      BY FS_Subset
<1>6. f[Chosen(t)] \in Nat
      BY <1>3
<1>7. SumFunctionOnSet(f, t) = f[Chosen(t)] + SumFunctionOnSet(f, t \ {Chosen(t)})
      BY <1>2, <1>5, SumChosen
<1>8. SumFunctionOnSet(f, t) \in Nat
      BY <1>4, <1>6, <1>7
<1> QED
    BY <1>1, <1>8

\* Only the arguments in the set count.
LEMMA SumCongruent ==
    ASSUME NEW S, IsFiniteSet(S), NEW f, NEW g, \A x \in S : f[x] = g[x]
    PROVE  SumFunctionOnSet(f, S) = SumFunctionOnSet(g, S)
<1> DEFINE T == {s \in SUBSET S : SumFunctionOnSet(f, s) # SumFunctionOnSet(g, s)}
<1> SUFFICES ASSUME T # {} PROVE FALSE
    OBVIOUS
<1>0. T \subseteq SUBSET S
      OBVIOUS
<1>1. PICK t \in T : \A u \in SUBSET t : u # t => u \notin T
  <2> HIDE DEF T
  <2> QED
      BY <1>0, SmallestSubset
<1>2. t # {}
      BY <1>1, SumEmpty
<1>3. Chosen(t) \in t
      BY <1>2 DEF Chosen
<1>4. SumFunctionOnSet(f, t \ {Chosen(t)}) = SumFunctionOnSet(g, t \ {Chosen(t)})
      BY <1>1, <1>3
<1>5. IsFiniteSet(t)
      BY FS_Subset
<1>6. f[Chosen(t)] = g[Chosen(t)]
      BY <1>3
<1>7. SumFunctionOnSet(f, t) = SumFunctionOnSet(g, t)
      BY <1>2, <1>4, <1>5, <1>6, SumChosen
<1> QED
    BY <1>1, <1>7

\* Any argument may be taken out first.
LEMMA SumRemove ==
    ASSUME NEW S, IsFiniteSet(S), NEW f, \A x \in S : f[x] \in Nat, NEW a \in S
    PROVE  SumFunctionOnSet(f, S) = f[a] + SumFunctionOnSet(f, S \ {a})
<1> DEFINE Differs(s) ==
              \E x \in s : SumFunctionOnSet(f, s) # f[x] + SumFunctionOnSet(f, s \ {x})
           T == {s \in SUBSET S : Differs(s)}
<1> SUFFICES ASSUME T # {} PROVE FALSE
    BY S \in SUBSET S
<1>0. T \subseteq SUBSET S
      OBVIOUS
<1>1. PICK t \in T : \A u \in SUBSET t : u # t => u \notin T
  <2> HIDE DEF T
  <2> QED
      BY <1>0, SmallestSubset
<1>2. PICK x \in t : SumFunctionOnSet(f, t) # f[x] + SumFunctionOnSet(f, t \ {x})
      BY <1>1
<1> DEFINE c == Chosen(t)
<1>3. c \in t
      BY <1>2 DEF Chosen
<1>4. IsFiniteSet(t)
      BY FS_Subset
<1>5. SumFunctionOnSet(f, t) = f[c] + SumFunctionOnSet(f, t \ {c})
      BY <1>2, <1>4, SumChosen
<1>6. c # x
      BY <1>2, <1>5
<1> HIDE DEF c
<1>7. SumFunctionOnSet(f, t \ {c}) = f[x] + SumFunctionOnSet(f, (t \ {c}) \ {x})
  <2>1. x \in t \ {c} /\ t \ {c} \in SUBSET t /\ t \ {c} # t
        BY <1>3, <1>6
  <2> QED
      BY <1>1, <2>1
<1>8. SumFunctionOnSet(f, t \ {x}) = f[c] + SumFunctionOnSet(f, (t \ {x}) \ {c})
  <2>1. c \in t \ {x} /\ t \ {x} \in SUBSET t /\ t \ {x} # t
        BY <1>3, <1>6
  <2> QED
      BY <1>1, <2>1
<1>9. (t \ {x}) \ {c} = (t \ {c}) \ {x}
      OBVIOUS
<1>10. SumFunctionOnSet(f, (t \ {c}) \ {x}) \in Nat
  <2>1. IsFiniteSet((t \ {c}) \ {x})
        BY <1>4, FS_Subset
  <2> QED
      BY <2>1, SumType
<1>11. f[c] \in Nat /\ f[x] \in Nat
      BY <1>3
<1>12. f[x] + SumFunctionOnSet(f, t \ {x})
          = f[c] + SumFunctionOnSet(f, t \ {c})
      BY <1>7, <1>8, <1>9, <1>10, <1>11
<1> QED
    BY <1>2, <1>5, <1>12

LEMMA SumWithout ==
    ASSUME NEW S, IsFiniteSet(S), NEW f, \A x \in S : f[x] \in Nat, NEW a \in S,
           NEW U, U = S \ {a}
    PROVE  SumFunctionOnSet(f, S) = f[a] + SumFunctionOnSet(f, U)
BY SumRemove

\* A new argument adds its value.
LEMMA SumAdd ==
    ASSUME NEW S, IsFiniteSet(S), NEW f, NEW a, a \notin S,
           \A x \in S \cup {a} : f[x] \in Nat
    PROVE  SumFunctionOnSet(f, S \cup {a}) = f[a] + SumFunctionOnSet(f, S)
<1>1. IsFiniteSet(S \cup {a}) /\ (S \cup {a}) \ {a} = S
      BY FS_AddElement
<1> QED
    BY <1>1, SumRemove

\* h renames the arguments of f in S to those of g in U.
Renames(h, f, S, g, U) ==
    /\ \A x \in S : h[x] \in U /\ f[x] \in Nat /\ g[h[x]] = f[x]
    /\ \A x, y \in S : h[x] = h[y] => x = y
    /\ \A y \in U : \E x \in S : h[x] = y

\* Renaming changes no sum.
LEMMA SumImage ==
    ASSUME NEW S, IsFiniteSet(S), NEW U, NEW f, NEW g, NEW h, Renames(h, f, S, g, U)
    PROVE  SumFunctionOnSet(f, S) = SumFunctionOnSet(g, U)
<1> USE DEF Renames
<1> DEFINE Image(s) == {h[x] : x \in s}
           T == {s \in SUBSET S : SumFunctionOnSet(f, s) # SumFunctionOnSet(g, Image(s))}
<1> SUFFICES ASSUME T # {} PROVE FALSE
    BY S \in SUBSET S, Image(S) = U
<1>0. T \subseteq SUBSET S
      OBVIOUS
<1>1. PICK t \in T : \A u \in SUBSET t : u # t => u \notin T
  <2> HIDE DEF T
  <2> QED
      BY <1>0, SmallestSubset
<1>2. t # {}
  <2>1. SumFunctionOnSet(f, {}) = SumFunctionOnSet(g, Image({}))
    <3>1. Image({}) = {}
          OBVIOUS
    <3> QED
        BY <3>1, SumEmpty
  <2> QED
      BY <1>1, <2>1
<1> DEFINE c == Chosen(t)
           u == t \ {c}
<1>3. c \in t
      BY <1>2 DEF Chosen
<1> HIDE DEF c
<1>4. IsFiniteSet(t) /\ IsFiniteSet(Image(t))
  <2>1. IsFiniteSet(t)
        BY FS_Subset
  <2>2. IsFiniteSet({h[x] : x \in t})
    <3> DEFINE r == [x \in t |-> h[x]]
    <3>1. r \in Surjection(t, {h[x] : x \in t})
          BY DEF Surjection
    <3> QED
        BY <2>1, <3>1, FS_Surjection
  <2> QED
      BY <2>1, <2>2
<1>5. SumFunctionOnSet(f, u) = SumFunctionOnSet(g, Image(u))
      BY <1>1, <1>3
<1>6. SumFunctionOnSet(f, t) = f[c] + SumFunctionOnSet(f, u)
      BY <1>3, <1>4, SumRemove
<1>7. Image(t) \ {h[c]} = Image(u) /\ h[c] \in Image(t)
      BY <1>3
<1>8. \A y \in Image(t) : g[y] \in Nat
      OBVIOUS
<1>9. SumFunctionOnSet(g, Image(t)) = g[h[c]] + SumFunctionOnSet(g, Image(t) \ {h[c]})
  <2> HIDE DEF Image
  <2> QED
      BY <1>4, <1>7, <1>8, SumRemove
<1>10. g[h[c]] = f[c]
       BY <1>3
<1>11. SumFunctionOnSet(f, t) = SumFunctionOnSet(g, Image(t))
       BY <1>5, <1>6, <1>7, <1>9, <1>10
<1> QED
    BY <1>1, <1>11

\* A set of numbers has a least one.
LEMMA LeastNumber ==
    ASSUME NEW T, T \subseteq Nat, T # {}
    PROVE  \E n \in T : \A m \in T : n <= m
<1> DEFINE R == OpToRel(<, Nat)
<1>1. IsWellFoundedOn(R, Nat)
      BY NatLessThanWellFounded
<1>2. \A m, n \in Nat : m < n => <<m, n>> \in R
      BY DEF OpToRel
<1> HIDE DEF R
<1>3. PICK n \in T : \A m \in T : ~(<<m, n>> \in R)
      BY <1>1, WFMin
<1>4. ASSUME NEW m \in T
      PROVE  n <= m
  <2>1. m \in Nat /\ n \in Nat
        OBVIOUS
  <2>2. ~(m < n)
        BY <1>2, <1>3, <2>1
  <2> QED
      BY <2>1, <2>2
<1> QED
    BY <1>4

(***************************************************************************)
(* Folds in general: g folds S, taking the element that pick names last.   *)
(***************************************************************************)
Folds(g, S, base, pick, step) ==
    g = [s \in SUBSET S |-> IF s = {} THEN base
                            ELSE step[<<pick[s], g[s \ {pick[s]}]>>]]

Picks(pick, S) == \A s \in SUBSET S : s # {} => pick[s] \in s

\* What holds of the empty set, and of a set when it holds without the element
\* taken last, holds of every subset.
LEMMA SubsetInduction ==
    ASSUME NEW S, IsFiniteSet(S), NEW pick, Picks(pick, S), NEW T, {} \in T,
           \A s \in SUBSET S : s # {} /\ s \ {pick[s]} \in T => s \in T
    PROVE  \A s \in SUBSET S : s \in T
<1> DEFINE Missing == {s \in SUBSET S : s \notin T}
<1> SUFFICES ASSUME Missing # {} PROVE FALSE
    OBVIOUS
<1>0. Missing \subseteq SUBSET S
      OBVIOUS
<1>1. PICK t \in Missing : \A u \in SUBSET t : u # t => u \notin Missing
  <2> HIDE DEF Missing
  <2> QED
      BY <1>0, SmallestSubset
<1>2. t # {} /\ pick[t] \in t
      BY DEF Picks
<1> DEFINE u == t \ {pick[t]}
<1>3. u \in SUBSET t /\ u # t /\ u \in SUBSET S
      BY <1>2
<1> QED
    BY <1>1, <1>2, <1>3

\* Two folds agree wherever both are defined.
LEMMA OneFold ==
    ASSUME NEW S, IsFiniteSet(S), NEW U \in SUBSET S, NEW base, NEW pick, NEW step,
           Picks(pick, S), NEW g, NEW h,
           Folds(g, S, base, pick, step), Folds(h, U, base, pick, step)
    PROVE  \A s \in SUBSET U : g[s] = h[s]
<1> DEFINE T == {s \in SUBSET U : g[s] = h[s]}
<1>1. IsFiniteSet(U) /\ Picks(pick, U)
      BY FS_Subset DEF Picks
<1>2. {} \in T
      BY DEF Folds
<1>3. ASSUME NEW s \in SUBSET U, s # {}, s \ {pick[s]} \in T
      PROVE  s \in T
  <2>1. g[s] = step[<<pick[s], g[s \ {pick[s]}]>>] /\ h[s] = step[<<pick[s], h[s \ {pick[s]}]>>]
        BY <1>3 DEF Folds
  <2> QED
      BY <1>3, <2>1
<1> HIDE DEF T
<1>4. \A s \in SUBSET U : s \in T
      BY <1>1, <1>2, <1>3, SubsetInduction
<1> QED
    BY <1>4 DEF T

\* Every finite set can be folded.
LEMMA FoldExists ==
    ASSUME NEW S, IsFiniteSet(S), NEW base, NEW pick, NEW step, Picks(pick, S)
    PROVE  \E g : Folds(g, S, base, pick, step)
<1> DEFINE Fold(g, u) == Folds(g, u, base, pick, step)
           T == {s \in SUBSET S : ~\E g : Fold(g, s)}
<1> SUFFICES ASSUME T # {} PROVE FALSE
    OBVIOUS
<1>0. T \subseteq SUBSET S
      OBVIOUS
<1>1. PICK t \in T : \A u \in SUBSET t : u # t => u \notin T
  <2> HIDE DEF T
  <2> QED
      BY <1>0, SmallestSubset
<1> DEFINE value(u) == (CHOOSE g : Fold(g, u))[u]
           g == [s \in SUBSET t |-> IF s = {} THEN base
                                    ELSE step[<<pick[s], value(s \ {pick[s]})>>]]
<1>2. ASSUME NEW s \in SUBSET t, s # {}
      PROVE  pick[s] \in s /\ s \ {pick[s]} \in SUBSET t /\ s \ {pick[s]} # t
      BY <1>2 DEF Picks
<1>3. ASSUME NEW u \in SUBSET t, u # t
      PROVE  g[u] = value(u)
  <2> DEFINE h == CHOOSE h : Fold(h, u)
  <2>1. Fold(h, u)
        BY <1>1, <1>3
  <2>2. CASE u = {}
        BY <2>1, <2>2 DEF Folds
  <2>3. CASE u # {}
    <3> DEFINE v == u \ {pick[u]}
               k == CHOOSE k : Fold(k, v)
    <3>1. v \in SUBSET u /\ v \in SUBSET t /\ v # t
          BY <1>2, <2>3
    <3>2. Fold(k, v)
          BY <1>1, <3>1
    <3>3. IsFiniteSet(u) /\ Picks(pick, u)
          BY FS_Subset DEF Picks
    <3>4. h[v] = k[v]
          BY <2>1, <3>1, <3>2, <3>3, OneFold
    <3>5. h[u] = step[<<pick[u], h[v]>>]
          BY <2>1, <2>3 DEF Folds
    <3> QED
        BY <2>3, <3>4, <3>5
  <2> QED
      BY <2>2, <2>3
<1>4. g = [s \in SUBSET t |-> IF s = {} THEN base
                              ELSE step[<<pick[s], g[s \ {pick[s]}]>>]]
  <2>1. \A s \in SUBSET t : s # {} => g[s \ {pick[s]}] = value(s \ {pick[s]})
        BY <1>2, <1>3
  <2> HIDE DEF value
  <2> QED
      BY <2>1
<1>5. Fold(g, t)
      BY <1>4 DEF Folds
<1> QED
    BY <1>1, <1>5

\* What holds of the empty set, and of a set when it holds without any one element.
LEMMA SetInduction ==
    ASSUME NEW S, IsFiniteSet(S), NEW T, {} \in T,
           \A s \in SUBSET S : \A a \in s : s \ {a} \in T => s \in T
    PROVE  S \in T
<1> DEFINE Missing == {s \in SUBSET S : s \notin T}
<1> SUFFICES ASSUME Missing # {} PROVE FALSE
    OBVIOUS
<1>0. Missing \subseteq SUBSET S
      OBVIOUS
<1>1. PICK t \in Missing : \A u \in SUBSET t : u # t => u \notin Missing
  <2> HIDE DEF Missing
  <2> QED
      BY <1>0, SmallestSubset
<1>2. PICK a \in t : TRUE
      OBVIOUS
<1>3. t \ {a} \in SUBSET t /\ t \ {a} # t /\ t \ {a} \in SUBSET S
      OBVIOUS
<1> QED
    BY <1>1, <1>3

(***************************************************************************)
(* More about sums                                                         *)
(***************************************************************************)
\* The sum over two sets that have nothing in common.
LEMMA SumUnion ==
    ASSUME NEW A, IsFiniteSet(A), NEW B, IsFiniteSet(B), A \cap B = {},
           NEW f, \A x \in A \cup B : f[x] \in Nat, NEW C, C = A \cup B
    PROVE  SumFunctionOnSet(f, C) = SumFunctionOnSet(f, A) + SumFunctionOnSet(f, B)
<1> DEFINE Sum(s) == SumFunctionOnSet(f, s)
           T == {s \in SUBSET B : Sum(A \cup s) = Sum(A) + Sum(s)}
<1>1. \A s : s \in SUBSET (A \cup B) => IsFiniteSet(s) /\ Sum(s) \in Nat
  <2>1. IsFiniteSet(A \cup B)
        BY FS_Union
  <2>2. ASSUME NEW s, s \in SUBSET (A \cup B)
        PROVE  IsFiniteSet(s) /\ SumFunctionOnSet(f, s) \in Nat
    <3>1. IsFiniteSet(s)
          BY <2>1, <2>2, FS_Subset
    <3> QED
        BY <2>2, <3>1, SumType
  <2> QED
      BY <2>2
<1>2. {} \in T
  <2>1. A \cup {} = A /\ Sum({}) = 0 /\ Sum(A) \in Nat
        BY <1>1, SumEmpty
  <2> QED
      BY <2>1
<1>3. ASSUME NEW s \in SUBSET B, NEW a \in s, s \ {a} \in T
      PROVE  s \in T
  <2> DEFINE u == s \ {a}
  <2>1. /\ IsFiniteSet(s) /\ IsFiniteSet(A \cup s)
        /\ Sum(u) \in Nat /\ Sum(A) \in Nat /\ f[a] \in Nat
        BY <1>1
  <2>2. Sum(A \cup u) = Sum(A) + Sum(u)
        BY <1>3
  <2>3. Sum(s) = f[a] + Sum(u)
        BY <2>1, SumRemove
  <2>4. a \in A \cup s /\ (A \cup s) \ {a} = A \cup u
        OBVIOUS
  <2>5. SumFunctionOnSet(f, A \cup s)
           = f[a] + SumFunctionOnSet(f, (A \cup s) \ {a})
    <3> DEFINE V == A \cup s
    <3>1. IsFiniteSet(V) /\ a \in V /\ \A x \in V : f[x] \in Nat
          BY <2>1, <2>4
    <3> HIDE DEF V
    <3>2. SumFunctionOnSet(f, V) = f[a] + SumFunctionOnSet(f, V \ {a})
          BY <3>1, SumRemove
    <3> QED
        BY <3>2 DEF V
  <2>6. Sum(A \cup s) = f[a] + Sum(A \cup u)
        BY <2>4, <2>5
  <2> QED
      BY <2>1, <2>2, <2>3, <2>6
<1> HIDE DEF T
<1>4. B \in T
      BY <1>2, <1>3, SetInduction
<1> QED
    BY <1>4 DEF T

\* More elements, larger sum.
LEMMA SumSubset ==
    ASSUME NEW S, IsFiniteSet(S), NEW U \in SUBSET S, NEW f, \A x \in S : f[x] \in Nat
    PROVE  SumFunctionOnSet(f, U) <= SumFunctionOnSet(f, S)
<1> DEFINE rest == S \ U
<1>1. IsFiniteSet(U) /\ IsFiniteSet(rest) /\ U \cap rest = {} /\ U \cup rest = S
      BY FS_Subset
<1>2. SumFunctionOnSet(f, U) \in Nat /\ SumFunctionOnSet(f, rest) \in Nat
      BY <1>1, SumType
<1> HIDE DEF rest
<1>3. SumFunctionOnSet(f, S) = SumFunctionOnSet(f, U) + SumFunctionOnSet(f, rest)
      BY <1>1, SumUnion
<1> QED
    BY <1>1, <1>2, <1>3

\* The sum over two sets is at most the two sums.
LEMMA SumUnionAtMost ==
    ASSUME NEW A, IsFiniteSet(A), NEW B, IsFiniteSet(B),
           NEW f, \A x \in A \cup B : f[x] \in Nat, NEW C, C = A \cup B
    PROVE  SumFunctionOnSet(f, C) <= SumFunctionOnSet(f, A) + SumFunctionOnSet(f, B)
<1> DEFINE rest == B \ A
<1>1. IsFiniteSet(rest) /\ A \cap rest = {} /\ C = A \cup rest /\ rest \in SUBSET B
      BY FS_Subset
<1>2. /\ SumFunctionOnSet(f, A) \in Nat /\ SumFunctionOnSet(f, rest) \in Nat
      /\ SumFunctionOnSet(f, B) \in Nat
      BY <1>1, SumType
<1>5. \A x \in A \cup rest : f[x] \in Nat
      BY <1>1
<1>6. \A x \in B : f[x] \in Nat
      OBVIOUS
<1> HIDE DEF rest
<1>3. SumFunctionOnSet(f, C) = SumFunctionOnSet(f, A) + SumFunctionOnSet(f, rest)
      BY <1>1, <1>5, SumUnion
<1>4. SumFunctionOnSet(f, rest) <= SumFunctionOnSet(f, B)
      BY <1>1, <1>6, SumSubset
<1> QED
    BY <1>1, <1>2, <1>3, <1>4

\* The sum over an image counts each element once, or less.
LEMMA SumImageAtMost ==
    ASSUME NEW S, IsFiniteSet(S), NEW f, NEW h, NEW g,
           \A x \in S : f[x] \in Nat /\ g[h[x]] = f[x]
    PROVE  SumFunctionOnSet(g, {h[x] : x \in S}) <= SumFunctionOnSet(f, S)
<1> DEFINE U == {h[x] : x \in S}
           k == [y \in U |-> CHOOSE x \in S : h[x] = y]
           V == {k[y] : y \in U}
<1>1. \A y \in U : k[y] \in S /\ h[k[y]] = y
      OBVIOUS
<1>2. IsFiniteSet(U)
  <2> DEFINE r == [x \in S |-> h[x]]
  <2>1. r \in Surjection(S, U)
        BY DEF Surjection
  <2> QED
      BY <2>1, FS_Surjection
<1>3. V \in SUBSET S
      BY <1>1
<1> HIDE DEF k, U
<1>4. Renames(k, g, U, f, V)
      BY <1>1 DEF Renames
<1>5. SumFunctionOnSet(g, U) = SumFunctionOnSet(f, V)
      BY <1>2, <1>4, SumImage
<1>6. SumFunctionOnSet(f, V) <= SumFunctionOnSet(f, S)
      BY <1>3, SumSubset
<1> QED
    BY <1>5, <1>6 DEF U

\* S in groups, by h.
Groups(group, h, S, U) ==
    /\ \A x \in S : h[x] \in U
    /\ \A u \in U : group[u] = {x \in S : h[x] = u}

\* The sum over a set is the sum of its parts' sums.
LEMMA SumGroups ==
    ASSUME NEW S, IsFiniteSet(S), NEW U, IsFiniteSet(U), NEW f, NEW g, NEW h, NEW group,
           Groups(group, h, S, U), \A x \in S : f[x] \in Nat,
           \A u \in U : g[u] = SumFunctionOnSet(f, group[u])
    PROVE  SumFunctionOnSet(f, S) = SumFunctionOnSet(g, U)
<1> DEFINE Over(u) == {x \in S : h[x] \in u}
           T == {u \in SUBSET U : SumFunctionOnSet(f, Over(u)) = SumFunctionOnSet(g, u)}
<1>0. /\ \A x \in S : h[x] \in U
      /\ \A u \in U : group[u] = {x \in S : h[x] = u}
      BY DEF Groups
<1>1. {} \in T
  <2>1. Over({}) = {}
        OBVIOUS
  <2> QED
      BY <2>1, SumEmpty
<1>2. ASSUME NEW u \in SUBSET U, NEW a \in u, u \ {a} \in T
      PROVE  u \in T
  <2> DEFINE v == u \ {a}
             own == group[a]
  <2>1. /\ Over(u) = own \cup Over(v) /\ own \cap Over(v) = {}
        /\ IsFiniteSet(own) /\ IsFiniteSet(Over(v)) /\ own \subseteq S /\ Over(v) \subseteq S
        BY <1>0, FS_Subset
  <2>2. SumFunctionOnSet(f, Over(v)) = SumFunctionOnSet(g, v)
        BY <1>2
  <2>3. g[a] = SumFunctionOnSet(f, own)
        OBVIOUS
  <2>4. \A y \in U : g[y] \in Nat
    <3> SUFFICES ASSUME NEW y \in U PROVE g[y] \in Nat
        OBVIOUS
    <3>1. IsFiniteSet(group[y]) /\ \A x \in group[y] : f[x] \in Nat
          BY <1>0, FS_Subset
    <3> QED
        BY <3>1, SumType
  <2>5. IsFiniteSet(u) /\ \A y \in u : g[y] \in Nat
        BY <2>4, FS_Subset
  <2>6. SumFunctionOnSet(g, u) = g[a] + SumFunctionOnSet(g, v)
        BY <2>5, SumRemove
  <2>7. SumFunctionOnSet(f, Over(u))
           = SumFunctionOnSet(f, own) + SumFunctionOnSet(f, Over(v))
    <3> DEFINE A == own
               B == Over(v)
    <3>1. /\ Over(u) = A \cup B /\ A \cap B = {}
          /\ IsFiniteSet(A) /\ IsFiniteSet(B) /\ A \subseteq S /\ B \subseteq S
          BY <2>1
    <3> HIDE DEF A, B, Over
    <3>2. SumFunctionOnSet(f, Over(u)) = SumFunctionOnSet(f, A) + SumFunctionOnSet(f, B)
          BY <3>1, SumUnion
    <3> QED
        BY <3>1, <3>2 DEF A, B
  <2> QED
      BY <2>2, <2>3, <2>6, <2>7
<1> HIDE DEF T
<1>3. U \in T
      BY <1>1, <1>2, SetInduction
<1>4. Over(U) = S
      BY <1>0
<1> QED
    BY <1>3, <1>4 DEF T

(***************************************************************************)
(* Lists                                                                   *)
(***************************************************************************)
\* Finite sets of numbers have a greatest.
LEMMA MaxExists ==
    ASSUME NEW S, IsFiniteSet(S), S \subseteq Int, S # {}
    PROVE  Max(S) \in S /\ \A x \in S : x <= Max(S)
<1> DEFINE Above(x) == {y \in S : y > x}
           T == {Above(x) : x \in S}
<1>1. T \subseteq SUBSET S /\ T # {}
      OBVIOUS
<1>2. PICK t \in T : \A u \in SUBSET t : u # t => u \notin T
  <2> HIDE DEF T
  <2> QED
      BY <1>1, SmallestSubset
<1>3. PICK x \in S : t = Above(x)
      OBVIOUS
<1>4. ASSUME NEW y \in S
      PROVE  x >= y
  <2>1. SUFFICES ASSUME y > x
                 PROVE  FALSE
        OBVIOUS
  <2>2. ASSUME NEW z \in S, z > y
        PROVE  z > x
    <3>1. x \in Int /\ y \in Int /\ z \in Int
          OBVIOUS
    <3> QED
        BY <2>1, <2>2, <3>1
  <2>3. Above(y) \in SUBSET t
        BY <1>3, <2>2
  <2>4. y \in t
        BY <1>3, <2>1
  <2>5. y \notin Above(y)
    <3>1. y \in Int
          OBVIOUS
    <3> QED
        BY <3>1
  <2> QED
      BY <1>2, <2>3, <2>4, <2>5
<1>5. Max(S) \in S /\ \A y \in S : Max(S) >= y
      BY <1>3, <1>4 DEF Max
<1> QED
    BY <1>5

\* The list continues with the items of S, in the order of their numbers.
Continues(l, list, items, S) ==
    /\ Len(l) >= Len(list)
    /\ \A i \in 1 .. Len(list) : l[i] = list[i]
    /\ \E at \in [Len(list) + 1 .. Len(l) -> S] :
          /\ \A i \in Len(list) + 1 .. Len(l) : l[i] = items[at[i]]
          /\ \A i, k \in Len(list) + 1 .. Len(l) : i < k => at[i] < at[k]
          /\ \A x \in S : \E i \in Len(list) + 1 .. Len(l) : at[i] = x

\* One more item, with a greater number than the others.
LEMMA ContinueOn ==
    ASSUME NEW X, NEW list \in Seq(X), NEW l \in Seq(X), NEW items, NEW S \in SUBSET Int,
           NEW m \in Int, items[m] \in X, \A x \in S : x < m,
           Continues(l, list, items, S)
    PROVE  Continues(Append(l, items[m]), list, items, S \cup {m})
<1> DEFINE n == Len(l) + 1
           k == Append(l, items[m])
<1>1. PICK at \in [Len(list) + 1 .. Len(l) -> S] :
          /\ \A i \in Len(list) + 1 .. Len(l) : l[i] = items[at[i]]
          /\ \A i, j \in Len(list) + 1 .. Len(l) : i < j => at[i] < at[j]
          /\ \A x \in S : \E i \in Len(list) + 1 .. Len(l) : at[i] = x
      BY DEF Continues
<1>2. /\ Len(list) \in Nat /\ Len(l) \in Nat /\ Len(l) >= Len(list)
      /\ \A i \in 1 .. Len(list) : l[i] = list[i]
      BY DEF Continues
<1>3. /\ Len(k) = n /\ k[n] = items[m]
      /\ \A i \in 1 .. Len(l) : k[i] = l[i]
      OBVIOUS
<1> HIDE DEF k
<1> DEFINE more == [i \in Len(list) + 1 .. n |-> IF i = n THEN m ELSE at[i]]
<1>4. Len(list) + 1 .. n = (Len(list) + 1 .. Len(l)) \cup {n}
      BY <1>2
<1>5. /\ \A i \in Len(list) + 1 .. Len(l) : more[i] = at[i] /\ at[i] \in S
      /\ more[n] = m
      BY <1>2, <1>4
<1>6. more \in [Len(list) + 1 .. n -> S \cup {m}]
      BY <1>4
<1> HIDE DEF more
<1>7. \A i \in Len(list) + 1 .. n : k[i] = items[more[i]]
      BY <1>1, <1>2, <1>3, <1>4, <1>5
<1>8. ASSUME NEW i \in Len(list) + 1 .. n, NEW j \in Len(list) + 1 .. n, i < j
      PROVE  more[i] < more[j]
  <2>1. i \in Len(list) + 1 .. Len(l)
        BY <1>2, <1>8
  <2>2. CASE j = n
        BY <1>5, <2>1, <2>2
  <2>3. CASE j # n
    <3>1. j \in Len(list) + 1 .. Len(l)
          BY <1>4, <2>3
    <3> QED
        BY <1>1, <1>5, <1>8, <2>1, <3>1
  <2> QED
      BY <2>2, <2>3
<1>9. ASSUME NEW x \in S \cup {m}
      PROVE  \E i \in Len(list) + 1 .. n : more[i] = x
      BY <1>1, <1>4, <1>5
<1>10. \A i \in 1 .. Len(list) : k[i] = list[i]
      BY <1>2, <1>3
<1>11. Len(k) = n /\ n >= Len(list)
      BY <1>2, <1>3
<1> HIDE DEF n
<1>12. Continues(k, list, items, S \cup {m})
      BY <1>6, <1>7, <1>8, <1>9, <1>10, <1>11 DEF Continues
<1> QED
    BY <1>12 DEF k

\* Listing appends each item once, in the order of their numbers.
LEMMA ListingContinues ==
    ASSUME NEW X, NEW list \in Seq(X), NEW D \in SUBSET Int, IsFiniteSet(D),
           NEW items \in [D -> X]
    PROVE  /\ Listing(list, items) \in Seq(X)
           /\ Continues(Listing(list, items), list, items, D)
<1> DEFINE pick == [s \in SUBSET D |-> Max(s)]
           step == [p \in D \X Seq(X) |-> Append(p[2], items[p[1]])]
           Next(f, s) == Append(f[s \ {Max(s)}], items[Max(s)])
           Iter(f) == f = [s \in SUBSET D |-> IF s = {} THEN list ELSE Next(f, s)]
<1>1. ASSUME NEW s \in SUBSET D, s # {}
      PROVE  pick[s] = Max(s) /\ Max(s) \in s /\ \A x \in s : x <= Max(s)
      BY <1>1, MaxExists, FS_Subset
<1>2. Picks(pick, D)
      BY <1>1 DEF Picks
<1> HIDE DEF pick
<1>3. PICK g : Folds(g, D, list, pick, step)
  <2> HIDE DEF step
  <2> QED
      BY <1>2, FoldExists
<1>4. \A s \in SUBSET D : g[s] \in Seq(X)
  <2> DEFINE T == {s \in SUBSET D : g[s] \in Seq(X)}
  <2>1. {} \in T
        BY <1>3 DEF Folds
  <2>2. ASSUME NEW s \in SUBSET D, s # {}, s \ {pick[s]} \in T
        PROVE  s \in T
    <3>1. g[s] = step[<<pick[s], g[s \ {pick[s]}]>>]
          BY <1>3, <2>2 DEF Folds
    <3>2. pick[s] \in D /\ g[s \ {pick[s]}] \in Seq(X)
          BY <1>2, <2>2 DEF Picks
    <3>3. step[<<pick[s], g[s \ {pick[s]}]>>] = Append(g[s \ {pick[s]}], items[pick[s]])
          BY <3>2
    <3>4. items[pick[s]] \in X
          BY <3>2
    <3>5. step[<<pick[s], g[s \ {pick[s]}]>>] \in Seq(X)
      <4> HIDE DEF step
      <4> QED
          BY <3>2, <3>3, <3>4
    <3> QED
        BY <3>1, <3>5
  <2> HIDE DEF T
  <2>3. \A s \in SUBSET D : s \in T
        BY <1>2, <2>1, <2>2, SubsetInduction
  <2> QED
      BY <2>3 DEF T
<1>5. Iter(g)
  <2>1. g = [s \in SUBSET D |-> IF s = {} THEN list
                                ELSE step[<<pick[s], g[s \ {pick[s]}]>>]]
        BY <1>3 DEF Folds
  <2>2. ASSUME NEW s \in SUBSET D, s # {}
        PROVE  step[<<pick[s], g[s \ {pick[s]}]>>] = Next(g, s)
        BY <1>1, <1>4, <2>2
  <2> HIDE DEF step, Next
  <2> QED
      BY <2>1, <2>2
<1> DEFINE f == CHOOSE f : Iter(f)
<1>6. Listing(list, items) = f[D]
      BY DEF Listing, MapThenFoldSet
<1>7. Iter(f)
      BY <1>5
<1> HIDE DEF f
<1> DEFINE T == {s \in SUBSET D : f[s] \in Seq(X) /\ Continues(f[s], list, items, s)}
<1>8. {} \in T
  <2>1. f[{}] = list
        BY <1>7
  <2> DEFINE at == [x \in {} |-> x]
  <2>2. Len(list) \in Nat /\ Len(list) + 1 .. Len(list) = {}
        OBVIOUS
  <2>3. at \in [Len(list) + 1 .. Len(list) -> {}]
        BY <2>2
  <2> HIDE DEF at
  <2>4. Continues(list, list, items, {})
        BY <2>2, <2>3 DEF Continues
  <2> QED
      BY <2>1, <2>4
<1>9. ASSUME NEW s \in SUBSET D, s # {}, s \ {pick[s]} \in T
      PROVE  s \in T
  <2> DEFINE m == Max(s)
             u == s \ {m}
  <2>1. m \in s /\ u \in T
        BY <1>1, <1>9
  <2>2. f[s] = Append(f[u], items[m])
        BY <1>7, <1>9
  <2>3. f[u] \in Seq(X) /\ Continues(f[u], list, items, u) /\ items[m] \in X
        BY <2>1
  <2>4. u \in SUBSET Int /\ m \in Int /\ u \cup {m} = s
        BY <2>1
  <2>5. ASSUME NEW x \in u
        PROVE  x < m
    <3>1. x <= m /\ x # m /\ x \in Int
          BY <1>1, <1>9, <2>5
    <3> QED
        BY <2>4, <3>1
  <2> HIDE DEF m, u, T
  <2>6. Continues(Append(f[u], items[m]), list, items, s)
        BY <2>3, <2>4, <2>5, ContinueOn
  <2>7. Append(f[u], items[m]) \in Seq(X)
        BY <2>3
  <2> QED
      BY <2>2, <2>6, <2>7 DEF T
<1> HIDE DEF T
<1>10. \A s \in SUBSET D : s \in T
      BY <1>2, <1>8, <1>9, SubsetInduction
<1> QED
    BY <1>6, <1>10 DEF T

(***************************************************************************)
(* Requests that the stores make, and what a plan is made of               *)
(***************************************************************************)
IsPlanRequest(r) ==
    /\ r.capacity \in Nat \ {0} /\ r.start \in Int /\ r.currentDate \in Int
    /\ r.manualForce \in BOOLEAN /\ r.allowLate \in BOOLEAN
    /\ IsFiniteSet(DOMAIN r.existing)
    /\ \A k \in DOMAIN r.existing : r.existing[k].day \in Int /\ r.existing[k].quantity \in Nat
    /\ DOMAIN r.orders \in SUBSET Nat /\ IsFiniteSet(DOMAIN r.orders)
    /\ \A o \in DOMAIN r.orders :
          /\ r.orders[o].quantity \in Nat \ {0} /\ r.orders[o].high \in BOOLEAN
          /\ r.orders[o].due \in Int /\ r.orders[o].createdAt \in Int

PlanPiece == [order : Nat, day : Int, quantity : Nat \ {0}, locked : BOOLEAN]

PlanConflict(r) ==
    [order : Nat, reason : {"review", "late"}, earliestFinish : Int,
     affected : SUBSET {r.existing[k].order : k \in DOMAIN r.existing}]

\* Sums of the quantities of a list.
LEMMA WafersType ==
    ASSUME NEW list, NEW S, IsFiniteSet(S), S \subseteq DOMAIN list,
           \A i \in S : list[i].quantity \in Nat
    PROVE  Wafers(list, S) \in Nat
BY SumType DEF Wafers

LEMMA NoWafers == ASSUME NEW list PROVE Wafers(list, {}) = 0
BY SumEmpty DEF Wafers

LEMMA OneWafers ==
    ASSUME NEW list, NEW i \in DOMAIN list, list[i].quantity \in Nat
    PROVE  Wafers(list, {i}) = list[i].quantity
<1> DEFINE f == [k \in DOMAIN list |-> list[k].quantity]
<1>1. f[i] = list[i].quantity /\ f[i] \in Nat
      OBVIOUS
<1> HIDE DEF f
<1>2. IsFiniteSet({i}) /\ {} = {i} \ {i} /\ \A x \in {i} : f[x] \in Nat
      BY <1>1, FS_Singleton
<1>3. SumFunctionOnSet(f, {i}) = f[i] + SumFunctionOnSet(f, {})
      BY <1>2, SumWithout
<1>4. SumFunctionOnSet(f, {}) = 0
      BY SumEmpty
<1> QED
    BY <1>1, <1>3, <1>4 DEF Wafers, f

LEMMA PieceType ==
    ASSUME NEW pieces \in Seq(PlanPiece)
    PROVE  /\ IsFiniteSet(DOMAIN pieces)
           /\ \A i \in DOMAIN pieces :
                 /\ pieces[i].order \in Nat /\ pieces[i].day \in Int
                 /\ pieces[i].quantity \in Nat \ {0} /\ pieces[i].locked \in BOOLEAN
<1>1. DOMAIN pieces = 1 .. Len(pieces) /\ Len(pieces) \in Nat
      OBVIOUS
<1>2. IsFiniteSet(1 .. Len(pieces))
      BY <1>1, FS_Interval
<1>3. \A i \in DOMAIN pieces : pieces[i] \in PlanPiece
      BY <1>1
<1> QED
    BY <1>1, <1>2, <1>3 DEF PlanPiece

LEMMA UsedType ==
    ASSUME NEW r, IsPlanRequest(r), NEW pieces \in Seq(PlanPiece), NEW d
    PROVE  UsedOn(r, pieces, d) \in Nat
<1> DEFINE S == {i \in DOMAIN pieces : pieces[i].day = d}
<1>1. Wafers(pieces, S) \in Nat
  <2>1. IsFiniteSet(S) /\ S \subseteq DOMAIN pieces
        BY PieceType, FS_Subset
  <2>2. \A i \in S : pieces[i].quantity \in Nat
        BY PieceType
  <2> HIDE DEF S
  <2> QED
      BY <2>1, <2>2, WafersType
<1>2. Wafers(r.existing, ExistingOn(r, d)) \in Nat
  <2>1. IsFiniteSet(ExistingOn(r, d)) /\ ExistingOn(r, d) \subseteq DOMAIN r.existing
        BY FS_Subset DEF ExistingOn, ExistingOfLine, IsPlanRequest
  <2> QED
      BY <2>1, WafersType DEF IsPlanRequest
<1> QED
    BY <1>1, <1>2 DEF UsedOn

LEMMA FreeType ==
    ASSUME NEW r, IsPlanRequest(r), NEW pieces \in Seq(PlanPiece), NEW d
    PROVE  FreeOn(r, pieces, d) \in Nat
BY UsedType DEF FreeOn, Greater, IsPlanRequest

\* What is free from the start date to a day.
FreeFromStart(r, pieces, d) ==
    SumFunctionOnSet([e \in StartDay(r) .. d |-> FreeOn(r, pieces, e)], StartDay(r) .. d)

LEMMA FreeFromStartNext ==
    ASSUME NEW r, IsPlanRequest(r), NEW pieces \in Seq(PlanPiece), NEW d \in Int
    PROVE  /\ StartDay(r) \in Int
           /\ FreeFromStart(r, pieces, d) \in Nat
           /\ d < StartDay(r) => FreeFromStart(r, pieces, d) = 0
           /\ d >= StartDay(r) =>
                 FreeFromStart(r, pieces, d) = FreeFromStart(r, pieces, d - 1) + FreeOn(r, pieces, d)
<1> DEFINE first == StartDay(r)
           free(e) == [x \in first .. e |-> FreeOn(r, pieces, x)]
<1>1. first \in Int
      BY DEF StartDay, Greater, IsPlanRequest
<1>2. ASSUME NEW e \in Int
      PROVE  IsFiniteSet(first .. e)
      BY <1>1, <1>2, FS_Interval
<1>3. FreeFromStart(r, pieces, d) \in Nat
  <2>1. \A x \in first .. d : free(d)[x] \in Nat
        BY FreeType
  <2> QED
      BY <1>2, <2>1, SumType DEF FreeFromStart
<1>4. ASSUME d < first
      PROVE  FreeFromStart(r, pieces, d) = 0
  <2>1. first .. d = {}
        BY <1>1, <1>4
  <2> QED
      BY <2>1, SumEmpty DEF FreeFromStart
<1>5. ASSUME d >= first
      PROVE  FreeFromStart(r, pieces, d) = FreeFromStart(r, pieces, d - 1) + FreeOn(r, pieces, d)
  <2> HIDE DEF first
  <2>1. first .. d = (first .. d - 1) \cup {d} /\ d \notin first .. d - 1 /\ d \in first .. d
        BY <1>1, <1>5
  <2>2. \A x \in (first .. d - 1) \cup {d} : free(d)[x] \in Nat
        BY <2>1, FreeType
  <2>3. SumFunctionOnSet(free(d), first .. d)
          = free(d)[d] + SumFunctionOnSet(free(d), first .. d - 1)
    <3> DEFINE f == free(d)
    <3> HIDE DEF f
    <3>1. IsFiniteSet(first .. d - 1)
          BY <1>2
    <3>2. \A x \in (first .. d - 1) \cup {d} : f[x] \in Nat
          BY <2>2 DEF f
    <3>3. SumFunctionOnSet(f, (first .. d - 1) \cup {d})
            = f[d] + SumFunctionOnSet(f, first .. d - 1)
          BY <2>1, <3>1, <3>2, SumAdd
    <3> QED
        BY <2>1, <3>3 DEF f
  <2>4. SumFunctionOnSet(free(d), first .. d - 1) = SumFunctionOnSet(free(d - 1), first .. d - 1)
    <3>1. \A x \in first .. d - 1 : free(d)[x] = free(d - 1)[x]
          BY <2>1
    <3> DEFINE f == free(d)
               g == free(d - 1)
    <3> HIDE DEF f, g
    <3>2. IsFiniteSet(first .. d - 1)
          BY <1>2
    <3>3. \A x \in first .. d - 1 : f[x] = g[x]
          BY <3>1 DEF f, g
    <3>4. SumFunctionOnSet(f, first .. d - 1) = SumFunctionOnSet(g, first .. d - 1)
          BY <3>2, <3>3, SumCongruent
    <3> QED
        BY <3>4 DEF f, g
  <2>5. free(d)[d] = FreeOn(r, pieces, d)
        BY <2>1
  <2>6. FreeFromStart(r, pieces, d) = FreeOn(r, pieces, d) + FreeFromStart(r, pieces, d - 1)
        BY <2>3, <2>4, <2>5 DEF FreeFromStart, first
  <2>7. FreeOn(r, pieces, d) \in Nat /\ FreeFromStart(r, pieces, d) \in Nat
        BY <1>3, FreeType
  <2>8. FreeFromStart(r, pieces, d - 1) \in Nat
    <3> DEFINE f == free(d - 1)
    <3>1. \A x \in first .. d - 1 : f[x] \in Nat
          BY FreeType
    <3>2. IsFiniteSet(first .. d - 1)
          BY <1>2
    <3>3. FreeFromStart(r, pieces, d - 1) = SumFunctionOnSet(f, first .. d - 1)
          BY DEF FreeFromStart, first
    <3> HIDE DEF f
    <3> QED
        BY <3>1, <3>2, <3>3, SumType
  <2> QED
      BY <2>6, <2>7, <2>8
<1> QED
    BY <1>1, <1>3, <1>4, <1>5

\* Nothing is on a later day than LastDayUsed.
LEMMA EmptyDays ==
    ASSUME NEW r, IsPlanRequest(r), NEW pieces \in Seq(PlanPiece)
    PROVE  /\ LastDayUsed(r, pieces) \in Int /\ LastDayUsed(r, pieces) >= StartDay(r)
           /\ \A d \in Int : d > LastDayUsed(r, pieces) => FreeOn(r, pieces, d) = r.capacity
<1> DEFINE K == ExistingOfLine(r)
           A == {r.existing[k].day : k \in K}
           B == {pieces[i].day : i \in DOMAIN pieces}
           S == {StartDay(r)} \cup A \cup B
<1>1. StartDay(r) \in Int
      BY FreeFromStartNext
<1>2. IsFiniteSet(A) /\ A \subseteq Int
  <2>0. K \subseteq DOMAIN r.existing /\ IsFiniteSet(K)
        BY FS_Subset DEF IsPlanRequest, ExistingOfLine
  <2>1. IsFiniteSet(A)
    <3> DEFINE f == [k \in K |-> r.existing[k].day]
    <3>1. f \in Surjection(K, A)
          BY DEF Surjection
    <3> HIDE DEF f, A, K
    <3> QED
        BY <2>0, <3>1, FS_Surjection
  <2> QED
      BY <2>0, <2>1 DEF IsPlanRequest
<1>3. IsFiniteSet(B) /\ B \subseteq Int
  <2>1. IsFiniteSet(B)
    <3> DEFINE f == [i \in DOMAIN pieces |-> pieces[i].day]
    <3>1. f \in Surjection(DOMAIN pieces, B)
          BY DEF Surjection
    <3> HIDE DEF f, B
    <3> QED
        BY <3>1, FS_Surjection, PieceType
  <2> QED
      BY <2>1, PieceType
<1>4. IsFiniteSet(S) /\ S \subseteq Int /\ S # {}
  <2> HIDE DEF A, B
  <2>1. IsFiniteSet({StartDay(r)})
        BY FS_Singleton
  <2> QED
      BY <1>1, <1>2, <1>3, <2>1, FS_Union
<1>5. Max(S) \in S /\ \A x \in S : x <= Max(S)
  <2> HIDE DEF S
  <2> QED
      BY <1>4, MaxExists
<1>6. LastDayUsed(r, pieces) = Max(S)
      BY DEF LastDayUsed
<1>7. Max(S) \in Int /\ Max(S) >= StartDay(r)
      BY <1>1, <1>4, <1>5
<1>8. ASSUME NEW d \in Int, d > Max(S)
      PROVE  FreeOn(r, pieces, d) = r.capacity
  <2>1. d \notin S
    <3> HIDE DEF S
    <3> QED
        BY <1>5, <1>7, <1>8
  <2>2. ExistingOn(r, d) = {}
        BY <2>1 DEF ExistingOn
  <2>3. {i \in DOMAIN pieces : pieces[i].day = d} = {}
        BY <2>1
  <2>4. Wafers(pieces, {}) = 0 /\ Wafers(r.existing, {}) = 0
        BY NoWafers
  <2> DEFINE placed == {i \in DOMAIN pieces : pieces[i].day = d}
             existing == IF r.manualForce THEN 0 ELSE Wafers(r.existing, ExistingOn(r, d))
  <2>5. UsedOn(r, pieces, d) = Wafers(pieces, placed) + existing
        BY DEF UsedOn
  <2>6. UsedOn(r, pieces, d) = 0
    <3>1. placed = {}
          BY <2>3
    <3>2. existing = 0
          BY <2>2, <2>4
    <3> HIDE DEF placed, existing
    <3> QED
        BY <2>4, <2>5, <3>1, <3>2
  <2>7. r.capacity \in Nat
        BY DEF IsPlanRequest
  <2> QED
      BY <2>6, <2>7 DEF FreeOn, Greater
<1> QED
    BY <1>6, <1>7, <1>8

\* n days after it there are n free wafers, or more.
LEMMA RoomEnough ==
    ASSUME NEW r, IsPlanRequest(r), NEW pieces \in Seq(PlanPiece), NEW n \in Nat
    PROVE  FreeFromStart(r, pieces, LastDayUsed(r, pieces) + n) >= n
<1> DEFINE last == LastDayUsed(r, pieces)
           T == {m \in Nat : ~(FreeFromStart(r, pieces, last + m) >= m)}
<1> SUFFICES ASSUME T # {} PROVE FALSE
    OBVIOUS
<1>1. PICK m \in T : \A k \in T : m <= k
  <2>1. T \subseteq Nat
        OBVIOUS
  <2> HIDE DEF T
  <2> QED
      BY <2>1, LeastNumber
<1>2. last \in Int /\ last >= StartDay(r) /\ StartDay(r) \in Int
      BY EmptyDays, FreeFromStartNext
<1> HIDE DEF last
<1>3. m # 0
  <2>1. FreeFromStart(r, pieces, last + 0) \in Nat
        BY <1>2, FreeFromStartNext
  <2> QED
      BY <1>1, <2>1
<1>4. FreeFromStart(r, pieces, last + (m - 1)) >= m - 1
  <2>1. m - 1 \in Nat /\ ~(m <= m - 1)
        BY <1>3
  <2> QED
      BY <1>1, <2>1
<1>5. last + m \in Int /\ last + m > last /\ last + m >= StartDay(r)
      /\ last + m - 1 = last + (m - 1)
      BY <1>2, <1>3
<1>6. FreeFromStart(r, pieces, last + m)
        = FreeFromStart(r, pieces, last + (m - 1)) + FreeOn(r, pieces, last + m)
  <2> DEFINE d == last + m
  <2>1. d \in Int /\ d >= StartDay(r) /\ d - 1 = last + (m - 1)
        BY <1>2, <1>5
  <2> HIDE DEF d
  <2>2. FreeFromStart(r, pieces, d) = FreeFromStart(r, pieces, d - 1) + FreeOn(r, pieces, d)
        BY <2>1, FreeFromStartNext
  <2> QED
      BY <2>1, <2>2 DEF d
<1>7. FreeOn(r, pieces, last + m) >= 1 /\ FreeOn(r, pieces, last + m) \in Int
  <2>1. FreeOn(r, pieces, last + m) = r.capacity
        BY <1>5, EmptyDays DEF last
  <2> QED
      BY <2>1 DEF IsPlanRequest
<1>8. FreeFromStart(r, pieces, last + (m - 1)) \in Nat
  <2>1. last + (m - 1) \in Int
        BY <1>2, <1>5
  <2> QED
      BY <2>1, FreeFromStartNext
<1>9. m \in Nat /\ ~(FreeFromStart(r, pieces, last + m) >= m)
      BY <1>1
<1> QED
    BY <1>4, <1>6, <1>7, <1>8, <1>9

(***************************************************************************)
(* One order                                                               *)
(***************************************************************************)
\* What is placed by a day grows from nothing to the whole order.
LEMMA PlacedGrows ==
    ASSUME NEW r, IsPlanRequest(r), NEW pieces \in Seq(PlanPiece), NEW o \in DOMAIN r.orders
    PROVE  LET q == r.orders[o].quantity IN
           /\ Horizon(r, pieces, o) \in Int /\ Horizon(r, pieces, o) >= StartDay(r)
           /\ PlacedBy(r, pieces, o, Horizon(r, pieces, o)) = q
           /\ \A d \in Int :
                 /\ PlacedBy(r, pieces, o, d) \in 0 .. q
                 /\ d < StartDay(r) => PlacedBy(r, pieces, o, d) = 0
                 /\ PlacedBy(r, pieces, o, d - 1) <= PlacedBy(r, pieces, o, d)
                 /\ d >= StartDay(r) =>
                       PlacedBy(r, pieces, o, d) - PlacedBy(r, pieces, o, d - 1)
                          <= FreeOn(r, pieces, d)
<1> DEFINE q == r.orders[o].quantity
<1>1. q \in Nat \ {0}
      BY DEF IsPlanRequest
<1> HIDE DEF q
<1>2. \A d \in Int : PlacedBy(r, pieces, o, d) = Lesser(q, FreeFromStart(r, pieces, d))
      BY DEF PlacedBy, FreeFromStart, q
<1>3. Horizon(r, pieces, o) = LastDayUsed(r, pieces) + q
      BY DEF Horizon, q
<1>4. /\ Horizon(r, pieces, o) \in Int /\ Horizon(r, pieces, o) >= StartDay(r)
      /\ StartDay(r) \in Int
  <2>1. LastDayUsed(r, pieces) \in Int /\ LastDayUsed(r, pieces) >= StartDay(r)
        /\ StartDay(r) \in Int
        BY EmptyDays, FreeFromStartNext
  <2> QED
      BY <1>1, <1>3, <2>1
<1>5. PlacedBy(r, pieces, o, Horizon(r, pieces, o)) = q
  <2>1. FreeFromStart(r, pieces, Horizon(r, pieces, o)) >= q
        BY <1>1, <1>3, RoomEnough
  <2>2. FreeFromStart(r, pieces, Horizon(r, pieces, o)) \in Nat
        BY <1>4, FreeFromStartNext
  <2> QED
      BY <1>1, <1>2, <1>4, <2>1, <2>2 DEF Lesser
<1>6. ASSUME NEW d \in Int
      PROVE  /\ PlacedBy(r, pieces, o, d) \in 0 .. q
             /\ d < StartDay(r) => PlacedBy(r, pieces, o, d) = 0
             /\ PlacedBy(r, pieces, o, d - 1) <= PlacedBy(r, pieces, o, d)
             /\ d >= StartDay(r) =>
                   PlacedBy(r, pieces, o, d) - PlacedBy(r, pieces, o, d - 1)
                      <= FreeOn(r, pieces, d)
  <2>1. d - 1 \in Int
        OBVIOUS
  <2>2. /\ FreeFromStart(r, pieces, d) \in Nat
        /\ d < StartDay(r) => FreeFromStart(r, pieces, d) = 0
        /\ d >= StartDay(r) =>
              FreeFromStart(r, pieces, d) = FreeFromStart(r, pieces, d - 1) + FreeOn(r, pieces, d)
        BY FreeFromStartNext
  <2>3. /\ FreeFromStart(r, pieces, d - 1) \in Nat
        /\ d - 1 < StartDay(r) => FreeFromStart(r, pieces, d - 1) = 0
        BY <2>1, FreeFromStartNext
  <2>4. FreeOn(r, pieces, d) \in Nat
        BY FreeType
  <2>5. /\ PlacedBy(r, pieces, o, d) = Lesser(q, FreeFromStart(r, pieces, d))
        /\ PlacedBy(r, pieces, o, d - 1) = Lesser(q, FreeFromStart(r, pieces, d - 1))
        BY <1>2, <2>1
  <2> QED
      BY <1>1, <1>4, <2>2, <2>3, <2>4, <2>5 DEF Lesser
<1> QED
    BY <1>4, <1>5, <1>6 DEF q

\* An order gets wafers on some days, and on none more than it needs or than are free.
LEMMA DaysOfOrder ==
    ASSUME NEW r, IsPlanRequest(r), NEW pieces \in Seq(PlanPiece), NEW o \in DOMAIN r.orders
    PROVE  /\ IsFiniteSet(Days(r, pieces, o)) /\ Days(r, pieces, o) \subseteq Int
           /\ FinishDay(r, pieces, o) \in Days(r, pieces, o)
           /\ \A d \in Days(r, pieces, o) :
                 /\ d >= StartDay(r) /\ d <= FinishDay(r, pieces, o)
                 /\ PlacedOn(r, pieces, o, d) \in 1 .. r.orders[o].quantity
                 /\ PlacedOn(r, pieces, o, d) <= FreeOn(r, pieces, d)
<1> DEFINE q == r.orders[o].quantity
           first == StartDay(r)
           horizon == Horizon(r, pieces, o)
           Placed(d) == PlacedBy(r, pieces, o, d)
<1>1. q \in Nat \ {0} /\ first \in Int
      BY FreeFromStartNext DEF IsPlanRequest
<1>2. /\ horizon \in Int /\ horizon >= first /\ Placed(horizon) = q
      /\ \A d \in Int :
            /\ Placed(d) \in 0 .. q /\ Placed(d - 1) <= Placed(d)
            /\ d < first => Placed(d) = 0
            /\ d >= first => Placed(d) - Placed(d - 1) <= FreeOn(r, pieces, d)
      BY PlacedGrows
<1>3. \A d : PlacedOn(r, pieces, o, d) = Placed(d) - Placed(d - 1)
      BY DEF PlacedOn
<1>4. Days(r, pieces, o) = {d \in first .. horizon : PlacedOn(r, pieces, o, d) > 0}
      BY DEF Days
<1> HIDE DEF q, first, horizon, Placed
<1>5. IsFiniteSet(Days(r, pieces, o)) /\ Days(r, pieces, o) \subseteq Int
  <2>1. IsFiniteSet(first .. horizon)
        BY <1>1, <1>2, FS_Interval
  <2>2. Days(r, pieces, o) \subseteq first .. horizon
        BY <1>4
  <2>3. first .. horizon \subseteq Int
        OBVIOUS
  <2> QED
      BY <2>1, <2>2, <2>3, FS_Subset
<1>6. ASSUME NEW d \in Days(r, pieces, o)
      PROVE  /\ d >= first
             /\ PlacedOn(r, pieces, o, d) \in 1 .. q
             /\ PlacedOn(r, pieces, o, d) <= FreeOn(r, pieces, d)
  <2>1. d \in first .. horizon /\ PlacedOn(r, pieces, o, d) > 0
        BY <1>4
  <2>3. d \in Int /\ d - 1 \in Int /\ d >= first
        BY <1>1, <1>2, <2>1
  <2>2. Placed(d) \in 0 .. q /\ Placed(d - 1) \in 0 .. q
        /\ Placed(d) - Placed(d - 1) <= FreeOn(r, pieces, d)
        BY <1>2, <2>3
  <2>4. PlacedOn(r, pieces, o, d) = Placed(d) - Placed(d - 1)
        BY <1>3
  <2> QED
      BY <1>1, <2>1, <2>2, <2>3, <2>4
<1>7. Days(r, pieces, o) # {}
  <2> DEFINE T == {n \in Nat : Placed(first + n) > 0}
  <2>1. horizon - first \in T
    <3>1. horizon - first \in Nat /\ first + (horizon - first) = horizon
          BY <1>1, <1>2
    <3> QED
        BY <1>1, <1>2, <3>1
  <2>2. PICK n \in T : \A m \in T : n <= m
    <3>1. T \subseteq Nat
          OBVIOUS
    <3> HIDE DEF T
    <3> QED
        BY <2>1, <3>1, LeastNumber
  <2>3. n \in Nat /\ Placed(first + n) > 0 /\ first + n <= horizon
    <3>1. n \in Nat /\ n <= horizon - first
          BY <2>1, <2>2
    <3> QED
        BY <1>1, <1>2, <2>2, <3>1
  <2>4. Placed(first + n - 1) = 0
    <3>1. CASE n = 0
      <4>1. first + n - 1 \in Int /\ first + n - 1 < first
            BY <1>1, <3>1
      <4> QED
          BY <1>2, <4>1
    <3>2. CASE n # 0
      <4>1. n - 1 \in Nat /\ ~(n <= n - 1) /\ first + (n - 1) = first + n - 1
            /\ first + n - 1 \in Int
            BY <1>1, <2>3, <3>2
      <4>2. ~(Placed(first + (n - 1)) > 0)
            BY <2>2, <4>1
      <4>3. Placed(first + n - 1) \in 0 .. q
            BY <1>2, <4>1
      <4> QED
          BY <1>1, <4>1, <4>2, <4>3
    <3> QED
        BY <3>1, <3>2
  <2>5. first + n \in Int /\ Placed(first + n) \in 0 .. q
        BY <1>1, <1>2, <2>3
  <2>6. PlacedOn(r, pieces, o, first + n) > 0
        BY <1>1, <1>3, <2>3, <2>4, <2>5
  <2>7. first + n \in first .. horizon
        BY <1>1, <1>2, <2>3
  <2> QED
      BY <1>4, <2>6, <2>7
<1>8. /\ FinishDay(r, pieces, o) \in Days(r, pieces, o)
      /\ \A d \in Days(r, pieces, o) : d <= FinishDay(r, pieces, o)
      BY <1>5, <1>7, MaxExists DEF FinishDay
<1> QED
    BY <1>5, <1>6, <1>8 DEF q, first

(***************************************************************************)
(* The whole request                                                       *)
(***************************************************************************)
Plans(r) == [allocations : Seq(PlanPiece), conflicts : Seq(PlanConflict(r))]

\* No conflict says that an order is late; there may be days to review.
NobodyLate(conflicts) == \A i \in DOMAIN conflicts : conflicts[i].reason # "late"

\* The plan after one more order is the plan before it and the order's pieces, and
\* the conflicts before it and more when the order is too late.
LEMMA OrderPlanned ==
    ASSUME NEW r, IsPlanRequest(r), NEW plan \in Plans(r), NEW o \in DOMAIN r.orders
    PROVE  LET pieces == plan.allocations IN
           /\ PlanNext(r, o, plan) \in Plans(r)
           /\ Continues(PlanNext(r, o, plan).allocations, pieces,
                        PiecesOf(r, pieces, o), DaysGiven(r, pieces, o))
           /\ NobodyLate(PlanNext(r, o, plan).conflicts) =>
                 NobodyLate(plan.conflicts) /\ ~FinishesLate(r, pieces, o)
<1> DEFINE pieces == plan.allocations
           days == DaysGiven(r, pieces, o)
           shared == {e \in days : r.manualForce /\ OrdersAffected(r, e) # {}}
           late == LatenessOf(r, pieces, o)
<1>1. plan.allocations \in Seq(PlanPiece) /\ plan.conflicts \in Seq(PlanConflict(r))
      BY DEF Plans
<1>2. o \in Nat /\ r.orders[o].high \in BOOLEAN /\ r.orders[o].quantity \in Nat \ {0}
      BY DEF IsPlanRequest
<1>3. /\ days \in SUBSET Int /\ IsFiniteSet(days)
      /\ days \subseteq Days(r, pieces, o)
      /\ \A d \in days : PlacedOn(r, pieces, o, d) \in Nat \ {0}
  <2> DEFINE all == Days(r, pieces, o)
  <2>1. /\ IsFiniteSet(all) /\ all \subseteq Int
        /\ \A d \in all : PlacedOn(r, pieces, o, d) \in 1 .. r.orders[o].quantity
        BY <1>1, DaysOfOrder
  <2>2. days \subseteq all
        BY DEF DaysGiven
  <2> HIDE DEF all, days
  <2> QED
      BY <1>2, <2>1, <2>2, FS_Subset DEF all
<1>4. PiecesOf(r, pieces, o) \in [days -> PlanPiece]
  <2>1. \A d \in days : [order |-> o, day |-> d, quantity |-> PlacedOn(r, pieces, o, d),
                         locked |-> r.orders[o].high] \in PlanPiece
        BY <1>2, <1>3 DEF PlanPiece
  <2> QED
      BY <2>1 DEF PiecesOf
<1>5. /\ Listing(pieces, PiecesOf(r, pieces, o)) \in Seq(PlanPiece)
      /\ Continues(Listing(pieces, PiecesOf(r, pieces, o)), pieces,
                   PiecesOf(r, pieces, o), days)
  <2> HIDE DEF pieces, days
  <2> QED
      BY <1>1, <1>3, <1>4, ListingContinues DEF pieces
<1> DEFINE others == {r.existing[k].order : k \in DOMAIN r.existing}
<1>6. \A d : OrdersAffected(r, d) \in SUBSET others /\ OrdersToMove(r, d) \in SUBSET others
      BY DEF OrdersAffected, OrdersToMove, ExistingOn, ExistingOfLine
<1>7. ReviewsOf(r, pieces, o) \in [shared -> PlanConflict(r)]
  <2>1. \A d \in shared : [order |-> o, reason |-> "review", earliestFinish |-> d,
                           affected |-> OrdersAffected(r, d)] \in PlanConflict(r)
        BY <1>2, <1>3, <1>6 DEF PlanConflict
  <2> QED
      BY <2>1 DEF ReviewsOf
<1>8. /\ Listing(plan.conflicts, ReviewsOf(r, pieces, o)) \in Seq(PlanConflict(r))
      /\ Len(Listing(plan.conflicts, ReviewsOf(r, pieces, o))) >= Len(plan.conflicts)
      /\ \A i \in 1 .. Len(plan.conflicts) :
            Listing(plan.conflicts, ReviewsOf(r, pieces, o))[i] = plan.conflicts[i]
  <2>1. shared \in SUBSET Int /\ IsFiniteSet(shared)
        BY <1>3, FS_Subset
  <2> HIDE DEF pieces, shared
  <2> QED
      BY <1>1, <1>7, <2>1, ListingContinues DEF Continues
<1>9. late \in PlanConflict(r)
  <2>1. FinishDay(r, pieces, o) \in Int
        BY <1>1, DaysOfOrder
  <2>2. UNION {OrdersToMove(r, d) :
            d \in StartDay(r) .. Greater(FinishDay(r, pieces, o), r.orders[o].due)}
           \in SUBSET others
        BY <1>6
  <2> QED
      BY <1>2, <2>1, <2>2 DEF PlanConflict, LatenessOf
<1> DEFINE l == Listing(plan.conflicts, ReviewsOf(r, pieces, o))
           all == l \o (IF FinishesLate(r, pieces, o) THEN <<late>> ELSE <<>>)
<1>10. all \in Seq(PlanConflict(r))
       /\ (NobodyLate(all) => NobodyLate(plan.conflicts) /\ ~FinishesLate(r, pieces, o))
  <2>1. late.reason = "late"
        BY DEF LatenessOf
  <2> HIDE DEF pieces, late
  <2> DEFINE X == PlanConflict(r)
             before == plan.conflicts
  <2>2. /\ l \in Seq(X) /\ late \in X /\ before \in Seq(X) /\ Len(l) >= Len(before)
        /\ \A i \in 1 .. Len(before) : l[i] = before[i]
        BY <1>1, <1>8, <1>9
  <2> HIDE DEF l, X, before
  <2>3. NobodyLate(l) => NobodyLate(before)
        BY <2>2 DEF NobodyLate
  <2>4. CASE FinishesLate(r, pieces, o)
    <3>1. all = l \o <<late>>
          BY <2>4
    <3>2. all \in Seq(X) /\ all[Len(l) + 1] = late /\ Len(l) + 1 \in DOMAIN all
          BY <2>2, <3>1
    <3>3. ~NobodyLate(all)
          BY <2>1, <3>2 DEF NobodyLate
    <3> QED
        BY <3>2, <3>3 DEF X
  <2>5. CASE ~FinishesLate(r, pieces, o)
    <3>1. all = l \o <<>>
          BY <2>5
    <3>2. all = l
          BY <2>2, <3>1
    <3> QED
        BY <2>2, <2>3, <2>5, <3>2 DEF X, before
  <2> QED
      BY <2>4, <2>5
<1>11. PlanNext(r, o, plan) = [allocations |-> Listing(pieces, PiecesOf(r, pieces, o)),
                               conflicts |-> all]
  BY DEF PlanNext
<1> QED
    BY <1>5, <1>10, <1>11 DEF Plans

\* Some orders of a request include one that all the others rank before.
LEMMA LastExists ==
    ASSUME NEW r, IsPlanRequest(r), NEW S \in SUBSET DOMAIN r.orders, S # {}
    PROVE  /\ LastInRank(r, S) \in S
           /\ \A p \in S \ {LastInRank(r, S)} : RanksBefore(r, p, LastInRank(r, S))
<1> DEFINE Behind(o) == {p \in S : RanksBefore(r, o, p)}
           T == {Behind(o) : o \in S}
<1>1. IsFiniteSet(S)
      BY FS_Subset DEF IsPlanRequest
<1>2. T \subseteq SUBSET S /\ T # {}
      OBVIOUS
<1>3. PICK t \in T : \A u \in SUBSET t : u # t => u \notin T
  <2> HIDE DEF T
  <2> QED
      BY <1>1, <1>2, SmallestSubset
<1>4. PICK o \in S : t = Behind(o)
      OBVIOUS
<1>5. \A p \in S : /\ p \in Nat /\ r.orders[p].high \in BOOLEAN
                   /\ r.orders[p].due \in Int /\ r.orders[p].createdAt \in Int
      BY DEF IsPlanRequest
<1>6. ASSUME NEW p \in S, p # o
      PROVE  RanksBefore(r, p, o)
  <2>1. SUFFICES ASSUME ~RanksBefore(r, p, o)
                 PROVE  FALSE
        OBVIOUS
  <2>2. RanksBefore(r, o, p)
        BY <1>5, <1>6, <2>1 DEF RanksBefore
  <2>3. Behind(p) \in SUBSET t
    <3>1. SUFFICES ASSUME NEW x \in S, RanksBefore(r, p, x)
                   PROVE  RanksBefore(r, o, x)
          BY <1>4
    <3> QED
        BY <1>5, <2>2, <3>1 DEF RanksBefore
  <2>4. p \in t
        BY <1>4, <2>2
  <2>5. p \notin Behind(p)
        BY <1>5 DEF RanksBefore
  <2> QED
      BY <1>3, <2>3, <2>4, <2>5
<1> QED
    BY <1>6 DEF LastInRank

\* g is the plan of each set of orders: without the order that ranks last, and with it.
PlansUpTo(r, g) ==
    /\ g[{}] = NothingPlanned
    /\ \A S \in SUBSET DOMAIN r.orders :
          /\ g[S] \in Plans(r)
          /\ S # {} => g[S] = PlanNext(r, LastInRank(r, S), g[S \ {LastInRank(r, S)}])

LEMMA PlanRecursion ==
    ASSUME NEW r, IsPlanRequest(r)
    PROVE  \E g : PlansUpTo(r, g) /\ Plan(r) = g[DOMAIN r.orders]
<1> DEFINE D == DOMAIN r.orders
           pick == [s \in SUBSET D |-> LastInRank(r, s)]
           step == [p \in D \X Plans(r) |-> PlanNext(r, p[1], p[2])]
           After(f, s) == PlanNext(r, LastInRank(r, s), f[s \ {LastInRank(r, s)}])
           Iter(f) == f = [s \in SUBSET D |-> IF s = {} THEN NothingPlanned ELSE After(f, s)]
<1>1. IsFiniteSet(D)
      BY DEF IsPlanRequest
<1>2. ASSUME NEW s \in SUBSET D, s # {}
      PROVE  pick[s] = LastInRank(r, s) /\ LastInRank(r, s) \in s
      BY <1>2, LastExists
<1>3. Picks(pick, D)
      BY <1>2 DEF Picks
<1> HIDE DEF pick
<1>4. PICK g : Folds(g, D, NothingPlanned, pick, step)
  <2> HIDE DEF step, D
  <2> QED
      BY <1>1, <1>3, FoldExists
<1>5. NothingPlanned \in Plans(r)
      BY DEF NothingPlanned, Plans
<1>6. \A o \in D, plan \in Plans(r) : PlanNext(r, o, plan) \in Plans(r)
      BY OrderPlanned
<1>7. \A s \in SUBSET D : g[s] \in Plans(r)
  <2> DEFINE U == {s \in SUBSET D : g[s] \in Plans(r)}
  <2>1. {} \in U
        BY <1>4, <1>5 DEF Folds
  <2>2. ASSUME NEW s \in SUBSET D, s # {}, s \ {pick[s]} \in U
        PROVE  s \in U
    <3>1. g[s] = step[<<pick[s], g[s \ {pick[s]}]>>]
          BY <1>4, <2>2 DEF Folds
    <3>2. pick[s] \in D /\ g[s \ {pick[s]}] \in Plans(r)
          BY <1>3, <2>2 DEF Picks
    <3>3. step[<<pick[s], g[s \ {pick[s]}]>>] = PlanNext(r, pick[s], g[s \ {pick[s]}])
          BY <3>2
    <3> QED
        BY <1>6, <3>1, <3>2, <3>3
  <2> HIDE DEF U, D
  <2>3. \A s \in SUBSET D : s \in U
        BY <1>1, <1>3, <2>1, <2>2, SubsetInduction
  <2> QED
      BY <2>3 DEF U
<1>8. Iter(g)
  <2>1. g = [s \in SUBSET D |-> IF s = {} THEN NothingPlanned
                                ELSE step[<<pick[s], g[s \ {pick[s]}]>>]]
        BY <1>4 DEF Folds
  <2>2. ASSUME NEW s \in SUBSET D, s # {}
        PROVE  step[<<pick[s], g[s \ {pick[s]}]>>] = After(g, s)
    <3>1. pick[s] \in D /\ g[s \ {pick[s]}] \in Plans(r)
          BY <1>2, <1>7, <2>2
    <3> QED
        BY <1>2, <2>2, <3>1
  <2> HIDE DEF step, After, D
  <2> QED
      BY <2>1, <2>2
<1> DEFINE f == CHOOSE f : Iter(f)
<1>9. Plan(r) = f[D]
      BY DEF Plan, MapThenFoldSet
<1>10. Iter(f)
      BY <1>8
<1> HIDE DEF f
<1>11. \A s \in SUBSET D : f[s] \in Plans(r)
  <2> DEFINE U == {s \in SUBSET D : f[s] \in Plans(r)}
  <2>1. {} \in U
        BY <1>5, <1>10
  <2>2. ASSUME NEW s \in SUBSET D, s # {}, s \ {pick[s]} \in U
        PROVE  s \in U
    <3> DEFINE o == LastInRank(r, s)
    <3>1. o \in s /\ f[s \ {o}] \in Plans(r)
          BY <1>2, <2>2
    <3>2. f[s] = PlanNext(r, o, f[s \ {o}])
          BY <1>10, <2>2
    <3> QED
        BY <1>6, <3>1, <3>2
  <2> HIDE DEF U, D
  <2>3. \A s \in SUBSET D : s \in U
        BY <1>1, <1>3, <2>1, <2>2, SubsetInduction
  <2> QED
      BY <2>3 DEF U
<1>12. PlansUpTo(r, f)
  <2>1. f[{}] = NothingPlanned
        BY <1>10
  <2>2. \A s \in SUBSET D : s # {} => f[s] = After(f, s)
        BY <1>10
  <2> QED
      BY <1>11, <2>1, <2>2 DEF PlansUpTo
<1> QED
    BY <1>9, <1>12

\* What holds of the empty plan, and of a plan when it holds before the order that
\* ranks last, holds of the whole plan.
LEMMA PlanInduction ==
    ASSUME NEW r, IsPlanRequest(r), NEW T, <<{}, NothingPlanned>> \in T,
           \A S \in SUBSET DOMAIN r.orders : \A o \in S, plan \in Plans(r) :
              o = LastInRank(r, S) /\ <<S \ {o}, plan>> \in T
                 => <<S, PlanNext(r, o, plan)>> \in T
    PROVE  <<DOMAIN r.orders, Plan(r)>> \in T /\ Plan(r) \in Plans(r)
<1> DEFINE D == DOMAIN r.orders
           pick == [s \in SUBSET D |-> LastInRank(r, s)]
<1>1. IsFiniteSet(D)
      BY DEF IsPlanRequest
<1>2. ASSUME NEW s \in SUBSET D, s # {}
      PROVE  pick[s] = LastInRank(r, s) /\ LastInRank(r, s) \in s
      BY <1>2, LastExists
<1>3. Picks(pick, D)
      BY <1>2 DEF Picks
<1>4. PICK g : PlansUpTo(r, g) /\ Plan(r) = g[D]
      BY PlanRecursion
<1> HIDE DEF pick
<1> DEFINE U == {s \in SUBSET D : <<s, g[s]>> \in T}
<1>5. {} \in U
      BY <1>4 DEF PlansUpTo
<1>6. ASSUME NEW s \in SUBSET D, s # {}, s \ {pick[s]} \in U
      PROVE  s \in U
  <2> DEFINE o == LastInRank(r, s)
             u == s \ {o}
  <2>1. o \in s /\ u \in U
        BY <1>2, <1>6
  <2>2. g[s] = PlanNext(r, o, g[u]) /\ g[u] \in Plans(r)
        BY <1>4, <1>6 DEF PlansUpTo
  <2> QED
      BY <2>1, <2>2
<1> HIDE DEF U, D
<1>7. \A s \in SUBSET D : s \in U
      BY <1>1, <1>3, <1>5, <1>6, SubsetInduction
<1> QED
    BY <1>4, <1>7 DEF U, D, PlansUpTo

(***************************************************************************)
(* How much a plan places                                                  *)
(***************************************************************************)
\* The days of an order up to some day have what is placed by that day.
LEMMA PlacedUpTo ==
    ASSUME NEW r, IsPlanRequest(r), NEW pieces \in Seq(PlanPiece), NEW o \in DOMAIN r.orders,
           NEW n \in Nat
    PROVE  SumFunctionOnSet([d \in Int |-> PlacedOn(r, pieces, o, d)],
                            {d \in StartDay(r) .. StartDay(r) + n - 1 :
                                PlacedOn(r, pieces, o, d) > 0})
              = PlacedBy(r, pieces, o, StartDay(r) + n - 1)
<1> DEFINE first == StartDay(r)
           q == r.orders[o].quantity
           f == [d \in Int |-> PlacedOn(r, pieces, o, d)]
           Some(k) == {d \in first .. first + k - 1 : f[d] > 0}
           By(d) == PlacedBy(r, pieces, o, d)
           T == {k \in Nat : SumFunctionOnSet(f, Some(k)) # By(first + k - 1)}
<1>1. first \in Int /\ q \in Nat
      BY FreeFromStartNext DEF IsPlanRequest
<1>2. \A d \in Int : /\ By(d) \in 0 .. q /\ By(d - 1) \in 0 .. q
                     /\ f[d] = By(d) - By(d - 1) /\ f[d] \in Nat
                     /\ d < first => By(d) = 0
  <2> SUFFICES ASSUME NEW d \in Int
               PROVE  /\ By(d) \in 0 .. q /\ By(d - 1) \in 0 .. q
                      /\ f[d] = By(d) - By(d - 1) /\ f[d] \in Nat
                      /\ d < first => By(d) = 0
      OBVIOUS
  <2>1. d - 1 \in Int /\ f[d] = By(d) - By(d - 1)
        BY DEF PlacedOn
  <2> HIDE DEF f
  <2>2. By(d) \in 0 .. q /\ By(d - 1) \in 0 .. q /\ By(d - 1) <= By(d)
        /\ (d < first => By(d) = 0)
        BY <2>1, PlacedGrows
  <2> QED
      BY <1>1, <2>1, <2>2
<1> SUFFICES ASSUME T # {} PROVE FALSE
  <2>1. Some(n) = {d \in first .. first + n - 1 : PlacedOn(r, pieces, o, d) > 0}
        BY <1>1
  <2> QED
      BY <2>1
<1> HIDE DEF first, q, f, By
<1>3. PICK k \in T : \A m \in T : k <= m
  <2>1. T \subseteq Nat
        OBVIOUS
  <2> HIDE DEF T
  <2> QED
      BY <2>1, LeastNumber
<1>4. k # 0
  <2>1. Some(0) = {} /\ first + 0 - 1 \in Int /\ first + 0 - 1 < first
        BY <1>1
  <2> QED
      BY <1>2, <1>3, <2>1, SumEmpty
<1> DEFINE e == first + k - 1
<1>5. k \in Nat /\ k - 1 \in Nat /\ e \in Int /\ first + (k - 1) - 1 = e - 1 /\ e >= first
      BY <1>1, <1>4
<1>6. SumFunctionOnSet(f, Some(k - 1)) = By(e - 1)
  <2>1. k - 1 \notin T
    <3>1. ~(k <= k - 1)
          BY <1>5
    <3> HIDE DEF T
    <3> QED
        BY <1>3, <3>1
  <2> QED
      BY <1>5, <2>1
<1>7. SumFunctionOnSet(f, Some(k)) # By(e)
      BY <1>3
<1>8. IsFiniteSet(Some(k)) /\ IsFiniteSet(Some(k - 1))
  <2>1. IsFiniteSet(first .. e) /\ IsFiniteSet(first .. first + (k - 1) - 1)
        BY <1>1, <1>5, FS_Interval
  <2> QED
      BY <2>1, FS_Subset
<1>9. \A d \in Some(k) : d \in Int
      BY <1>1
<1>10. f[e] = By(e) - By(e - 1) /\ By(e) \in Int /\ By(e - 1) \in Int /\ f[e] \in Nat
      BY <1>1, <1>2, <1>5
<1>11. CASE f[e] > 0
  <2>1. e \in Some(k) /\ Some(k) \ {e} = Some(k - 1)
        BY <1>1, <1>5, <1>11
  <2>2. \A d \in Some(k) : f[d] \in Nat
        BY <1>2, <1>9
  <2> HIDE DEF Some, e
  <2>3. SumFunctionOnSet(f, Some(k)) = f[e] + SumFunctionOnSet(f, Some(k - 1))
        BY <1>8, <2>1, <2>2, SumWithout
  <2> QED
      BY <1>6, <1>7, <1>10, <2>1, <2>3
<1>12. CASE ~(f[e] > 0)
  <2>1. Some(k) = Some(k - 1)
        BY <1>1, <1>5, <1>12
  <2>2. By(e) = By(e - 1)
        BY <1>10, <1>12
  <2> HIDE DEF Some, e
  <2> QED
      BY <1>6, <1>7, <2>1, <2>2
<1> QED
    BY <1>11, <1>12

\* On all its days an order gets all its wafers.
LEMMA AllPlaced ==
    ASSUME NEW r, IsPlanRequest(r), NEW pieces \in Seq(PlanPiece), NEW o \in DOMAIN r.orders
    PROVE  SumFunctionOnSet([d \in Int |-> PlacedOn(r, pieces, o, d)], Days(r, pieces, o))
              = r.orders[o].quantity
<1> DEFINE first == StartDay(r)
           horizon == Horizon(r, pieces, o)
           n == horizon - first + 1
<1>1. /\ horizon \in Int /\ horizon >= first /\ first \in Int
      /\ PlacedBy(r, pieces, o, horizon) = r.orders[o].quantity
      BY PlacedGrows, FreeFromStartNext
<1>2. n \in Nat /\ first + n - 1 = horizon
      BY <1>1
<1>3. Days(r, pieces, o) = {d \in first .. horizon : PlacedOn(r, pieces, o, d) > 0}
      BY DEF Days
<1>4. SumFunctionOnSet([d \in Int |-> PlacedOn(r, pieces, o, d)],
                       {d \in first .. first + n - 1 : PlacedOn(r, pieces, o, d) > 0})
         = PlacedBy(r, pieces, o, first + n - 1)
  <2> HIDE DEF n
  <2> QED
      BY <1>2, PlacedUpTo
<1> QED
    BY <1>1, <1>2, <1>3, <1>4

\* Appending items leaves the sums of the pieces before them ...
LEMMA OldWafers ==
    ASSUME NEW pieces \in Seq(PlanPiece), NEW more \in Seq(PlanPiece), NEW items, NEW days,
           Continues(more, pieces, items, days), NEW I \in SUBSET DOMAIN pieces
    PROVE  I \subseteq DOMAIN more /\ Wafers(more, I) = Wafers(pieces, I)
<1>1. /\ DOMAIN pieces = 1 .. Len(pieces) /\ DOMAIN more = 1 .. Len(more)
      /\ Len(pieces) \in Nat /\ Len(more) \in Nat /\ Len(more) >= Len(pieces)
      /\ \A i \in 1 .. Len(pieces) : more[i] = pieces[i]
      BY DEF Continues
<1>2. I \subseteq DOMAIN more
      BY <1>1
<1>3. IsFiniteSet(I)
      BY PieceType, FS_Subset
<1> DEFINE f == [i \in DOMAIN more |-> more[i].quantity]
           g == [i \in DOMAIN pieces |-> pieces[i].quantity]
<1>4. \A i \in I : f[i] = g[i]
      BY <1>1, <1>2
<1> HIDE DEF f, g
<1>5. SumFunctionOnSet(f, I) = SumFunctionOnSet(g, I)
      BY <1>3, <1>4, SumCongruent
<1> QED
    BY <1>2, <1>5 DEF Wafers, f, g

\* ... and adds theirs.
LEMMA NewWafers ==
    ASSUME NEW pieces \in Seq(PlanPiece), NEW more \in Seq(PlanPiece), NEW items,
           NEW days \in SUBSET Int, Continues(more, pieces, items, days),
           NEW f, \A d \in days : f[d] \in Nat /\ items[d].quantity = f[d]
    PROVE  Wafers(more, Len(pieces) + 1 .. Len(more)) = SumFunctionOnSet(f, days)
<1> DEFINE new == Len(pieces) + 1 .. Len(more)
           g == [i \in DOMAIN more |-> more[i].quantity]
<1>1. /\ DOMAIN more = 1 .. Len(more) /\ Len(pieces) \in Nat /\ Len(more) \in Nat
      OBVIOUS
<1>2. PICK at \in [new -> days] :
          /\ \A i \in new : more[i] = items[at[i]]
          /\ \A i, k \in new : i < k => at[i] < at[k]
          /\ \A d \in days : \E i \in new : at[i] = d
      BY DEF Continues
<1>3. new \subseteq DOMAIN more /\ new \subseteq Nat
      BY <1>1
<1>8. IsFiniteSet(new)
      BY <1>1, FS_Interval
<1>9. \A i \in DOMAIN more : g[i] = more[i].quantity
      OBVIOUS
<1> HIDE DEF new, g
<1>4. ASSUME NEW i \in new
      PROVE  at[i] \in days /\ g[i] = f[at[i]] /\ g[i] \in Nat
  <2>1. at[i] \in days
        BY <1>2
  <2>2. i \in DOMAIN more /\ more[i] = items[at[i]]
        BY <1>2, <1>3
  <2>3. g[i] = more[i].quantity /\ items[at[i]].quantity = f[at[i]] /\ f[at[i]] \in Nat
        BY <1>9, <2>1, <2>2
  <2> QED
      BY <2>1, <2>2, <2>3
<1>5. \A i, k \in new : at[i] = at[k] => i = k
  <2> SUFFICES ASSUME NEW i \in new, NEW k \in new, i # k
               PROVE  at[i] # at[k]
      OBVIOUS
  <2>1. i < k \/ k < i
        BY <1>3
  <2>2. at[i] < at[k] \/ at[k] < at[i]
        BY <1>2, <2>1
  <2>3. at[i] \in Int /\ at[k] \in Int
        BY <1>4
  <2> QED
      BY <2>2, <2>3
<1>6. Renames(at, g, new, f, days)
      BY <1>2, <1>4, <1>5 DEF Renames
<1>7. SumFunctionOnSet(g, new) = SumFunctionOnSet(f, days)
      BY <1>6, <1>8, SumImage
<1> QED
    BY <1>7 DEF Wafers, g, new

\* The pieces of an order on the days it is given.
LEMMA GivenItems ==
    ASSUME NEW r, IsPlanRequest(r), NEW pieces \in Seq(PlanPiece), NEW o \in DOMAIN r.orders
    PROVE  /\ DaysGiven(r, pieces, o) \in SUBSET Int
           /\ \A d \in DaysGiven(r, pieces, o) :
                 /\ PlacedOn(r, pieces, o, d) \in Nat /\ PlacedOn(r, pieces, o, d) > 0
                 /\ PlacedOn(r, pieces, o, d) <= FreeOn(r, pieces, d)
                 /\ PlacedOn(r, pieces, o, d) <= r.orders[o].quantity
                 /\ PiecesOf(r, pieces, o)[d] =
                      [order |-> o, day |-> d, quantity |-> PlacedOn(r, pieces, o, d),
                       locked |-> r.orders[o].high]
<1>1. DaysGiven(r, pieces, o) \subseteq Days(r, pieces, o)
      BY DEF DaysGiven
<1>2. DaysGiven(r, pieces, o) \in SUBSET Int
      BY <1>1, DaysOfOrder
<1>3. r.orders[o].quantity \in Nat
      BY DEF IsPlanRequest
<1>4. ASSUME NEW d \in DaysGiven(r, pieces, o)
      PROVE  /\ PlacedOn(r, pieces, o, d) \in Nat /\ PlacedOn(r, pieces, o, d) > 0
             /\ PlacedOn(r, pieces, o, d) <= FreeOn(r, pieces, d)
             /\ PlacedOn(r, pieces, o, d) <= r.orders[o].quantity
             /\ PiecesOf(r, pieces, o)[d] =
                  [order |-> o, day |-> d, quantity |-> PlacedOn(r, pieces, o, d),
                   locked |-> r.orders[o].high]
  <2>1. /\ PlacedOn(r, pieces, o, d) \in 1 .. r.orders[o].quantity
        /\ PlacedOn(r, pieces, o, d) <= FreeOn(r, pieces, d)
        BY <1>1, DaysOfOrder
  <2> QED
      BY <1>3, <2>1 DEF PiecesOf
<1> QED
    BY <1>2, <1>4

LEMMA AllDaysGiven ==
    ASSUME NEW r, IsPlanRequest(r), NEW pieces \in Seq(PlanPiece), NEW o \in DOMAIN r.orders,
           ~FinishesLate(r, pieces, o)
    PROVE  DaysGiven(r, pieces, o) = Days(r, pieces, o)
<1>1. /\ FinishDay(r, pieces, o) \in Int /\ r.orders[o].due \in Int
      /\ \A d \in Days(r, pieces, o) : d \in Int /\ d <= FinishDay(r, pieces, o)
      BY DaysOfOrder DEF IsPlanRequest
<1>2. CASE r.allowLate
      BY <1>2 DEF DaysGiven
<1>3. CASE ~r.allowLate
  <2>1. ~(FinishDay(r, pieces, o) > r.orders[o].due)
        BY <1>3 DEF FinishesLate
  <2>2. \A d \in Days(r, pieces, o) : d <= r.orders[o].due
        BY <1>1, <2>1
  <2> QED
      BY <2>2 DEF DaysGiven
<1> QED
    BY <1>2, <1>3

\* The pieces are of the orders in S, none larger than its order, and locked when
\* the order is of high priority.
PiecesAreOf(r, S, pieces) ==
    \A i \in DOMAIN pieces :
        /\ pieces[i].order \in S
        /\ pieces[i].quantity <= r.orders[pieces[i].order].quantity
        /\ pieces[i].locked = r.orders[pieces[i].order].high

\* The pieces of one more order join those of the orders before it.
LEMMA OrderJoins ==
    ASSUME NEW r, IsPlanRequest(r), NEW S \in SUBSET DOMAIN r.orders, NEW o \in S,
           NEW pieces \in Seq(PlanPiece), PiecesAreOf(r, S \ {o}, pieces),
           NEW more \in Seq(PlanPiece),
           Continues(more, pieces, PiecesOf(r, pieces, o), DaysGiven(r, pieces, o))
    PROVE  PiecesAreOf(r, S, more)
<1> DEFINE items == PiecesOf(r, pieces, o)
           days == DaysGiven(r, pieces, o)
<1>1. \A d \in days : /\ items[d].order = o
                      /\ items[d].locked = r.orders[o].high
                      /\ items[d].quantity <= r.orders[o].quantity
  <2> SUFFICES ASSUME NEW d \in days
               PROVE  /\ items[d].order = o
                      /\ items[d].locked = r.orders[o].high
                      /\ items[d].quantity <= r.orders[o].quantity
      OBVIOUS
  <2>1. /\ PlacedOn(r, pieces, o, d) <= r.orders[o].quantity
        /\ items[d] = [order |-> o, day |-> d, quantity |-> PlacedOn(r, pieces, o, d),
                       locked |-> r.orders[o].high]
        BY GivenItems
  <2> HIDE DEF items, days
  <2> QED
      BY <2>1
<1> HIDE DEF items, days
<1>2. ASSUME NEW i \in DOMAIN more
      PROVE  /\ more[i].order \in S
             /\ more[i].quantity <= r.orders[more[i].order].quantity
             /\ more[i].locked = r.orders[more[i].order].high
  <2>1. PICK at \in [Len(pieces) + 1 .. Len(more) -> days] :
            \A k \in Len(pieces) + 1 .. Len(more) : more[k] = items[at[k]]
        BY DEF Continues, items, days
  <2>2. Len(more) \in Nat /\ Len(pieces) \in Nat /\ i \in 1 .. Len(more)
        OBVIOUS
  <2>3. CASE i \in 1 .. Len(pieces)
    <3>1. more[i] = pieces[i] /\ i \in DOMAIN pieces
          BY <2>3 DEF Continues
    <3> QED
        BY <3>1 DEF PiecesAreOf
  <2>4. CASE i \notin 1 .. Len(pieces)
    <3>1. i \in Len(pieces) + 1 .. Len(more)
          BY <2>2, <2>4
    <3>2. more[i] = items[at[i]] /\ at[i] \in days
          BY <2>1, <3>1
    <3> QED
        BY <1>1, <3>2
  <2> QED
      BY <2>3, <2>4
<1> QED
    BY <1>2 DEF PiecesAreOf

\* So it is for a whole plan.
LEMMA PiecesPlanned ==
    ASSUME NEW r, IsPlanRequest(r)
    PROVE  /\ Plan(r) \in Plans(r)
           /\ PiecesAreOf(r, DOMAIN r.orders, Plan(r).allocations)
<1> DEFINE Sound(S, plan) == PiecesAreOf(r, S, plan.allocations)
           T == {p \in (SUBSET DOMAIN r.orders) \X Plans(r) : Sound(p[1], p[2])}
<1>1. <<{}, NothingPlanned>> \in T
  <2>1. NothingPlanned \in Plans(r) /\ NothingPlanned.allocations = <<>>
        BY DEF NothingPlanned, Plans
  <2>2. PiecesAreOf(r, {}, <<>>)
        BY DEF PiecesAreOf
  <2> QED
      BY <2>1, <2>2
<1>2. ASSUME NEW S \in SUBSET DOMAIN r.orders, NEW o \in S, NEW plan \in Plans(r),
             <<S \ {o}, plan>> \in T
      PROVE  <<S, PlanNext(r, o, plan)>> \in T
  <2> DEFINE pieces == plan.allocations
             more == PlanNext(r, o, plan).allocations
  <2>1. PiecesAreOf(r, S \ {o}, pieces) /\ pieces \in Seq(PlanPiece)
        BY <1>2 DEF Plans
  <2>2. PlanNext(r, o, plan) \in Plans(r)
        /\ Continues(more, pieces, PiecesOf(r, pieces, o), DaysGiven(r, pieces, o))
        BY OrderPlanned
  <2>3. more \in Seq(PlanPiece)
        BY <2>2 DEF Plans
  <2>4. PiecesAreOf(r, S, more)
        BY <1>2, <2>1, <2>2, <2>3, OrderJoins
  <2> QED
      BY <2>2, <2>4
<1> HIDE DEF T
<1>3. <<DOMAIN r.orders, Plan(r)>> \in T /\ Plan(r) \in Plans(r)
      BY <1>1, <1>2, PlanInduction
<1> QED
    BY <1>3 DEF T

\* Wafers of some items before and of some after.
LEMMA WafersJoin ==
    ASSUME NEW pieces \in Seq(PlanPiece), NEW more \in Seq(PlanPiece), NEW items, NEW days,
           Continues(more, pieces, items, days),
           NEW A \in SUBSET DOMAIN pieces, NEW B \in SUBSET (Len(pieces) + 1 .. Len(more)),
           NEW C, C = A \cup B
    PROVE  Wafers(more, C) = Wafers(pieces, A) + Wafers(more, B)
<1> DEFINE f == [i \in DOMAIN more |-> more[i].quantity]
<1>1. /\ DOMAIN pieces = 1 .. Len(pieces) /\ DOMAIN more = 1 .. Len(more)
      /\ Len(pieces) \in Nat /\ Len(more) \in Nat /\ Len(more) >= Len(pieces)
      BY DEF Continues
<1>2. A \subseteq DOMAIN more /\ Wafers(more, A) = Wafers(pieces, A)
      BY OldWafers
<1>3. B \subseteq DOMAIN more /\ A \cap B = {}
      BY <1>1
<1>4. IsFiniteSet(A) /\ IsFiniteSet(B)
      BY <1>2, <1>3, PieceType, FS_Subset
<1>5. \A x \in A \cup B : f[x] \in Nat
  <2> SUFFICES ASSUME NEW x \in A \cup B PROVE f[x] \in Nat
      OBVIOUS
  <2>1. x \in DOMAIN more
        BY <1>2, <1>3
  <2>2. more[x].quantity \in Nat
        BY <2>1, PieceType
  <2> QED
      BY <2>1, <2>2
<1> HIDE DEF f
<1>6. SumFunctionOnSet(f, C) = SumFunctionOnSet(f, A) + SumFunctionOnSet(f, B)
      BY <1>3, <1>4, <1>5, SumUnion
<1> QED
    BY <1>2, <1>6 DEF Wafers, f

\* Nothing is left of the orders in S: their pieces have all their wafers.
PiecesComplete(r, S, pieces) ==
    \A o \in S : Wafers(pieces, {i \in DOMAIN pieces : pieces[i].order = o})
                    = r.orders[o].quantity

\* A plan that leaves no order late places every wafer.
LEMMA PlanComplete ==
    ASSUME NEW r, IsPlanRequest(r), NobodyLate(Plan(r).conflicts)
    PROVE  PiecesComplete(r, DOMAIN r.orders, Plan(r).allocations)
<1> DEFINE Sound(S, plan) ==
              /\ PiecesAreOf(r, S, plan.allocations)
              /\ NobodyLate(plan.conflicts) => PiecesComplete(r, S, plan.allocations)
           T == {p \in (SUBSET DOMAIN r.orders) \X Plans(r) : Sound(p[1], p[2])}
<1>1. <<{}, NothingPlanned>> \in T
  <2>1. NothingPlanned \in Plans(r) /\ NothingPlanned.allocations = <<>>
        BY DEF NothingPlanned, Plans
  <2>2. PiecesAreOf(r, {}, <<>>) /\ PiecesComplete(r, {}, <<>>)
        BY DEF PiecesAreOf, PiecesComplete
  <2> QED
      BY <2>1, <2>2
<1>2. ASSUME NEW S \in SUBSET DOMAIN r.orders, NEW o \in S, NEW plan \in Plans(r),
             <<S \ {o}, plan>> \in T
      PROVE  <<S, PlanNext(r, o, plan)>> \in T
  <2> DEFINE pieces == plan.allocations
             more == PlanNext(r, o, plan).allocations
             items == PiecesOf(r, pieces, o)
             days == DaysGiven(r, pieces, o)
             f == [d \in Int |-> PlacedOn(r, pieces, o, d)]
  <2>1. PiecesAreOf(r, S \ {o}, pieces) /\ pieces \in Seq(PlanPiece)
        /\ (NobodyLate(plan.conflicts) => PiecesComplete(r, S \ {o}, pieces))
        BY <1>2 DEF Plans
  <2>2. /\ PlanNext(r, o, plan) \in Plans(r) /\ Continues(more, pieces, items, days)
        /\ NobodyLate(PlanNext(r, o, plan).conflicts) =>
              NobodyLate(plan.conflicts) /\ ~FinishesLate(r, pieces, o)
        BY OrderPlanned
  <2>3. more \in Seq(PlanPiece)
        BY <2>2 DEF Plans
  <2>4. PiecesAreOf(r, S, more)
        BY <1>2, <2>1, <2>2, <2>3, OrderJoins
  <2>5. /\ days \in SUBSET Int
        /\ \A d \in days : /\ items[d].order = o /\ f[d] \in Nat
                           /\ items[d].quantity = f[d]
    <3>1. days \in SUBSET Int
          BY <2>1, GivenItems
    <3>2. ASSUME NEW d \in days
          PROVE  /\ items[d].order = o /\ f[d] \in Nat
                 /\ items[d].quantity = f[d]
      <4>1. /\ PlacedOn(r, pieces, o, d) \in Nat
            /\ items[d] = [order |-> o, day |-> d, quantity |-> PlacedOn(r, pieces, o, d),
                           locked |-> r.orders[o].high]
            BY <2>1, GivenItems
      <4>2. d \in Int
            BY <3>1
      <4> HIDE DEF items, days, pieces
      <4> QED
          BY <4>1, <4>2
    <3> QED
        BY <3>1, <3>2
  <2>6. \A i \in Len(pieces) + 1 .. Len(more) : more[i].order = o
    <3>1. \A d \in days : items[d].order = o
          BY <2>5
    <3> HIDE DEF more, items, days, pieces
    <3> QED
        BY <2>2, <3>1 DEF Continues
  <2>7. /\ DOMAIN pieces = 1 .. Len(pieces) /\ DOMAIN more = 1 .. Len(more)
        /\ Len(pieces) \in Nat /\ Len(more) \in Nat /\ Len(more) >= Len(pieces)
        /\ \A i \in DOMAIN pieces : more[i] = pieces[i]
    <3> HIDE DEF more, items, days, pieces
    <3> QED
        BY <2>1, <2>2, <2>3 DEF Continues
  <2>8. ASSUME NobodyLate(PlanNext(r, o, plan).conflicts)
        PROVE  PiecesComplete(r, S, more)
    <3> SUFFICES ASSUME NEW p \in S
                 PROVE  Wafers(more, {i \in DOMAIN more : more[i].order = p})
                           = r.orders[p].quantity
        BY DEF PiecesComplete
    <3>1. CASE p = o
      <4>1. days = Days(r, pieces, o)
            BY <2>1, <2>2, <2>8, AllDaysGiven
      <4>2. SumFunctionOnSet(f, Days(r, pieces, o)) = r.orders[o].quantity
            BY <2>1, AllPlaced
      <4>3. {i \in DOMAIN more : more[i].order = p} = Len(pieces) + 1 .. Len(more)
        <5>1. \A i \in DOMAIN pieces : pieces[i].order # o
              BY <2>1 DEF PiecesAreOf
        <5> HIDE DEF more, pieces
        <5> QED
            BY <2>6, <2>7, <3>1, <5>1
      <4> HIDE DEF more, items, days, pieces, f
      <4>4. Wafers(more, Len(pieces) + 1 .. Len(more)) = SumFunctionOnSet(f, days)
            BY <2>1, <2>2, <2>3, <2>5, NewWafers
      <4> QED
          BY <3>1, <4>1, <4>2, <4>3, <4>4 DEF f, pieces
    <3>2. CASE p # o
      <4> DEFINE A == {i \in DOMAIN pieces : pieces[i].order = p}
      <4>1. {i \in DOMAIN more : more[i].order = p} = A
        <5> HIDE DEF more, pieces
        <5> QED
            BY <2>6, <2>7, <3>2
      <4>2. Wafers(pieces, A) = r.orders[p].quantity
            BY <2>1, <2>2, <2>8, <3>2 DEF PiecesComplete
      <4>3. A \in SUBSET DOMAIN pieces
            OBVIOUS
      <4> HIDE DEF more, items, days, pieces, A
      <4>4. Wafers(more, A) = Wafers(pieces, A)
            BY <2>1, <2>2, <2>3, <4>3, OldWafers
      <4> QED
          BY <4>1, <4>2, <4>4
    <3> QED
        BY <3>1, <3>2
  <2> QED
      BY <2>2, <2>4, <2>8 DEF more
<1> HIDE DEF T
<1>3. <<DOMAIN r.orders, Plan(r)>> \in T
      BY <1>1, <1>2, PlanInduction
<1> QED
    BY <1>3 DEF T

\* A day with a piece on it has no more than the line can make.
PiecesHaveRoom(r, pieces) ==
    \A i \in DOMAIN pieces : UsedOn(r, pieces, pieces[i].day) <= r.capacity

OnDay(pieces, d) == {i \in DOMAIN pieces : pieces[i].day = d}

\* What one more order changes on a day.
LEMMA OrderUses ==
    ASSUME NEW r, IsPlanRequest(r), NEW o \in DOMAIN r.orders,
           NEW pieces \in Seq(PlanPiece), NEW more \in Seq(PlanPiece),
           Continues(more, pieces, PiecesOf(r, pieces, o), DaysGiven(r, pieces, o)),
           NEW d \in Int
    PROVE  /\ d \in DaysGiven(r, pieces, o) =>
                 UsedOn(r, more, d) = UsedOn(r, pieces, d) + PlacedOn(r, pieces, o, d)
           /\ d \notin DaysGiven(r, pieces, o) =>
                 /\ UsedOn(r, more, d) = UsedOn(r, pieces, d)
                 /\ \A i \in DOMAIN more : more[i].day = d =>
                       i \in DOMAIN pieces /\ pieces[i].day = d
<1> DEFINE items == PiecesOf(r, pieces, o)
           days == DaysGiven(r, pieces, o)
           new == Len(pieces) + 1 .. Len(more)
           A == OnDay(pieces, d)
           B == {i \in new : more[i].day = d}
           old == IF r.manualForce THEN 0 ELSE Wafers(r.existing, ExistingOn(r, d))
           placed == PlacedOn(r, pieces, o, d)
<1>1. /\ days \in SUBSET Int
      /\ \A x \in days : items[x].day = x
      /\ d \in days => placed \in Nat /\ items[d].quantity = placed
  <2>1. days \in SUBSET Int
        BY GivenItems
  <2>2. ASSUME NEW x \in days
        PROVE  /\ PlacedOn(r, pieces, o, x) \in Nat
               /\ items[x].day = x /\ items[x].quantity = PlacedOn(r, pieces, o, x)
    <3>1. /\ PlacedOn(r, pieces, o, x) \in Nat
          /\ items[x] = [order |-> o, day |-> x, quantity |-> PlacedOn(r, pieces, o, x),
                         locked |-> r.orders[o].high]
          BY GivenItems
    <3> HIDE DEF items, days
    <3> QED
        BY <3>1
  <2>3. \A x \in days : items[x].day = x
        BY <2>2
  <2>4. d \in days => placed \in Nat /\ items[d].quantity = placed
        BY <2>2
  <2> QED
      BY <2>1, <2>3, <2>4
<1>2. Continues(more, pieces, items, days)
      OBVIOUS
<1>3. /\ DOMAIN pieces = 1 .. Len(pieces) /\ DOMAIN more = 1 .. Len(more)
      /\ Len(pieces) \in Nat /\ Len(more) \in Nat /\ Len(more) >= Len(pieces)
      /\ \A i \in DOMAIN pieces : more[i] = pieces[i]
      BY DEF Continues
<1>4. UsedOn(r, pieces, d) = Wafers(pieces, A) + old /\ UsedOn(r, pieces, d) \in Nat
      BY UsedType DEF UsedOn, OnDay
<1>5. UsedOn(r, more, d) = Wafers(more, OnDay(more, d)) + old
      BY DEF UsedOn, OnDay
<1>6. A \in SUBSET DOMAIN pieces /\ B \in SUBSET new
      BY DEF OnDay
<1>7. OnDay(more, d) = A \cup B
  <2>1. DOMAIN more = DOMAIN pieces \cup new
        BY <1>3
  <2> HIDE DEF new
  <2> QED
      BY <1>3, <2>1 DEF OnDay
<1>8. PICK at \in [new -> days] :
          /\ \A i \in new : more[i] = items[at[i]]
          /\ \A i, k \in new : i < k => at[i] < at[k]
          /\ \A x \in days : \E i \in new : at[i] = x
      BY <1>2 DEF Continues
<1>9. \A i \in new : at[i] \in days /\ more[i].day = at[i]
      BY <1>1, <1>8
<1>10. Wafers(pieces, A) \in Nat /\ old \in Nat
  <2>1. IsFiniteSet(A)
        BY <1>6, PieceType, FS_Subset
  <2>2. \A i \in A : pieces[i].quantity \in Nat
        BY <1>6, PieceType
  <2>3. Wafers(pieces, A) \in Nat
        BY <1>6, <2>1, <2>2, WafersType
  <2>4. IsFiniteSet(ExistingOn(r, d)) /\ ExistingOn(r, d) \subseteq DOMAIN r.existing
        BY FS_Subset DEF ExistingOn, ExistingOfLine, IsPlanRequest
  <2>5. Wafers(r.existing, ExistingOn(r, d)) \in Nat
        BY <2>4, WafersType DEF IsPlanRequest
  <2> QED
      BY <2>3, <2>5
<1> HIDE DEF items, days, new, old, placed, A
<1>11. Wafers(more, OnDay(more, d)) = Wafers(pieces, A) + Wafers(more, B)
  <2> HIDE DEF B
  <2> QED
      BY <1>2, <1>6, <1>7, WafersJoin DEF new
<1>12. CASE d \in days
  <2>1. PICK k \in new : at[k] = d
        BY <1>8, <1>12
  <2>2. B = {k}
    <3>1. \A i \in new : at[i] = d => i = k
      <4> SUFFICES ASSUME NEW i \in new, i # k
                   PROVE  at[i] # at[k]
          BY <2>1
      <4>1. i < k \/ k < i
            BY DEF new
      <4>2. at[i] < at[k] \/ at[k] < at[i]
            BY <1>8, <4>1
      <4>3. at[i] \in Int /\ at[k] \in Int
            BY <1>1, <1>9
      <4> QED
          BY <4>2, <4>3
    <3> QED
        BY <1>9, <2>1, <3>1
  <2>3. k \in DOMAIN more /\ more[k].quantity = placed
    <3>1. k \in DOMAIN more
          BY <1>3 DEF new
    <3> QED
        BY <1>1, <1>8, <1>12, <2>1, <3>1
  <2>4. Wafers(more, {k}) = placed
        BY <1>1, <1>12, <2>3, OneWafers
  <2>5. Wafers(more, B) = placed
        BY <2>2, <2>4
  <2> HIDE DEF B
  <2>6. UsedOn(r, more, d) = UsedOn(r, pieces, d) + placed
        BY <1>1, <1>4, <1>5, <1>10, <1>11, <1>12, <2>5
  <2> QED
      BY <1>12, <2>6 DEF days, placed
<1>13. CASE d \notin days
  <2>1. B = {}
        BY <1>9, <1>13
  <2>2. Wafers(more, B) = 0
        BY <2>1, NoWafers
  <2>3. \A i \in DOMAIN more : more[i].day = d => i \in DOMAIN pieces /\ pieces[i].day = d
    <3>1. \A i \in OnDay(more, d) : i \in A
          BY <1>7, <2>1
    <3> QED
        BY <3>1 DEF OnDay, A
  <2> QED
      BY <1>4, <1>5, <1>10, <1>11, <1>13, <2>2, <2>3 DEF days
<1> QED
    BY <1>12, <1>13

\* A plan gives no day more than what is free on it.
LEMMA PlanHasRoom ==
    ASSUME NEW r, IsPlanRequest(r)
    PROVE  PiecesHaveRoom(r, Plan(r).allocations)
<1> DEFINE Sound(plan) == PiecesHaveRoom(r, plan.allocations)
           T == {p \in (SUBSET DOMAIN r.orders) \X Plans(r) : Sound(p[2])}
<1>1. <<{}, NothingPlanned>> \in T
  <2>1. NothingPlanned \in Plans(r) /\ NothingPlanned.allocations = <<>>
        BY DEF NothingPlanned, Plans
  <2>2. PiecesHaveRoom(r, <<>>)
        BY DEF PiecesHaveRoom
  <2> QED
      BY <2>1, <2>2
<1>2. ASSUME NEW S \in SUBSET DOMAIN r.orders, NEW o \in S, NEW plan \in Plans(r),
             <<S \ {o}, plan>> \in T
      PROVE  <<S, PlanNext(r, o, plan)>> \in T
  <2> DEFINE pieces == plan.allocations
             more == PlanNext(r, o, plan).allocations
  <2>1. PiecesHaveRoom(r, pieces) /\ pieces \in Seq(PlanPiece)
        BY <1>2 DEF Plans
  <2>2. PlanNext(r, o, plan) \in Plans(r)
        /\ Continues(more, pieces, PiecesOf(r, pieces, o), DaysGiven(r, pieces, o))
        BY OrderPlanned
  <2>3. more \in Seq(PlanPiece)
        BY <2>2 DEF Plans
  <2> HIDE DEF more, pieces
  <2>4. ASSUME NEW i \in DOMAIN more
        PROVE  UsedOn(r, more, more[i].day) <= r.capacity
    <3> DEFINE d == more[i].day
    <3>1. d \in Int
          BY <2>3, PieceType
    <3> HIDE DEF d
    <3>2. CASE d \in DaysGiven(r, pieces, o)
      <4>1. UsedOn(r, more, d) = UsedOn(r, pieces, d) + PlacedOn(r, pieces, o, d)
            BY <2>1, <2>2, <2>3, <3>1, <3>2, OrderUses
      <4>2. /\ PlacedOn(r, pieces, o, d) \in Nat /\ PlacedOn(r, pieces, o, d) > 0
            /\ PlacedOn(r, pieces, o, d) <= FreeOn(r, pieces, d)
            BY <2>1, <3>2, GivenItems
      <4>3. UsedOn(r, pieces, d) \in Nat /\ r.capacity \in Nat
            BY <2>1, UsedType DEF IsPlanRequest
      <4> QED
          BY <4>1, <4>2, <4>3 DEF d, FreeOn, Greater
    <3>3. CASE d \notin DaysGiven(r, pieces, o)
      <4>1. /\ UsedOn(r, more, d) = UsedOn(r, pieces, d)
            /\ i \in DOMAIN pieces /\ pieces[i].day = d
            BY <2>1, <2>2, <2>3, <3>1, <3>3, OrderUses DEF d
      <4> QED
          BY <2>1, <4>1 DEF d, PiecesHaveRoom
    <3> QED
        BY <3>2, <3>3
  <2>5. PiecesHaveRoom(r, more)
        BY <2>4 DEF PiecesHaveRoom
  <2> QED
      BY <2>2, <2>5 DEF more
<1> HIDE DEF T
<1>3. <<DOMAIN r.orders, Plan(r)>> \in T
      BY <1>1, <1>2, PlanInduction
<1> QED
    BY <1>3 DEF T

(***************************************************************************)
(* Lists and days, for an order that is planned a day at a time            *)
(***************************************************************************)
\* Two lists that continue the same one with the same items are the same.
LEMMA SameContinuation ==
    ASSUME NEW X, NEW l \in Seq(X), NEW Y, NEW m \in Seq(Y), NEW Z, NEW list \in Seq(Z),
           NEW items, NEW S \in SUBSET Int,
           Continues(l, list, items, S), Continues(m, list, items, S)
    PROVE  l = m
<1> DEFINE n == Len(list)
           I == n + 1 .. Len(l)
           J == n + 1 .. Len(m)
<1>1. /\ n \in Nat /\ Len(l) \in Nat /\ Len(m) \in Nat /\ Len(l) >= n /\ Len(m) >= n
      /\ DOMAIN l = 1 .. Len(l) /\ DOMAIN m = 1 .. Len(m)
      /\ \A i \in 1 .. n : l[i] = list[i] /\ m[i] = list[i]
      BY DEF Continues
<1>2. PICK a \in [I -> S] :
         /\ \A i \in I : l[i] = items[a[i]]
         /\ \A i, k \in I : i < k => a[i] < a[k]
         /\ \A x \in S : \E i \in I : a[i] = x
      BY DEF Continues
<1>3. PICK b \in [J -> S] :
         /\ \A i \in J : m[i] = items[b[i]]
         /\ \A i, k \in J : i < k => b[i] < b[k]
         /\ \A x \in S : \E i \in J : b[i] = x
      BY DEF Continues
<1>4. /\ \A i \in I : a[i] \in S /\ a[i] \in Int
      /\ \A i \in J : b[i] \in S /\ b[i] \in Int
      OBVIOUS
<1>5. ASSUME NEW i \in I \cap J, \A k \in I \cap J : k < i => a[k] = b[k]
      PROVE  a[i] = b[i]
  <2>1. b[i] <= a[i]
    <3>1. PICK k \in J : b[k] = a[i]
          BY <1>3, <1>4
    <3>2. ~(k < i)
      <4> SUFFICES ASSUME k < i PROVE FALSE
          OBVIOUS
      <4>1. k \in I \cap J
            BY <1>1
      <4>2. a[k] = a[i] /\ a[k] < a[i]
            BY <1>2, <1>5, <3>1, <4>1
      <4> QED
          BY <1>4, <4>1, <4>2
    <3>3. k = i \/ b[i] < b[k]
          BY <1>1, <1>3, <3>2
    <3> QED
        BY <1>4, <3>1, <3>3
  <2>2. a[i] <= b[i]
    <3>1. PICK k \in I : a[k] = b[i]
          BY <1>2, <1>4
    <3>2. ~(k < i)
      <4> SUFFICES ASSUME k < i PROVE FALSE
          OBVIOUS
      <4>1. k \in I \cap J
            BY <1>1
      <4>2. b[k] = b[i] /\ b[k] < b[i]
            BY <1>3, <1>5, <3>1, <4>1
      <4> QED
          BY <1>4, <4>1, <4>2
    <3>3. k = i \/ a[i] < a[k]
          BY <1>1, <1>2, <3>2
    <3> QED
        BY <1>4, <3>1, <3>3
  <2> QED
      BY <1>4, <2>1, <2>2
<1> DEFINE T == {i \in I \cap J : a[i] # b[i]}
<1>6. T = {}
  <2> SUFFICES ASSUME T # {} PROVE FALSE
      OBVIOUS
  <2>1. T \subseteq Nat
        BY <1>1
  <2>2. PICK i \in T : \A k \in T : i <= k
    <3> HIDE DEF T
    <3> QED
        BY <2>1, LeastNumber
  <2>3. \A k \in I \cap J : k < i => a[k] = b[k]
    <3>1. \A k \in I \cap J : k \in Nat /\ i \in Nat
          BY <1>1
    <3> QED
        BY <2>2, <3>1
  <2> QED
      BY <1>5, <2>3
<1>7. \A i \in I \cap J : a[i] = b[i]
      BY <1>6
<1>8. Len(l) = Len(m)
  <2>1. ~(Len(l) < Len(m))
    <3> SUFFICES ASSUME Len(l) < Len(m) PROVE FALSE
        OBVIOUS
    <3> DEFINE j == Len(l) + 1
    <3>1. j \in J
          BY <1>1
    <3>2. PICK i \in I : a[i] = b[j]
          BY <1>2, <1>4, <3>1
    <3>3. i \in I \cap J /\ i < j
          BY <1>1
    <3>4. b[i] = b[j] /\ b[i] < b[j]
          BY <1>3, <1>7, <3>1, <3>2, <3>3
    <3> QED
        BY <1>4, <3>1, <3>4
  <2>2. ~(Len(m) < Len(l))
    <3> SUFFICES ASSUME Len(m) < Len(l) PROVE FALSE
        OBVIOUS
    <3> DEFINE j == Len(m) + 1
    <3>1. j \in I
          BY <1>1
    <3>2. PICK i \in J : b[i] = a[j]
          BY <1>3, <1>4, <3>1
    <3>3. i \in I \cap J /\ i < j
          BY <1>1
    <3>4. a[i] = a[j] /\ a[i] < a[j]
          BY <1>2, <1>7, <3>1, <3>2, <3>3
    <3> QED
        BY <1>4, <3>1, <3>4
  <2>3. Len(l) \in Int /\ Len(m) \in Int
        BY <1>1
  <2> HIDE DEF I, J
  <2> QED
      BY <2>1, <2>2, <2>3
<1>9. \A i \in 1 .. Len(l) : l[i] = m[i]
  <2> SUFFICES ASSUME NEW i \in 1 .. Len(l) PROVE l[i] = m[i]
      OBVIOUS
  <2>1. CASE i <= n
        BY <1>1, <2>1
  <2>2. CASE i > n
    <3>1. i \in I \cap J
          BY <1>1, <1>8, <2>2
    <3> QED
        BY <1>2, <1>3, <1>7, <3>1
  <2> QED
      BY <1>1, <2>1, <2>2
<1>10. l \in [1 .. Len(l) -> X] /\ m \in [1 .. Len(m) -> Y]
       OBVIOUS
<1> QED
    BY <1>8, <1>9, <1>10

\* The same lists without a new item.
LEMMA ContinuesItself ==
    ASSUME NEW X, NEW list \in Seq(X), NEW items
    PROVE  Continues(list, list, items, {})
<1> DEFINE at == [x \in {} |-> x]
<1>1. Len(list) \in Nat /\ Len(list) + 1 .. Len(list) = {}
      OBVIOUS
<1>2. at \in [Len(list) + 1 .. Len(list) -> {}]
      BY <1>1
<1> HIDE DEF at
<1> QED
    BY <1>1, <1>2 DEF Continues

\* The free wafers up to a later day are no fewer.
LEMMA FreeGrowsOn ==
    ASSUME NEW r, IsPlanRequest(r), NEW pieces \in Seq(PlanPiece),
           NEW d \in Int, NEW e \in Int, d <= e
    PROVE  FreeFromStart(r, pieces, d) <= FreeFromStart(r, pieces, e)
<1> DEFINE f == [x \in StartDay(r) .. d |-> FreeOn(r, pieces, x)]
           g == [x \in StartDay(r) .. e |-> FreeOn(r, pieces, x)]
           D == StartDay(r) .. d
           E == StartDay(r) .. e
<1>1. StartDay(r) \in Int
      BY FreeFromStartNext
<1>2. IsFiniteSet(D) /\ IsFiniteSet(E) /\ D \in SUBSET E
      BY <1>1, FS_Interval
<1>3. \A x \in E : g[x] \in Nat
      BY FreeType
<1>4. \A x \in D : f[x] = g[x]
      BY <1>2
<1> HIDE DEF f, g, D, E
<1>5. SumFunctionOnSet(f, D) = SumFunctionOnSet(g, D)
      BY <1>2, <1>4, SumCongruent
<1>6. SumFunctionOnSet(g, D) <= SumFunctionOnSet(g, E)
      BY <1>2, <1>3, SumSubset
<1> QED
    BY <1>5, <1>6 DEF FreeFromStart, f, g, D, E

\* How much of an order is placed by a day, in terms of what is free until then.
LEMMA PlacedIsFree ==
    ASSUME NEW r, NEW pieces, NEW o, NEW d
    PROVE  PlacedBy(r, pieces, o, d)
              = Lesser(r.orders[o].quantity, FreeFromStart(r, pieces, d))
BY DEF PlacedBy, FreeFromStart

\* ... and never falls.
LEMMA PlacedMonotone ==
    ASSUME NEW r, IsPlanRequest(r), NEW pieces \in Seq(PlanPiece), NEW o \in DOMAIN r.orders,
           NEW d \in Int, NEW e \in Int, d <= e
    PROVE  /\ PlacedBy(r, pieces, o, d) \in Nat /\ PlacedBy(r, pieces, o, e) \in Nat
           /\ PlacedBy(r, pieces, o, d) <= PlacedBy(r, pieces, o, e)
           /\ PlacedBy(r, pieces, o, e) <= r.orders[o].quantity
           /\ r.orders[o].quantity \in Nat
<1>1. FreeFromStart(r, pieces, d) \in Nat /\ FreeFromStart(r, pieces, e) \in Nat
      BY FreeFromStartNext
<1>2. r.orders[o].quantity \in Nat
      BY DEF IsPlanRequest
<1> QED
    BY <1>1, <1>2, FreeGrowsOn, PlacedIsFree DEF Lesser

\* The next day takes what is left of the order or what is free on it.
LEMMA NextDayTakes ==
    ASSUME NEW r, IsPlanRequest(r), NEW pieces \in Seq(PlanPiece), NEW o \in DOMAIN r.orders,
           NEW last \in Int, last >= StartDay(r) - 1,
           NEW left, left = r.orders[o].quantity - PlacedBy(r, pieces, o, last), left > 0
    PROVE  /\ left \in Nat /\ FreeOn(r, pieces, last + 1) \in Nat
           /\ PlacedOn(r, pieces, o, last + 1) = Lesser(left, FreeOn(r, pieces, last + 1))
           /\ PlacedBy(r, pieces, o, last + 1)
                 = PlacedBy(r, pieces, o, last) + PlacedOn(r, pieces, o, last + 1)
<1> DEFINE q == r.orders[o].quantity
           f == FreeFromStart(r, pieces, last)
           g == FreeFromStart(r, pieces, last + 1)
           n == FreeOn(r, pieces, last + 1)
           p == PlacedBy(r, pieces, o, last)
           s == PlacedBy(r, pieces, o, last + 1)
<1>1. /\ f \in Nat /\ g = f + n /\ (last + 1) - 1 = last
  <2>1. f \in Nat /\ StartDay(r) \in Int
        BY FreeFromStartNext
  <2>2. last + 1 \in Int /\ last + 1 >= StartDay(r) /\ (last + 1) - 1 = last
        BY <2>1
  <2>3. g = FreeFromStart(r, pieces, (last + 1) - 1) + n
        BY <2>2, FreeFromStartNext
  <2> QED
      BY <2>1, <2>2, <2>3
<1>2. q \in Nat /\ n \in Nat
      BY FreeType DEF IsPlanRequest
<1>3. p = Lesser(q, f) /\ s = Lesser(q, g)
      BY PlacedIsFree
<1>4. PlacedOn(r, pieces, o, last + 1) = s - p
      BY <1>1 DEF PlacedOn
<1> HIDE DEF q, f, g, n, p, s
<1>5. left = q - p
      BY DEF q, p
<1>6. p = f /\ p < q
      BY <1>1, <1>2, <1>3, <1>5 DEF Lesser
<1>7. /\ left \in Nat /\ s - p = Lesser(left, n) /\ s = p + (s - p)
      BY <1>1, <1>2, <1>3, <1>5, <1>6 DEF Lesser
<1> QED
    BY <1>2, <1>4, <1>7 DEF n, p, s

\* A day that takes something is given to the order, when it may use it.
LEMMA GivenDay ==
    ASSUME NEW r, IsPlanRequest(r), NEW pieces \in Seq(PlanPiece), NEW o \in DOMAIN r.orders,
           NEW d \in Int
    PROVE  d \in DaysGiven(r, pieces, o) <=>
              /\ d >= StartDay(r) /\ PlacedOn(r, pieces, o, d) > 0
              /\ r.allowLate \/ d <= r.orders[o].due
<1> DEFINE h == Horizon(r, pieces, o)
<1>1. StartDay(r) \in Int /\ h \in Int /\ PlacedBy(r, pieces, o, h) = r.orders[o].quantity
      BY FreeFromStartNext, PlacedGrows
<1>2. ASSUME PlacedOn(r, pieces, o, d) > 0, d > h
      PROVE  FALSE
  <2> HIDE DEF h
  <2>1. /\ PlacedBy(r, pieces, o, h) <= PlacedBy(r, pieces, o, d - 1)
        /\ PlacedBy(r, pieces, o, d - 1) \in Nat
        BY <1>1, <1>2, PlacedMonotone
  <2>2. /\ PlacedBy(r, pieces, o, d) \in Nat
        /\ PlacedBy(r, pieces, o, d) <= r.orders[o].quantity
        /\ r.orders[o].quantity \in Nat
        BY PlacedMonotone
  <2> QED
      BY <1>1, <1>2, <2>1, <2>2 DEF PlacedOn
<1> QED
    BY <1>1, <1>2 DEF DaysGiven, Days

(***************************************************************************)
(* An order that is planned a day at a time                                *)
(***************************************************************************)
DaysTo(r, pieces, o, last) == {d \in DaysGiven(r, pieces, o) : d <= last}

SharedDays(r, days) == {d \in days : r.manualForce /\ OrdersAffected(r, d) # {}}

\* After plan, an order was planned up to a day: list and notes are the pieces and
\* the conflicts so far, left is what has no day yet.
PlannedTo(r, plan, o, last, list, notes, left) ==
    LET pieces == plan.allocations
        days == DaysTo(r, pieces, o, last)
    IN  /\ last \in Int /\ last >= StartDay(r) - 1
        /\ \A d \in StartDay(r) .. last : r.allowLate \/ d <= r.orders[o].due
        /\ left = r.orders[o].quantity - PlacedBy(r, pieces, o, last)
        /\ list \in Seq(PlanPiece) /\ notes \in Seq(PlanConflict(r))
        /\ Continues(list, pieces, PiecesOf(r, pieces, o), days)
        /\ Continues(notes, plan.conflicts, ReviewsOf(r, pieces, o), SharedDays(r, days))

\* What an order adds to a plan has the types of its parts.
LEMMA OrderItems ==
    ASSUME NEW r, IsPlanRequest(r), NEW pieces \in Seq(PlanPiece), NEW o \in DOMAIN r.orders
    PROVE  /\ IsFiniteSet(DaysGiven(r, pieces, o)) /\ DaysGiven(r, pieces, o) \in SUBSET Int
           /\ PiecesOf(r, pieces, o) \in [DaysGiven(r, pieces, o) -> PlanPiece]
           /\ ReviewsOf(r, pieces, o)
                \in [SharedDays(r, DaysGiven(r, pieces, o)) -> PlanConflict(r)]
           /\ LatenessOf(r, pieces, o) \in PlanConflict(r)
<1> DEFINE days == DaysGiven(r, pieces, o)
           others == {r.existing[k].order : k \in DOMAIN r.existing}
<1>1. o \in Nat /\ r.orders[o].high \in BOOLEAN /\ r.orders[o].quantity \in Nat \ {0}
      BY DEF IsPlanRequest
<1>2. /\ days \in SUBSET Int
      /\ \A d \in days : PlacedOn(r, pieces, o, d) \in Nat \ {0}
  <2>1. /\ days \in SUBSET Int
        /\ \A d \in days : PlacedOn(r, pieces, o, d) \in Nat /\ PlacedOn(r, pieces, o, d) > 0
        BY GivenItems
  <2> HIDE DEF days
  <2> QED
      BY <2>1
<1>3. IsFiniteSet(days)
  <2>1. IsFiniteSet(Days(r, pieces, o)) /\ days \subseteq Days(r, pieces, o)
        BY DaysOfOrder DEF DaysGiven
  <2> QED
      BY <2>1, FS_Subset
<1>4. PiecesOf(r, pieces, o) \in [days -> PlanPiece]
  <2>1. \A d \in days : [order |-> o, day |-> d, quantity |-> PlacedOn(r, pieces, o, d),
                         locked |-> r.orders[o].high] \in PlanPiece
        BY <1>1, <1>2 DEF PlanPiece
  <2> QED
      BY <2>1 DEF PiecesOf
<1>5. \A d : OrdersAffected(r, d) \in SUBSET others /\ OrdersToMove(r, d) \in SUBSET others
      BY DEF OrdersAffected, OrdersToMove, ExistingOn, ExistingOfLine
<1>6. ReviewsOf(r, pieces, o) \in [SharedDays(r, days) -> PlanConflict(r)]
  <2>1. \A d \in SharedDays(r, days) :
           [order |-> o, reason |-> "review", earliestFinish |-> d,
            affected |-> OrdersAffected(r, d)] \in PlanConflict(r)
        BY <1>1, <1>2, <1>5 DEF PlanConflict, SharedDays
  <2> QED
      BY <2>1 DEF ReviewsOf, SharedDays
<1>7. LatenessOf(r, pieces, o) \in PlanConflict(r)
  <2>1. FinishDay(r, pieces, o) \in Int
        BY DaysOfOrder
  <2>2. UNION {OrdersToMove(r, d) :
            d \in StartDay(r) .. Greater(FinishDay(r, pieces, o), r.orders[o].due)}
           \in SUBSET others
        BY <1>5
  <2> QED
      BY <1>1, <2>1, <2>2 DEF PlanConflict, LatenessOf
<1> QED
    BY <1>2, <1>3, <1>4, <1>6, <1>7

\* Before its first day an order has nothing.
LEMMA PlannedNothing ==
    ASSUME NEW r, IsPlanRequest(r), NEW plan \in Plans(r), NEW o \in DOMAIN r.orders
    PROVE  PlannedTo(r, plan, o, StartDay(r) - 1, plan.allocations, plan.conflicts,
                     r.orders[o].quantity)
<1> DEFINE pieces == plan.allocations
           last == StartDay(r) - 1
<1>1. pieces \in Seq(PlanPiece) /\ plan.conflicts \in Seq(PlanConflict(r))
      BY DEF Plans
<1>2. last \in Int /\ last < StartDay(r) /\ StartDay(r) \in Int
      BY <1>1, FreeFromStartNext
<1>3. DaysTo(r, pieces, o, last) = {}
  <2>1. \A d \in DaysGiven(r, pieces, o) : d \in Int /\ d >= StartDay(r)
    <3>1. DaysGiven(r, pieces, o) \in SUBSET Int
          BY <1>1, GivenItems
    <3> QED
        BY <1>1, <3>1, GivenDay
  <2> QED
      BY <1>2, <2>1 DEF DaysTo
<1>4. SharedDays(r, {}) = {}
      BY DEF SharedDays
<1>5. r.orders[o].quantity = r.orders[o].quantity - PlacedBy(r, pieces, o, last)
  <2>1. PlacedBy(r, pieces, o, last) = 0
        BY <1>1, <1>2, PlacedGrows
  <2>2. r.orders[o].quantity \in Nat
        BY DEF IsPlanRequest
  <2> QED
      BY <2>1, <2>2
<1>6. Continues(pieces, pieces, PiecesOf(r, pieces, o), {})
      BY <1>1, ContinuesItself
<1>7. Continues(plan.conflicts, plan.conflicts, ReviewsOf(r, pieces, o), {})
      BY <1>1, ContinuesItself
<1>8. \A d \in StartDay(r) .. last : r.allowLate \/ d <= r.orders[o].due
      BY <1>2
<1>9. /\ Continues(pieces, pieces, PiecesOf(r, pieces, o), DaysTo(r, pieces, o, last))
      /\ Continues(plan.conflicts, plan.conflicts, ReviewsOf(r, pieces, o),
                   SharedDays(r, DaysTo(r, pieces, o, last)))
      BY <1>3, <1>4, <1>6, <1>7
<1>10. last \in Int /\ last >= StartDay(r) - 1
       BY <1>2
<1> HIDE DEF last
<1> QED
    BY <1>1, <1>5, <1>8, <1>9, <1>10 DEF PlannedTo, last

\* A full day adds nothing.
LEMMA PlannedFullDay ==
    ASSUME NEW r, IsPlanRequest(r), NEW plan \in Plans(r), NEW o \in DOMAIN r.orders,
           NEW last, NEW list, NEW notes, NEW left,
           PlannedTo(r, plan, o, last, list, notes, left), left > 0,
           FreeOn(r, plan.allocations, last + 1) = 0,
           r.allowLate \/ last + 1 <= r.orders[o].due
    PROVE  PlannedTo(r, plan, o, last + 1, list, notes, left)
<1> DEFINE pieces == plan.allocations
<1>1. pieces \in Seq(PlanPiece)
      BY DEF Plans
<1>2. /\ last \in Int /\ last >= StartDay(r) - 1 /\ StartDay(r) \in Int
      /\ left = r.orders[o].quantity - PlacedBy(r, pieces, o, last)
      BY <1>1, FreeFromStartNext DEF PlannedTo
<1>3. /\ left \in Nat
      /\ PlacedOn(r, pieces, o, last + 1) = 0
      /\ PlacedBy(r, pieces, o, last + 1) = PlacedBy(r, pieces, o, last)
  <2>1. /\ left \in Nat
        /\ PlacedOn(r, pieces, o, last + 1) = Lesser(left, 0)
        /\ PlacedBy(r, pieces, o, last + 1)
              = PlacedBy(r, pieces, o, last) + PlacedOn(r, pieces, o, last + 1)
        BY <1>1, <1>2, NextDayTakes
  <2>2. PlacedBy(r, pieces, o, last) \in Nat
        BY <1>1, <1>2, PlacedMonotone
  <2>3. Lesser(left, 0) = 0
        BY <2>1 DEF Lesser
  <2> QED
      BY <2>1, <2>2, <2>3
<1>4. DaysTo(r, pieces, o, last + 1) = DaysTo(r, pieces, o, last)
  <2>1. last + 1 \notin DaysGiven(r, pieces, o)
        BY <1>1, <1>2, <1>3, GivenDay
  <2>2. DaysGiven(r, pieces, o) \in SUBSET Int
        BY <1>1, GivenItems
  <2> QED
      BY <1>2, <2>1, <2>2 DEF DaysTo
<1>5. \A d \in StartDay(r) .. last + 1 : r.allowLate \/ d <= r.orders[o].due
  <2>1. \A d \in StartDay(r) .. last : r.allowLate \/ d <= r.orders[o].due
        BY DEF PlannedTo
  <2> QED
      BY <1>2, <2>1
<1> QED
    BY <1>2, <1>3, <1>4, <1>5 DEF PlannedTo

\* A day with room adds a piece, and a conflict when others are on it.
LEMMA PlannedPiece ==
    ASSUME NEW r, IsPlanRequest(r), NEW plan \in Plans(r), NEW o \in DOMAIN r.orders,
           NEW last, NEW list, NEW notes, NEW left,
           PlannedTo(r, plan, o, last, list, notes, left), left > 0,
           FreeOn(r, plan.allocations, last + 1) > 0,
           r.allowLate \/ last + 1 <= r.orders[o].due,
           NEW q, q = Lesser(left, FreeOn(r, plan.allocations, last + 1)),
           NEW piece, piece = [order |-> o, day |-> last + 1, quantity |-> q,
                               locked |-> r.orders[o].high],
           NEW note, note = [order |-> o, reason |-> "review", earliestFinish |-> last + 1,
                             affected |-> OrdersAffected(r, last + 1)],
           NEW more, more = IF r.manualForce /\ OrdersAffected(r, last + 1) # {}
                            THEN Append(notes, note) ELSE notes
    PROVE  PlannedTo(r, plan, o, last + 1, Append(list, piece), more, left - q)
<1> DEFINE pieces == plan.allocations
           given == DaysGiven(r, pieces, o)
           days == DaysTo(r, pieces, o, last)
           items == PiecesOf(r, pieces, o)
           reviews == ReviewsOf(r, pieces, o)
           d == last + 1
<1>1. pieces \in Seq(PlanPiece) /\ plan.conflicts \in Seq(PlanConflict(r))
      BY DEF Plans
<1>2. /\ last \in Int /\ last >= StartDay(r) - 1 /\ StartDay(r) \in Int
      /\ left = r.orders[o].quantity - PlacedBy(r, pieces, o, last)
      /\ list \in Seq(PlanPiece) /\ notes \in Seq(PlanConflict(r))
      /\ Continues(list, pieces, items, days)
      /\ Continues(notes, plan.conflicts, reviews, SharedDays(r, days))
      BY <1>1, FreeFromStartNext DEF PlannedTo
<1>3. /\ left \in Nat /\ PlacedOn(r, pieces, o, d) = q
      /\ q \in Nat \ {0}
      /\ PlacedBy(r, pieces, o, d) = PlacedBy(r, pieces, o, last) + q
  <2>1. /\ left \in Nat /\ FreeOn(r, pieces, d) \in Nat
        /\ PlacedOn(r, pieces, o, d) = q
        /\ PlacedBy(r, pieces, o, d) = PlacedBy(r, pieces, o, last) + PlacedOn(r, pieces, o, d)
        BY <1>1, <1>2, NextDayTakes
  <2> QED
      BY <2>1 DEF Lesser
<1>4. /\ given \in SUBSET Int /\ items \in [given -> PlanPiece]
      /\ reviews \in [SharedDays(r, given) -> PlanConflict(r)]
      BY <1>1, OrderItems
<1>5. d \in given
      BY <1>1, <1>2, <1>3, GivenDay
<1>6. DaysTo(r, pieces, o, d) = days \cup {d} /\ d \in Int
      /\ days \in SUBSET Int /\ \A x \in days : x < d
      BY <1>2, <1>4, <1>5 DEF DaysTo
<1>7. items[d] = piece /\ items[d] \in PlanPiece
  <2>1. items[d] = [order |-> o, day |-> d, quantity |-> PlacedOn(r, pieces, o, d),
                    locked |-> r.orders[o].high]
        BY <1>5 DEF PiecesOf
  <2>2. items[d] \in PlanPiece
        BY <1>4, <1>5
  <2> HIDE DEF items
  <2> QED
      BY <1>3, <2>1, <2>2
<1>8. /\ Continues(Append(list, piece), pieces, items, DaysTo(r, pieces, o, d))
      /\ Append(list, piece) \in Seq(PlanPiece)
  <2> HIDE DEF items, days, given, pieces, d
  <2>1. Continues(Append(list, items[d]), pieces, items, days \cup {d})
        BY <1>1, <1>2, <1>6, <1>7, ContinueOn
  <2> QED
      BY <1>2, <1>6, <1>7, <2>1
<1>9. /\ Continues(more, plan.conflicts, reviews, SharedDays(r, DaysTo(r, pieces, o, d)))
      /\ more \in Seq(PlanConflict(r))
  <2>1. CASE r.manualForce /\ OrdersAffected(r, d) # {}
    <3>1. SharedDays(r, days \cup {d}) = SharedDays(r, days) \cup {d}
          /\ d \in SharedDays(r, given)
          BY <1>5, <2>1 DEF SharedDays
    <3>2. reviews[d] = note /\ reviews[d] \in PlanConflict(r)
      <4>1. reviews[d] = [order |-> o, reason |-> "review", earliestFinish |-> d,
                          affected |-> OrdersAffected(r, d)]
            BY <1>5, <2>1 DEF ReviewsOf
      <4>2. reviews[d] \in PlanConflict(r)
            BY <1>4, <3>1
      <4> HIDE DEF reviews
      <4> QED
          BY <4>1, <4>2
    <3>3. more = Append(notes, note)
          BY <2>1
    <3>4. SharedDays(r, days) \in SUBSET Int /\ \A x \in SharedDays(r, days) : x < d
          BY <1>6 DEF SharedDays
    <3>5. Continues(Append(notes, reviews[d]), plan.conflicts, reviews,
                    SharedDays(r, days) \cup {d})
      <4> HIDE DEF reviews, days, given, pieces, d
      <4> QED
          BY <1>1, <1>2, <1>6, <3>2, <3>4, ContinueOn
    <3> HIDE DEF reviews, days, given, pieces, d
    <3>6. Append(notes, note) \in Seq(PlanConflict(r))
          BY <1>2, <3>2
    <3>7. SharedDays(r, DaysTo(r, pieces, o, d)) = SharedDays(r, days) \cup {d}
          BY <1>6, <3>1
    <3>8. Continues(more, plan.conflicts, reviews, SharedDays(r, DaysTo(r, pieces, o, d)))
          BY <3>2, <3>3, <3>5, <3>7
    <3> QED
        BY <3>3, <3>6, <3>8
  <2>2. CASE ~(r.manualForce /\ OrdersAffected(r, d) # {})
    <3>1. SharedDays(r, days \cup {d}) = SharedDays(r, days) /\ more = notes
          BY <2>2 DEF SharedDays
    <3> QED
        BY <1>2, <1>6, <3>1
  <2> QED
      BY <2>1, <2>2
<1>10. \A x \in StartDay(r) .. d : r.allowLate \/ x <= r.orders[o].due
  <2>1. \A x \in StartDay(r) .. last : r.allowLate \/ x <= r.orders[o].due
        BY DEF PlannedTo
  <2> QED
      BY <1>2, <2>1
<1>11. left - q = r.orders[o].quantity - PlacedBy(r, pieces, o, d)
  <2>1. PlacedBy(r, pieces, o, last) \in Nat /\ r.orders[o].quantity \in Nat
        BY <1>1, <1>2, PlacedMonotone
  <2> QED
      BY <1>2, <1>3, <2>1
<1>12. d \in Int /\ d >= StartDay(r) - 1
       BY <1>2
<1> HIDE DEF items, days, given, d, reviews
<1> QED
    BY <1>8, <1>9, <1>10, <1>11, <1>12 DEF PlannedTo, items, reviews, d

\* The lists that are told to continue a plan with all days of an order are those
\* of the plan with the order.
LEMMA PlannedLists ==
    ASSUME NEW r, IsPlanRequest(r), NEW plan \in Plans(r), NEW o \in DOMAIN r.orders,
           NEW last, NEW list, NEW notes, NEW left,
           PlannedTo(r, plan, o, last, list, notes, left),
           DaysTo(r, plan.allocations, o, last) = DaysGiven(r, plan.allocations, o)
    PROVE  /\ list = Listing(plan.allocations, PiecesOf(r, plan.allocations, o))
           /\ notes = Listing(plan.conflicts, ReviewsOf(r, plan.allocations, o))
<1> DEFINE pieces == plan.allocations
           days == DaysGiven(r, pieces, o)
           items == PiecesOf(r, pieces, o)
           reviews == ReviewsOf(r, pieces, o)
           shared == SharedDays(r, days)
<1>1. pieces \in Seq(PlanPiece) /\ plan.conflicts \in Seq(PlanConflict(r))
      BY DEF Plans
<1>2. /\ IsFiniteSet(days) /\ days \in SUBSET Int /\ items \in [days -> PlanPiece]
      /\ reviews \in [shared -> PlanConflict(r)]
      BY <1>1, OrderItems
<1>3. shared \in SUBSET Int /\ IsFiniteSet(shared)
      BY <1>2, FS_Subset DEF SharedDays
<1>4. /\ list \in Seq(PlanPiece) /\ notes \in Seq(PlanConflict(r))
      /\ Continues(list, pieces, items, days)
      /\ Continues(notes, plan.conflicts, reviews, shared)
      BY DEF PlannedTo
<1> HIDE DEF pieces, days, items, reviews, shared
<1>5. list = Listing(pieces, items)
  <2>1. /\ Listing(pieces, items) \in Seq(PlanPiece)
        /\ Continues(Listing(pieces, items), pieces, items, days)
        BY <1>1, <1>2, ListingContinues
  <2> QED
      BY <1>1, <1>2, <1>4, <2>1, SameContinuation
<1>6. notes = Listing(plan.conflicts, reviews)
  <2>1. /\ Listing(plan.conflicts, reviews) \in Seq(PlanConflict(r))
        /\ Continues(Listing(plan.conflicts, reviews), plan.conflicts, reviews, shared)
        BY <1>1, <1>2, <1>3, ListingContinues
  <2> QED
      BY <1>1, <1>3, <1>4, <2>1, SameContinuation
<1> QED
    BY <1>5, <1>6 DEF pieces, items, reviews

\* With nothing left the order is planned.
LEMMA PlannedWhole ==
    ASSUME NEW r, IsPlanRequest(r), NEW plan \in Plans(r), NEW o \in DOMAIN r.orders,
           NEW last, NEW list, NEW notes, PlannedTo(r, plan, o, last, list, notes, 0)
    PROVE  PlanNext(r, o, plan) = [allocations |-> list, conflicts |-> notes]
<1> DEFINE pieces == plan.allocations
           q == r.orders[o].quantity
<1>1. pieces \in Seq(PlanPiece)
      BY DEF Plans
<1>2. /\ last \in Int /\ last >= StartDay(r) - 1 /\ StartDay(r) \in Int
      /\ \A d \in StartDay(r) .. last : r.allowLate \/ d <= r.orders[o].due
      /\ 0 = q - PlacedBy(r, pieces, o, last)
      BY <1>1, FreeFromStartNext DEF PlannedTo
<1>3. q \in Nat /\ PlacedBy(r, pieces, o, last) = q
  <2>1. PlacedBy(r, pieces, o, last) \in Nat /\ q \in Nat
        BY <1>1, <1>2, PlacedMonotone
  <2> QED
      BY <1>2, <2>1
<1>4. ASSUME NEW d \in Days(r, pieces, o)
      PROVE  d \in StartDay(r) .. last
  <2>1. d \in Int /\ d >= StartDay(r) /\ PlacedOn(r, pieces, o, d) >= 1
        /\ PlacedOn(r, pieces, o, d) \in Int
    <3>1. /\ Days(r, pieces, o) \subseteq Int /\ d >= StartDay(r)
          /\ PlacedOn(r, pieces, o, d) \in 1 .. q
          BY <1>1, DaysOfOrder
    <3> QED
        BY <3>1
  <2>2. ASSUME d > last
        PROVE  FALSE
    <3>1. /\ PlacedBy(r, pieces, o, last) <= PlacedBy(r, pieces, o, d - 1)
          /\ PlacedBy(r, pieces, o, d - 1) \in Nat
          BY <1>1, <1>2, <2>1, <2>2, PlacedMonotone
    <3>2. PlacedBy(r, pieces, o, d) \in Nat /\ PlacedBy(r, pieces, o, d) <= q
          BY <1>1, <2>1, PlacedMonotone
    <3> QED
        BY <1>3, <2>1, <3>1, <3>2 DEF PlacedOn
  <2> QED
      BY <1>2, <2>1, <2>2
<1>5. ~FinishesLate(r, pieces, o)
  <2>1. /\ FinishDay(r, pieces, o) \in Days(r, pieces, o)
        /\ Days(r, pieces, o) \subseteq Int
        BY <1>1, DaysOfOrder
  <2>2. FinishDay(r, pieces, o) \in StartDay(r) .. last
        BY <1>4, <2>1
  <2>3. r.allowLate \/ FinishDay(r, pieces, o) <= r.orders[o].due
        BY <1>2, <2>2
  <2>4. r.orders[o].due \in Int /\ FinishDay(r, pieces, o) \in Int
        BY <2>1 DEF IsPlanRequest
  <2> QED
      BY <2>3, <2>4 DEF FinishesLate
<1>6. DaysTo(r, pieces, o, last) = DaysGiven(r, pieces, o)
  <2>1. \A d \in DaysGiven(r, pieces, o) : d <= last
        BY <1>4 DEF DaysGiven
  <2> QED
      BY <2>1 DEF DaysTo
<1>7. /\ list = Listing(pieces, PiecesOf(r, pieces, o))
      /\ notes = Listing(plan.conflicts, ReviewsOf(r, pieces, o))
      BY <1>6, PlannedLists
<1>8. notes \o <<>> = notes
  <2>1. notes \in Seq(PlanConflict(r))
        BY DEF PlannedTo
  <2> QED
      BY <2>1
<1>9. PlanNext(r, o, plan) = [allocations |-> Listing(pieces, PiecesOf(r, pieces, o)),
         conflicts |-> Listing(plan.conflicts, ReviewsOf(r, pieces, o)) \o <<>>]
      BY <1>5 DEF PlanNext
<1> QED
    BY <1>7, <1>8, <1>9

\* The day by which the free wafers are enough is the one on which it finishes.
LEMMA FinishFound ==
    ASSUME NEW r, IsPlanRequest(r), NEW pieces \in Seq(PlanPiece), NEW o \in DOMAIN r.orders,
           NEW finish \in Int, finish >= StartDay(r),
           FreeFromStart(r, pieces, finish) >= r.orders[o].quantity,
           FreeFromStart(r, pieces, finish - 1) < r.orders[o].quantity
    PROVE  FinishDay(r, pieces, o) = finish
<1> DEFINE q == r.orders[o].quantity
           h == Horizon(r, pieces, o)
           days == Days(r, pieces, o)
<1>1. /\ q \in Nat /\ StartDay(r) \in Int
      /\ FreeFromStart(r, pieces, finish) \in Nat
      /\ FreeFromStart(r, pieces, finish - 1) \in Nat
  <2>1. q \in Nat /\ finish - 1 \in Int
        BY DEF IsPlanRequest
  <2> QED
      BY <2>1, FreeFromStartNext
<1>2. /\ PlacedBy(r, pieces, o, finish) = q
      /\ PlacedBy(r, pieces, o, finish - 1) < q
      /\ PlacedBy(r, pieces, o, finish - 1) \in Nat
      BY <1>1, PlacedIsFree DEF Lesser
<1>3. h \in Int /\ PlacedBy(r, pieces, o, h) = q
      BY PlacedGrows
<1>4. finish <= h
  <2> SUFFICES ASSUME h < finish PROVE FALSE
      BY <1>3
  <2> HIDE DEF h
  <2>1. h <= finish - 1 /\ finish - 1 \in Int
        BY <1>3
  <2>2. PlacedBy(r, pieces, o, h) <= PlacedBy(r, pieces, o, finish - 1)
        BY <1>3, <2>1, PlacedMonotone
  <2> QED
      BY <1>1, <1>2, <1>3, <2>2
<1>5. finish \in days
  <2>1. PlacedOn(r, pieces, o, finish) > 0
        BY <1>1, <1>2 DEF PlacedOn
  <2> QED
      BY <1>1, <1>3, <1>4, <2>1 DEF Days
<1>6. ASSUME NEW d \in days
      PROVE  d <= finish /\ d \in Int
  <2>1. d \in Int /\ PlacedOn(r, pieces, o, d) > 0
        BY <1>1, <1>3 DEF Days
  <2>2. ASSUME d > finish
        PROVE  FALSE
    <3>1. /\ PlacedBy(r, pieces, o, finish) <= PlacedBy(r, pieces, o, d - 1)
          /\ PlacedBy(r, pieces, o, d - 1) \in Nat
      <4>1. d - 1 \in Int /\ finish <= d - 1
            BY <2>1, <2>2
      <4> QED
          BY <4>1, PlacedMonotone
    <3>2. PlacedBy(r, pieces, o, d) \in Nat /\ PlacedBy(r, pieces, o, d) <= q
          BY <2>1, PlacedMonotone
    <3> QED
        BY <1>1, <1>2, <2>1, <3>1, <3>2 DEF PlacedOn
  <2> QED
      BY <2>1, <2>2
<1>7. FinishDay(r, pieces, o) \in days /\ \A d \in days : d <= FinishDay(r, pieces, o)
  <2>1. /\ FinishDay(r, pieces, o) \in days
        /\ \A d \in days : d <= FinishDay(r, pieces, o)
        BY DaysOfOrder
  <2> QED
      BY <2>1
<1> HIDE DEF days
<1> QED
    BY <1>5, <1>6, <1>7

\* An order that reaches its due date with something left is planned, too: it keeps
\* the days so far, and a conflict says when it would finish.
LEMMA PlannedLate ==
    ASSUME NEW r, IsPlanRequest(r), NEW plan \in Plans(r), NEW o \in DOMAIN r.orders,
           NEW last, NEW list, NEW notes, NEW left,
           PlannedTo(r, plan, o, last, list, notes, left), left > 0,
           ~r.allowLate, last >= r.orders[o].due,
           NEW finish \in Int, finish > last,
           FreeFromStart(r, plan.allocations, finish) >= r.orders[o].quantity,
           FreeFromStart(r, plan.allocations, finish - 1) < r.orders[o].quantity,
           NEW note, note = [order |-> o, reason |-> "late", earliestFinish |-> finish,
              affected |-> UNION {OrdersToMove(r, d) :
                 d \in StartDay(r) .. Greater(finish, r.orders[o].due)}]
    PROVE  PlanNext(r, o, plan) = [allocations |-> list, conflicts |-> Append(notes, note)]
<1> DEFINE pieces == plan.allocations
<1>1. pieces \in Seq(PlanPiece)
      BY DEF Plans
<1>2. last \in Int /\ last >= StartDay(r) - 1 /\ StartDay(r) \in Int
      /\ r.orders[o].due \in Int
      BY <1>1, FreeFromStartNext DEF PlannedTo, IsPlanRequest
<1>3. FinishDay(r, pieces, o) = finish
      BY <1>1, <1>2, FinishFound
<1>4. FinishesLate(r, pieces, o)
      BY <1>2, <1>3 DEF FinishesLate
<1>5. LatenessOf(r, pieces, o) = note
      BY <1>3 DEF LatenessOf
<1>6. DaysTo(r, pieces, o, last) = DaysGiven(r, pieces, o)
  <2>1. DaysGiven(r, pieces, o) \in SUBSET Int
        BY <1>1, GivenItems
  <2>2. \A d \in DaysGiven(r, pieces, o) : d <= r.orders[o].due
        BY DEF DaysGiven
  <2>3. \A d \in DaysGiven(r, pieces, o) : d <= last
        BY <1>2, <2>1, <2>2
  <2> QED
      BY <2>3 DEF DaysTo
<1>7. /\ list = Listing(pieces, PiecesOf(r, pieces, o))
      /\ notes = Listing(plan.conflicts, ReviewsOf(r, pieces, o))
      BY <1>6, PlannedLists
<1>8. notes \o <<note>> = Append(notes, note)
  <2>1. notes \in Seq(PlanConflict(r)) /\ note \in PlanConflict(r)
        BY <1>1, <1>5, OrderItems DEF PlannedTo
  <2> QED
      BY <2>1
<1>9. PlanNext(r, o, plan) = [allocations |-> Listing(pieces, PiecesOf(r, pieces, o)),
         conflicts |-> Listing(plan.conflicts, ReviewsOf(r, pieces, o))
                          \o <<LatenessOf(r, pieces, o)>>]
      BY <1>4 DEF PlanNext
<1> QED
    BY <1>5, <1>7, <1>8, <1>9

\* The days after the last are as the plan left them.
LEMMA UsedAhead ==
    ASSUME NEW r, IsPlanRequest(r), NEW plan \in Plans(r), NEW o \in DOMAIN r.orders,
           NEW last, NEW list, NEW notes, NEW left,
           PlannedTo(r, plan, o, last, list, notes, left), NEW d \in Int, d > last
    PROVE  UsedOn(r, list, d) = UsedOn(r, plan.allocations, d)
<1> DEFINE pieces == plan.allocations
           items == PiecesOf(r, pieces, o)
           days == DaysTo(r, pieces, o, last)
           I == {i \in DOMAIN pieces : pieces[i].day = d}
<1>1. /\ pieces \in Seq(PlanPiece) /\ list \in Seq(PlanPiece)
      /\ last \in Int /\ Continues(list, pieces, items, days)
      BY DEF Plans, PlannedTo
<1>2. \A x \in days : items[x].day = x /\ x \in Int /\ x <= last
  <2>1. /\ DaysGiven(r, pieces, o) \in SUBSET Int
        /\ \A x \in DaysGiven(r, pieces, o) :
              items[x] = [order |-> o, day |-> x, quantity |-> PlacedOn(r, pieces, o, x),
                          locked |-> r.orders[o].high]
        BY <1>1, GivenItems
  <2>2. ASSUME NEW x \in DaysGiven(r, pieces, o)
        PROVE  items[x].day = x
    <3>1. items[x] = [order |-> o, day |-> x, quantity |-> PlacedOn(r, pieces, o, x),
                      locked |-> r.orders[o].high]
          BY <2>1
    <3> HIDE DEF items, pieces
    <3> QED
        BY <3>1
  <2> HIDE DEF items
  <2> QED
      BY <2>1, <2>2 DEF DaysTo
<1> HIDE DEF items, days
<1>3. {i \in DOMAIN list : list[i].day = d} = I
  <2>1. /\ DOMAIN pieces = 1 .. Len(pieces) /\ DOMAIN list = 1 .. Len(list)
        /\ Len(pieces) \in Nat /\ Len(list) \in Nat /\ Len(list) >= Len(pieces)
        /\ \A i \in 1 .. Len(pieces) : list[i] = pieces[i]
        BY <1>1 DEF Continues
  <2>2. PICK at \in [Len(pieces) + 1 .. Len(list) -> days] :
           \A i \in Len(pieces) + 1 .. Len(list) : list[i] = items[at[i]]
        BY <1>1 DEF Continues
  <2>3. ASSUME NEW i \in Len(pieces) + 1 .. Len(list)
        PROVE  list[i].day # d
    <3>1. at[i] \in days
          BY <2>2
    <3> QED
        BY <1>1, <1>2, <2>2, <3>1
  <2>4. \A i \in 1 .. Len(list) : i \in 1 .. Len(pieces) \/ i \in Len(pieces) + 1 .. Len(list)
        BY <2>1
  <2> QED
      BY <2>1, <2>3, <2>4
<1>4. I \in SUBSET DOMAIN pieces
      OBVIOUS
<1>5. Wafers(list, I) = Wafers(pieces, I)
  <2> HIDE DEF I, pieces
  <2> QED
      BY <1>1, <1>4, OldWafers
<1>6. /\ UsedOn(r, list, d) = Wafers(list, I)
            + IF r.manualForce THEN 0 ELSE Wafers(r.existing, ExistingOn(r, d))
      /\ UsedOn(r, pieces, d) = Wafers(pieces, I)
            + IF r.manualForce THEN 0 ELSE Wafers(r.existing, ExistingOn(r, d))
      BY <1>3 DEF UsedOn
<1> QED
    BY <1>5, <1>6

\* One choice of the plans of the first orders of a request.
PlanAfter(r, S) == (CHOOSE g : PlansUpTo(r, g) /\ Plan(r) = g[DOMAIN r.orders])[S]

\* They go from no orders to all, by one order at a time: the last in rank.
LEMMA PlanSteps ==
    ASSUME NEW r, IsPlanRequest(r)
    PROVE  /\ PlanAfter(r, {}) = NothingPlanned
           /\ PlanAfter(r, DOMAIN r.orders) = Plan(r)
           /\ \A S \in SUBSET DOMAIN r.orders : PlanAfter(r, S) \in Plans(r)
           /\ \A S \in SUBSET DOMAIN r.orders : \A o \in S :
                 (\A p \in S \ {o} : RanksBefore(r, p, o))
                    => PlanAfter(r, S) = PlanNext(r, o, PlanAfter(r, S \ {o}))
<1> DEFINE g == CHOOSE g : PlansUpTo(r, g) /\ Plan(r) = g[DOMAIN r.orders]
<1>1. PlansUpTo(r, g) /\ Plan(r) = g[DOMAIN r.orders]
      BY PlanRecursion
<1>2. \A S : PlanAfter(r, S) = g[S]
      BY DEF PlanAfter
<1> HIDE DEF g
<1>3. ASSUME NEW S \in SUBSET DOMAIN r.orders, NEW o \in S,
             \A p \in S \ {o} : RanksBefore(r, p, o)
      PROVE  g[S] = PlanNext(r, o, g[S \ {o}])
  <2> DEFINE l == LastInRank(r, S)
  <2>1. l \in S /\ \A p \in S \ {l} : RanksBefore(r, p, l)
        BY LastExists
  <2> HIDE DEF l
  <2>2. l = o
    <3> SUFFICES ASSUME l # o PROVE FALSE
        OBVIOUS
    <3>1. RanksBefore(r, o, l) /\ RanksBefore(r, l, o)
          BY <1>3, <2>1
    <3>2. /\ o \in Nat /\ l \in Nat
          /\ r.orders[o].high \in BOOLEAN /\ r.orders[l].high \in BOOLEAN
          /\ r.orders[o].due \in Int /\ r.orders[l].due \in Int
          /\ r.orders[o].createdAt \in Int /\ r.orders[l].createdAt \in Int
          BY <2>1 DEF IsPlanRequest
    <3> QED
        BY <3>1, <3>2 DEF RanksBefore
  <2>3. g[S] = PlanNext(r, LastInRank(r, S), g[S \ {LastInRank(r, S)}])
        BY <1>1 DEF PlansUpTo
  <2> QED
      BY <2>2, <2>3 DEF l
<1>4. g[{}] = NothingPlanned /\ \A S \in SUBSET DOMAIN r.orders : g[S] \in Plans(r)
      BY <1>1 DEF PlansUpTo
<1> QED
    BY <1>1, <1>2, <1>3, <1>4
=============================================================================
