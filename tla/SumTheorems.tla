----------------------------- MODULE SumTheorems -----------------------------
(***************************************************************************)
(* Facts about SumFunctionOnSet of the module Functions, the sum of f[x]   *)
(* over a finite set of x, and the principle of induction they are proved  *)
(* with.  Nothing here is about AtlasDB.                                   *)
(***************************************************************************)
EXTENDS Naturals, Functions, FiniteSetTheorems, WellFoundedInduction, TLAPS

-----------------------------------------------------------------------------
(* Induction on the naturals, as a fact about a set of them *)

\* A set of naturals with 0 and with the successor of each member is Nat.
LEMMA NatSetInduction ==
    ASSUME NEW N \in SUBSET Nat, 0 \in N, \A n \in N : n + 1 \in N
    PROVE  N = Nat
<1> DEFINE R == OpToRel(<, Nat)
           T == Nat \ N
<1>1. IsWellFoundedOn(R, Nat)
  BY NatLessThanWellFounded
<1>2. \A x, y \in Nat : <<y, x>> \in R <=> y < x
  BY DEF OpToRel
<1>3. SUFFICES ASSUME T # {} PROVE FALSE
  OBVIOUS
<1> HIDE DEF R
<1>4. PICK x \in T : \A y \in T : ~(<<y, x>> \in R)
  <2>1. T \subseteq Nat
    OBVIOUS
  <2> HIDE DEF T
  <2> QED
    BY <1>1, <1>3, <2>1, WFMin
<1>5. x \in Nat /\ x \notin N
  OBVIOUS
<1>6. x - 1 \in Nat /\ x - 1 < x /\ (x - 1) + 1 = x
  BY <1>5
<1>7. x - 1 \in N
  BY <1>2, <1>4, <1>5, <1>6
<1> QED
  BY <1>5, <1>6, <1>7

-----------------------------------------------------------------------------
(* What the fold computes *)

Picked(s) == CHOOSE x \in s : TRUE

\* The sum over s by the definition of the fold, if g has the sums of smaller sets.
FoldStep(f, g, s) == IF s = {} THEN 0 ELSE f[Picked(s)] + g[s \ {Picked(s)}]

Small(S, n) == {s \in SUBSET S : Cardinality(s) <= n}

Summable(f, S) == IsFiniteSet(S) /\ \A x \in S : f[x] \in Nat

LEMMA SmallerFacts ==
    ASSUME NEW f, NEW S, Summable(f, S), NEW s \in SUBSET S
    PROVE  /\ IsFiniteSet(s) /\ Cardinality(s) \in Nat /\ Cardinality(s) <= Cardinality(S)
           /\ Cardinality(s) = 0 <=> s = {}
           /\ \A x \in s : /\ s \ {x} \in SUBSET S /\ f[x] \in Nat
                           /\ Cardinality(s \ {x}) = Cardinality(s) - 1
           /\ s # {} => Picked(s) \in s
<1>0. IsFiniteSet(S) /\ \A x \in S : f[x] \in Nat
  BY DEF Summable
<1>1. IsFiniteSet(s) /\ Cardinality(s) \in Nat /\ Cardinality(s) <= Cardinality(S)
  BY <1>0, FS_Subset, FS_CardinalityType
<1>2. Cardinality(s) = 0 <=> s = {}
  BY <1>1, FS_EmptySet
<1>3. \A x \in s : Cardinality(s \ {x}) = Cardinality(s) - 1
  BY <1>1, FS_RemoveElement
<1>4. s # {} => Picked(s) \in s
  BY DEF Picked
<1> QED
  BY <1>0, <1>1, <1>2, <1>3, <1>4

\* There is a function that has the sum of every subset.
LEMMA SumsExist ==
    ASSUME NEW f, NEW S, Summable(f, S)
    PROVE  \E g \in [SUBSET S -> Nat] : \A s \in SUBSET S : g[s] = FoldStep(f, g, s)
<1> DEFINE N == {n \in Nat : \E g \in [Small(S, n) -> Nat] :
                                \A s \in Small(S, n) : g[s] = FoldStep(f, g, s)}
<1>1. 0 \in N
  <2> DEFINE g == [s \in Small(S, 0) |-> 0]
  <2>1. \A s \in Small(S, 0) : s = {}
    BY SmallerFacts DEF Small
  <2>2. g \in [Small(S, 0) -> Nat] /\ \A s \in Small(S, 0) : g[s] = FoldStep(f, g, s)
    BY <2>1 DEF FoldStep
  <2> QED
    BY <2>2
<1>2. ASSUME NEW n \in N PROVE n + 1 \in N
  <2>1. PICK g \in [Small(S, n) -> Nat] : \A s \in Small(S, n) : g[s] = FoldStep(f, g, s)
    OBVIOUS
  <2> DEFINE h == [s \in Small(S, n + 1) |-> FoldStep(f, g, s)]
  <2>2. \A s \in Small(S, n + 1) : s # {} => s \ {Picked(s)} \in Small(S, n) /\ f[Picked(s)] \in Nat
    BY SmallerFacts DEF Small
  <2>3. h \in [Small(S, n + 1) -> Nat]
    BY <2>2 DEF FoldStep
  <2>4. \A s \in Small(S, n) : s \in Small(S, n + 1) /\ h[s] = g[s]
    BY <2>1, SmallerFacts DEF Small
  <2>5. \A s \in Small(S, n + 1) : h[s] = FoldStep(f, h, s)
    BY <2>2, <2>4 DEF FoldStep
  <2>6. n + 1 \in Nat
    OBVIOUS
  <2> HIDE DEF h
  <2> QED
    BY <2>3, <2>5, <2>6
<1>3. N = Nat
  <2>1. N \subseteq Nat
    OBVIOUS
  <2> HIDE DEF N
  <2> QED
    BY <1>1, <1>2, <2>1, NatSetInduction
<1>4. Cardinality(S) \in N
  BY <1>3, SmallerFacts
<1>5. Small(S, Cardinality(S)) = SUBSET S
  BY SmallerFacts DEF Small
<1> QED
  BY <1>4, <1>5

\* Two functions that have the sums of all subsets agree.
LEMMA SumsUnique ==
    ASSUME NEW f, NEW S, Summable(f, S), NEW g, NEW h,
           \A s \in SUBSET S : g[s] = FoldStep(f, g, s) /\ h[s] = FoldStep(f, h, s)
    PROVE  g[S] = h[S]
<1> DEFINE N == {n \in Nat : \A s \in SUBSET S : Cardinality(s) = n => g[s] = h[s]}
<1>1. 0 \in N
  <2>1. \A s \in SUBSET S : Cardinality(s) = 0 => s = {}
    BY SmallerFacts
  <2>2. {} \in SUBSET S /\ g[{}] = 0 /\ h[{}] = 0
    BY DEF FoldStep
  <2> QED
    BY <2>1, <2>2
<1>2. ASSUME NEW n \in N PROVE n + 1 \in N
  <2>1. SUFFICES ASSUME NEW s \in SUBSET S, Cardinality(s) = n + 1 PROVE g[s] = h[s]
    OBVIOUS
  <2>2. s # {} /\ s \ {Picked(s)} \in SUBSET S /\ Cardinality(s \ {Picked(s)}) = n
    BY <2>1, SmallerFacts
  <2>3. g[s \ {Picked(s)}] = h[s \ {Picked(s)}]
    BY <2>2
  <2> QED
    BY <2>2, <2>3 DEF FoldStep
<1>3. N = Nat
  <2>1. N \subseteq Nat
    OBVIOUS
  <2> HIDE DEF N
  <2> QED
    BY <1>1, <1>2, <2>1, NatSetInduction
<1> QED
  BY <1>3, SmallerFacts

\* SumFunctionOnSet has the sums of all subsets.
LEMMA SumOfSubset ==
    ASSUME NEW f, NEW S, Summable(f, S), NEW g,
           \A s \in SUBSET S : g[s] = FoldStep(f, g, s)
    PROVE  SumFunctionOnSet(f, S) = g[S]
<1> DEFINE I(it) == it = [s \in SUBSET S |-> FoldStep(f, it, s)]
           iter == CHOOSE it : I(it)
           gS == [s \in SUBSET S |-> g[s]]
<1>1. SumFunctionOnSet(f, S) = iter[S]
  BY DEF SumFunctionOnSet, FoldFunctionOnSet, MapThenFoldSet, FoldStep, Picked
<1>2. I(gS)
  BY SmallerFacts DEF FoldStep
<1>3. I(iter)
  BY <1>2
<1>4. \A s \in SUBSET S : iter[s] = FoldStep(f, iter, s) /\ g[s] = FoldStep(f, g, s)
  <2> HIDE DEF iter
  <2> QED
    BY <1>3
<1> HIDE DEF iter
<1> QED
  BY <1>1, <1>4, SumsUnique

-----------------------------------------------------------------------------
(* Sums *)

\* A sum is a natural number; that of nothing is 0, any other is one value and the sum of the rest.
LEMMA SumStep ==
    ASSUME NEW f, NEW S, Summable(f, S)
    PROVE  /\ SumFunctionOnSet(f, S) \in Nat
           /\ S = {} => SumFunctionOnSet(f, S) = 0
           /\ S # {} => SumFunctionOnSet(f, S)
                            = f[Picked(S)] + SumFunctionOnSet(f, S \ {Picked(S)})
<1>1. PICK g \in [SUBSET S -> Nat] : \A s \in SUBSET S : g[s] = FoldStep(f, g, s)
  BY SumsExist
<1>2. ASSUME NEW T \in SUBSET S PROVE SumFunctionOnSet(f, T) = g[T]
  <2>1. Summable(f, T)
    BY SmallerFacts DEF Summable
  <2>2. \A s \in SUBSET T : g[s] = FoldStep(f, g, s)
    BY <1>1
  <2> QED
    BY <2>1, <2>2, SumOfSubset
<1> QED
  BY <1>1, <1>2, SmallerFacts DEF FoldStep

\* Any value can be taken out.
LEMMA SumRemove ==
    ASSUME NEW f, NEW S, Summable(f, S), NEW x \in S
    PROVE  SumFunctionOnSet(f, S) = f[x] + SumFunctionOnSet(f, S \ {x})
<1> DEFINE Any(s) == \A c \in s : SumFunctionOnSet(f, s) = f[c] + SumFunctionOnSet(f, s \ {c})
           N == {n \in Nat : \A s \in SUBSET S : Cardinality(s) = n => Any(s)}
<1>0. \A s \in SUBSET S : Summable(f, s)
  BY SmallerFacts DEF Summable
<1>1. 0 \in N
  BY SmallerFacts
<1>2. ASSUME NEW n \in N PROVE n + 1 \in N
  <2>1. SUFFICES ASSUME NEW s \in SUBSET S, Cardinality(s) = n + 1, NEW c \in s
                 PROVE  SumFunctionOnSet(f, s) = f[c] + SumFunctionOnSet(f, s \ {c})
    OBVIOUS
  <2> DEFINE p == Picked(s)
  <2>2. /\ p \in s /\ SumFunctionOnSet(f, s) = f[p] + SumFunctionOnSet(f, s \ {p})
        /\ f[p] \in Nat /\ f[c] \in Nat
    BY <1>0, SmallerFacts, SumStep
  <2>3. CASE c = p
    BY <2>2, <2>3
  <2>4. CASE c # p
    <3>1. Any(s \ {p}) /\ Any(s \ {c})
      <4>1. \A y \in s : s \ {y} \in SUBSET S /\ Cardinality(s \ {y}) = n
        BY <2>1, SmallerFacts
      <4> HIDE DEF p, Any
      <4> QED
        BY <2>2, <4>1
    <3> DEFINE rest == SumFunctionOnSet(f, (s \ {p}) \ {c})
    <3>2. /\ SumFunctionOnSet(f, s \ {p}) = f[c] + rest
          /\ SumFunctionOnSet(f, s \ {c}) = f[p] + SumFunctionOnSet(f, (s \ {c}) \ {p})
      BY <2>2, <2>4, <3>1
    <3>3. rest = SumFunctionOnSet(f, (s \ {c}) \ {p})
      <4>1. (s \ {p}) \ {c} = (s \ {c}) \ {p}
        OBVIOUS
      <4> QED
        BY <4>1
    <3>4. rest \in Nat
      BY <1>0, SumStep
    <3>5. SumFunctionOnSet(f, s) = f[p] + (f[c] + rest) /\ SumFunctionOnSet(f, s \ {c}) = f[p] + rest
      BY <2>2, <3>2, <3>3
    <3> HIDE DEF rest, p
    <3> QED
      BY <2>2, <3>4, <3>5
  <2> QED
    BY <2>3, <2>4
<1>3. N = Nat
  <2>1. N \subseteq Nat
    OBVIOUS
  <2> HIDE DEF N
  <2> QED
    BY <1>1, <1>2, <2>1, NatSetInduction
<1>4. Any(S)
  <2>1. Cardinality(S) \in N
    BY <1>3, SmallerFacts
  <2> HIDE DEF Any
  <2> QED
    BY <2>1
<1> QED
  BY <1>4

LEMMA SumAdd ==
    ASSUME NEW f, NEW S, Summable(f, S), NEW x, x \notin S, f[x] \in Nat
    PROVE  SumFunctionOnSet(f, S \cup {x}) = SumFunctionOnSet(f, S) + f[x]
<1>1. x \in S \cup {x} /\ (S \cup {x}) \ {x} = S
  OBVIOUS
<1>2. Summable(f, S \cup {x})
  BY FS_AddElement DEF Summable
<1>3. SumFunctionOnSet(f, S) \in Nat
  BY SumStep
<1> QED
  BY <1>1, <1>2, <1>3, SumRemove

\* A sum depends on the values it adds only.
LEMMA SumSame ==
    ASSUME NEW f, NEW g, NEW S, Summable(f, S), \A x \in S : g[x] = f[x]
    PROVE  SumFunctionOnSet(g, S) = SumFunctionOnSet(f, S)
<1>1. Summable(g, S)
  BY DEF Summable
<1>2. PICK h \in [SUBSET S -> Nat] : \A s \in SUBSET S : h[s] = FoldStep(f, h, s)
  BY SumsExist
<1>3. \A s \in SUBSET S : h[s] = FoldStep(g, h, s)
  BY <1>2, SmallerFacts DEF FoldStep
<1> QED
  BY <1>1, <1>2, <1>3, SumOfSubset

\* When one value changes, the sum changes by as much.
LEMMA SumChange ==
    ASSUME NEW f, NEW g, NEW S, Summable(f, S), Summable(g, S),
           NEW x \in S, \A y \in S \ {x} : g[y] = f[y]
    PROVE  SumFunctionOnSet(g, S) + f[x] = SumFunctionOnSet(f, S) + g[x]
<1>1. Summable(f, S \ {x})
  BY SmallerFacts DEF Summable
<1> DEFINE rest == SumFunctionOnSet(f, S \ {x})
<1>2. SumFunctionOnSet(f, S) = f[x] + rest /\ SumFunctionOnSet(g, S) = g[x] + rest
  BY <1>1, SumRemove, SumSame
<1>3. rest \in Nat /\ f[x] \in Nat /\ g[x] \in Nat
  BY <1>1, SumStep DEF Summable
<1> HIDE DEF rest
<1> QED
  BY <1>2, <1>3
=============================================================================
