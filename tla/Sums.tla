-------------------------------- MODULE Sums --------------------------------
(***************************************************************************)
(* Sums over finite sets, and ranks in a finite order, for the books of    *)
(* the money modules.  MapThenSumSet is a CHOOSE of a function that is     *)
(* defined by recursion on the subsets; the lemmas show that there is one  *)
(* and what it adds up to.  Their induction is over sets: a property that  *)
(* does not hold of a finite set fails on a smallest part of it            *)
(* (MinimalSubset), which the library's well-founded order of the finite   *)
(* subsets provides.                                                       *)
(***************************************************************************)
EXTENDS FiniteSetsExt, FiniteSetTheorems, TLAPS

\* The form in which the modules add up: f[x] for the x of S.
Sum(f, S) == MapThenSumSet(LAMBDA x: f[x], S)

\* The element that the recursion takes out first.
AnyOf(S) == CHOOSE x \in S : TRUE

\* g adds up f over every subset of S.
Adds(g, f, S) == g = [s \in SUBSET S |-> IF s = {} THEN 0 ELSE f[AnyOf(s)] + g[s \ {AnyOf(s)}]]

\* What MapThenSumSet chooses.
LEMMA SumIsChoice == ASSUME NEW f, NEW S PROVE Sum(f, S) = (CHOOSE g : Adds(g, f, S))[S]
  BY DEF Sum, MapThenSumSet, MapThenFoldSet, Adds, AnyOf

\* A nonempty set of parts of a finite set has a minimal one.
LEMMA MinimalSubset ==
  ASSUME NEW S, IsFiniteSet(S), NEW T, T \subseteq SUBSET S, T # {}
  PROVE  \E s \in T : \A t \in T : ~ (t \subseteq s /\ t # s)
<1>1. IsWellFoundedOn(StrictSubsetOrdering(S), FiniteSubsetsOf(S))
  BY FS_StrictSubsetOrderingWellFounded
<1>2. FiniteSubsetsOf(S) = SUBSET S
  BY FS_FiniteSubsetsOfFinite
<1>3. PICK s \in T : \A t \in T : <<t, s>> \notin StrictSubsetOrdering(S)
  BY <1>1, <1>2, WFMin
<1> QED
  BY <1>3 DEF StrictSubsetOrdering

SumStep(f, g, s) == IF s = {} THEN 0 ELSE f[AnyOf(s)] + g[s \ {AnyOf(s)}]

\* Of a nonempty set, AnyOf is an element.
LEMMA AnyOfIn == ASSUME NEW S, S # {} PROVE AnyOf(S) \in S
  BY DEF AnyOf

\* Two functions that add up f over the subsets of S are equal.
LEMMA AddsUnique ==
  ASSUME NEW f, NEW S, IsFiniteSet(S), NEW g, NEW h, Adds(g, f, S), Adds(h, f, S)
  PROVE  g = h
<1> DEFINE T == {s \in SUBSET S : g[s] # h[s]}
<1>1. /\ \A s \in SUBSET S : g[s] = SumStep(f, g, s) /\ h[s] = SumStep(f, h, s)
      /\ g = [s \in SUBSET S |-> g[s]] /\ h = [s \in SUBSET S |-> h[s]]
  BY DEF Adds, SumStep
<1>2. CASE T # {}
  <2>1. PICK s \in T : \A t \in T : ~ (t \subseteq s /\ t # s)
    <3> HIDE DEF T
    <3>1. T \subseteq SUBSET S
      BY DEF T
    <3> QED
      BY <1>2, <3>1, MinimalSubset
  <2>2. s # {} /\ AnyOf(s) \in s
    BY <1>1, AnyOfIn DEF SumStep
  <2>3. g[s \ {AnyOf(s)}] = h[s \ {AnyOf(s)}]
    BY <2>1, <2>2
  <2> QED
    BY <1>1, <2>1, <2>3 DEF SumStep
<1> QED
  BY <1>1, <1>2

\* A part of S is added up as S is.
LEMMA AddsPart ==
  ASSUME NEW f, NEW S, NEW U \in SUBSET S, NEW g, Adds(g, f, S)
  PROVE  Adds([s \in SUBSET U |-> g[s]], f, U)
<1> DEFINE h == [s \in SUBSET U |-> g[s]]
<1>1. \A s \in SUBSET U : s # {} => s \ {AnyOf(s)} \in SUBSET U
  OBVIOUS
<1>2. \A s \in SUBSET U : g[s] = IF s = {} THEN 0 ELSE f[AnyOf(s)] + h[s \ {AnyOf(s)}]
  BY <1>1 DEF Adds
<1> QED
  BY <1>2 DEF Adds

\* Every f has a function that adds it up.
LEMMA AddsExists ==
  ASSUME NEW f, NEW S, IsFiniteSet(S)
  PROVE  \E g : Adds(g, f, S)
<1> DEFINE T == {s \in SUBSET S : ~ \E g : Adds(g, f, s)}
<1> SUFFICES ASSUME T # {} PROVE FALSE
  OBVIOUS
<1>1. PICK s \in T : \A t \in T : ~ (t \subseteq s /\ t # s)
  <2>1. T \subseteq SUBSET S
    OBVIOUS
  <2> HIDE DEF T
  <2> QED
    BY <2>1, MinimalSubset
<1> DEFINE G(t) == CHOOSE g : Adds(g, f, t)
           h == [t \in SUBSET s |-> IF t = {} THEN 0 ELSE f[AnyOf(t)] + G(t \ {AnyOf(t)})[t \ {AnyOf(t)}]]
<1>2. \A t \in SUBSET s : t # s => Adds(G(t), f, t)
  BY <1>1
<1>3. ASSUME NEW t \in SUBSET s, t # s PROVE h[t] = G(t)[t]
  <2>1. CASE t = {}
    <3>1. Adds(G(t), f, t)
      BY <1>2, <1>3
    <3> HIDE DEF G
    <3>2. G(t)[t] = 0
      BY <2>1, <3>1 DEF Adds
    <3> QED
      BY <2>1, <3>2
  <2>2. CASE t # {}
    <3> DEFINE u == t \ {AnyOf(t)}
    <3>1. u \in SUBSET t /\ u \in SUBSET s /\ u # s
      BY <1>3
    <3>2. Adds(G(t), f, t) /\ Adds(G(u), f, u)
      BY <1>2, <1>3, <3>1
    <3>3. IsFiniteSet(u)
      BY <1>1, <3>1, FS_Subset
    <3> HIDE DEF G, u, h
    <3>4. Adds([v \in SUBSET u |-> G(t)[v]], f, u)
      BY <3>1, <3>2, AddsPart
    <3>5. G(u) = [v \in SUBSET u |-> G(t)[v]]
      BY <3>2, <3>3, <3>4, AddsUnique
    <3>6. G(u)[u] = G(t)[u]
      BY <3>5
    <3>7. G(t)[t] = f[AnyOf(t)] + G(t)[u]
      BY <2>2, <3>2 DEF Adds, u
    <3> QED
      BY <1>3, <2>2, <3>6, <3>7 DEF u, h
  <2> QED
    BY <2>1, <2>2
<1>4. Adds(h, f, s)
  <2>1. ASSUME NEW t \in SUBSET s, t # {} PROVE G(t \ {AnyOf(t)})[t \ {AnyOf(t)}] = h[t \ {AnyOf(t)}]
    <3>1. t \ {AnyOf(t)} \in SUBSET s /\ t \ {AnyOf(t)} # s
      BY <2>1, AnyOfIn
    <3> HIDE DEF G, h
    <3> QED
      BY <1>3, <3>1
  <2> HIDE DEF G
  <2> QED
    BY <2>1 DEF Adds
<1> QED
  BY <1>1, <1>4

\* What Sum computes, one element at a time.
LEMMA SumUnfold ==
  ASSUME NEW f, NEW S, IsFiniteSet(S), S # {}
  PROVE  Sum(f, S) = f[AnyOf(S)] + Sum(f, S \ {AnyOf(S)})
<1> DEFINE G(t) == CHOOSE g : Adds(g, f, t)
           U == S \ {AnyOf(S)}
<1>1. Adds(G(S), f, S)
  BY AddsExists
<1>2. IsFiniteSet(U) /\ U \in SUBSET S
  BY FS_Subset
<1>3. Adds(G(U), f, U)
  BY <1>2, AddsExists
<1>4. Sum(f, S) = G(S)[S] /\ Sum(f, U) = G(U)[U]
  BY SumIsChoice
<1> HIDE DEF G, U
<1>5. Adds([v \in SUBSET U |-> G(S)[v]], f, U)
  BY <1>1, <1>2, AddsPart
<1>6. G(U)[U] = G(S)[U]
  BY <1>2, <1>3, <1>5, AddsUnique
<1>7. G(S)[S] = f[AnyOf(S)] + G(S)[U]
  BY <1>1 DEF Adds, U
<1> QED
  BY <1>4, <1>6, <1>7 DEF U

\* Nothing adds up to zero.
LEMMA SumEmpty == ASSUME NEW f PROVE Sum(f, {}) = 0
<1>1. Adds(CHOOSE g : Adds(g, f, {}), f, {})
  BY AddsExists, FS_EmptySet
<1> QED
  BY <1>1, SumIsChoice DEF Adds

\* A sum of zeros.
LEMMA SumZero ==
  ASSUME NEW f, NEW S, IsFiniteSet(S), \A x \in S : f[x] = 0
  PROVE  Sum(f, S) = 0
<1> DEFINE T == {s \in SUBSET S : Sum(f, s) # 0}
<1> SUFFICES ASSUME T # {} PROVE FALSE
  BY DEF T
<1>1. PICK s \in T : \A t \in T : ~ (t \subseteq s /\ t # s)
  <2>1. T \subseteq SUBSET S
    OBVIOUS
  <2> HIDE DEF T
  <2> QED
    BY <2>1, MinimalSubset
<1>2. s # {}
  BY SumEmpty
<1>3. AnyOf(s) \in s /\ IsFiniteSet(s)
  BY <1>2, AnyOfIn, FS_Subset
<1>4. Sum(f, s \ {AnyOf(s)}) = 0 /\ f[AnyOf(s)] = 0
  BY <1>1, <1>3
<1>5. Sum(f, s) = 0
  BY <1>2, <1>3, <1>4, SumUnfold
<1> QED
  BY <1>5

-----------------------------------------------------------------------------
\* A sum of integers is an integer, and one of naturals is a natural.
LEMMA SumType ==
  ASSUME NEW N, N = Int \/ N = Nat, NEW f, NEW S, IsFiniteSet(S), \A x \in S : f[x] \in N
  PROVE  Sum(f, S) \in N
<1> DEFINE T == {s \in SUBSET S : Sum(f, s) \notin N}
<1> SUFFICES ASSUME T # {} PROVE FALSE
  BY DEF T
<1>1. PICK s \in T : \A t \in T : ~ (t \subseteq s /\ t # s)
  <2>1. T \subseteq SUBSET S
    OBVIOUS
  <2> HIDE DEF T
  <2> QED
    BY <2>1, MinimalSubset
<1>2. s # {}
  BY SumEmpty
<1> DEFINE u == s \ {AnyOf(s)}
<1>3. Sum(f, u) \in N
  BY <1>1, <1>2, AnyOfIn
<1>4. Sum(f, s) = f[AnyOf(s)] + Sum(f, u)
  BY <1>2, SumUnfold, FS_Subset
<1>5. f[AnyOf(s)] \in N
  BY <1>2, AnyOfIn
<1>6. Sum(f, s) \in N
  BY <1>3, <1>4, <1>5
<1> QED
  BY <1>6

\* Any element may be taken out first.
LEMMA SumRemove ==
  ASSUME NEW f, NEW S, IsFiniteSet(S), \A x \in S : f[x] \in Int, NEW y \in S
  PROVE  Sum(f, S) = f[y] + Sum(f, S \ {y})
<1> DEFINE T == {s \in SUBSET S : \E z \in s : Sum(f, s) # f[z] + Sum(f, s \ {z})}
<1> SUFFICES ASSUME T # {} PROVE FALSE
  BY DEF T
<1>1. PICK s \in T : \A t \in T : ~ (t \subseteq s /\ t # s)
  <2>1. T \subseteq SUBSET S
    OBVIOUS
  <2> HIDE DEF T
  <2> QED
    BY <2>1, MinimalSubset
<1>2. PICK z \in s : Sum(f, s) # f[z] + Sum(f, s \ {z})
  BY <1>1
<1> DEFINE p == AnyOf(s)
<1>3. p \in s /\ s \in SUBSET S /\ IsFiniteSet(s)
  BY <1>2, AnyOfIn, FS_Subset
<1>4. Sum(f, s) = f[p] + Sum(f, s \ {p})
  BY <1>2, <1>3, SumUnfold
<1> HIDE DEF p
<1>5. p # z
  BY <1>2, <1>4
<1>0. ASSUME NEW t \in SUBSET s, t # s, NEW v \in t PROVE Sum(f, t) = f[v] + Sum(f, t \ {v})
  <2>1. t \notin T /\ t \in SUBSET S
    BY <1>1, <1>0
  <2> QED
    BY <2>1
<1> HIDE DEF T
<1>6. Sum(f, s \ {p}) = f[z] + Sum(f, (s \ {p}) \ {z})
  BY <1>2, <1>3, <1>5, <1>0
<1>7. Sum(f, s \ {z}) = f[p] + Sum(f, (s \ {z}) \ {p})
  BY <1>2, <1>3, <1>5, <1>0
<1> DEFINE a == Sum(f, (s \ {p}) \ {z})
<1>8. Sum(f, s \ {z}) = f[p] + a
  <2>1. (s \ {p}) \ {z} = (s \ {z}) \ {p}
    OBVIOUS
  <2> QED
    BY <1>7, <2>1
<1>9. f[p] \in Int /\ f[z] \in Int /\ a \in Int
  <2>1. IsFiniteSet((s \ {p}) \ {z}) /\ (s \ {p}) \ {z} \subseteq S
    BY <1>3, FS_RemoveElement
  <2> QED
    BY <1>2, <1>3, <2>1, SumType
<1>10. Sum(f, s) = f[p] + (f[z] + a)
  BY <1>4, <1>6
<1> HIDE DEF a
<1>11. Sum(f, s) = f[z] + (f[p] + a)
  BY <1>9, <1>10
<1> QED
  BY <1>2, <1>8, <1>11

\* And any element may be put in.
LEMMA SumAdd ==
  ASSUME NEW f, NEW S, IsFiniteSet(S), NEW y, y \notin S, \A x \in S \cup {y} : f[x] \in Int
  PROVE  Sum(f, S \cup {y}) = f[y] + Sum(f, S)
<1>1. IsFiniteSet(S \cup {y})
  BY FS_AddElement
<1>2. (S \cup {y}) \ {y} = S /\ y \in S \cup {y}
  OBVIOUS
<1>3. Sum(f, S \cup {y}) = f[y] + Sum(f, (S \cup {y}) \ {y})
  BY <1>1, <1>2, SumRemove
<1> QED
  BY <1>2, <1>3

\* Only the values of f on S matter.
LEMMA SumSame ==
  ASSUME NEW f, NEW g, NEW S, IsFiniteSet(S), \A x \in S : f[x] = g[x]
  PROVE  Sum(f, S) = Sum(g, S)
<1> DEFINE T == {s \in SUBSET S : Sum(f, s) # Sum(g, s)}
<1> SUFFICES ASSUME T # {} PROVE FALSE
  BY DEF T
<1>1. PICK s \in T : \A t \in T : ~ (t \subseteq s /\ t # s)
  <2>1. T \subseteq SUBSET S
    OBVIOUS
  <2> HIDE DEF T
  <2> QED
    BY <2>1, MinimalSubset
<1>2. s # {}
  BY SumEmpty
<1>3. AnyOf(s) \in s /\ IsFiniteSet(s)
  BY <1>2, AnyOfIn, FS_Subset
<1>4. Sum(f, s \ {AnyOf(s)}) = Sum(g, s \ {AnyOf(s)})
  BY <1>1, <1>3
<1>5. Sum(f, s) = Sum(g, s)
  BY <1>2, <1>3, <1>4, SumUnfold
<1> QED
  BY <1>5

\* One value changes, and the sum by the difference.
LEMMA SumUpdate ==
  ASSUME NEW f, NEW g, NEW S, IsFiniteSet(S), NEW y \in S,
         \A x \in S : f[x] \in Int /\ g[x] \in Int, \A x \in S \ {y} : f[x] = g[x]
  PROVE  Sum(g, S) = Sum(f, S) - f[y] + g[y]
<1>1. IsFiniteSet(S \ {y})
  BY FS_Subset
<1>2. Sum(f, S \ {y}) = Sum(g, S \ {y}) /\ Sum(f, S \ {y}) \in Int
  BY <1>1, SumSame, SumType
<1>3. Sum(f, S) = f[y] + Sum(f, S \ {y}) /\ Sum(g, S) = g[y] + Sum(g, S \ {y})
  BY SumRemove
<1> QED
  BY <1>2, <1>3

\* Larger values, larger sums.
LEMMA SumMonotone ==
  ASSUME NEW f, NEW g, NEW S, IsFiniteSet(S), \A x \in S : f[x] \in Int /\ g[x] \in Int /\ f[x] <= g[x]
  PROVE  Sum(f, S) <= Sum(g, S)
<1> DEFINE T == {s \in SUBSET S : ~ (Sum(f, s) <= Sum(g, s))}
<1> SUFFICES ASSUME T # {} PROVE FALSE
  BY DEF T
<1>1. PICK s \in T : \A t \in T : ~ (t \subseteq s /\ t # s)
  <2>1. T \subseteq SUBSET S
    OBVIOUS
  <2> HIDE DEF T
  <2> QED
    BY <2>1, MinimalSubset
<1>2. s # {}
  BY SumEmpty
<1> DEFINE u == s \ {AnyOf(s)}
<1>3. AnyOf(s) \in s /\ IsFiniteSet(s) /\ IsFiniteSet(u)
  BY <1>2, AnyOfIn, FS_Subset
<1>4. Sum(f, u) <= Sum(g, u)
  BY <1>1, <1>3
<1>5. Sum(f, u) \in Int /\ Sum(g, u) \in Int
  BY <1>3, SumType
<1>6. Sum(f, s) = f[AnyOf(s)] + Sum(f, u) /\ Sum(g, s) = g[AnyOf(s)] + Sum(g, u)
  BY <1>2, <1>3, SumUnfold
<1>7. Sum(f, s) <= Sum(g, s)
  BY <1>3, <1>4, <1>5, <1>6
<1> QED
  BY <1>7

-----------------------------------------------------------------------------
\* What holds of the empty set, and of a set with one more element, holds of
\* every finite set; P is the set of the sets it holds of.
LEMMA SetInduction ==
  ASSUME NEW S, IsFiniteSet(S), NEW P, {} \in P,
         \A s \in SUBSET S, x \in S : s \in P /\ x \notin s => s \cup {x} \in P
  PROVE  S \in P
<1> DEFINE T == {s \in SUBSET S : s \notin P}
<1> SUFFICES ASSUME T # {} PROVE FALSE
  BY DEF T
<1>1. PICK s \in T : \A t \in T : ~ (t \subseteq s /\ t # s)
  <2>1. T \subseteq SUBSET S
    OBVIOUS
  <2> HIDE DEF T
  <2> QED
    BY <2>1, MinimalSubset
<1>2. PICK x \in s : TRUE
  BY <1>1
<1>3. s \ {x} \in P
  BY <1>1, <1>2
<1>4. (s \ {x}) \cup {x} \in P
  BY <1>1, <1>2, <1>3
<1>5. (s \ {x}) \cup {x} = s
  BY <1>2
<1> QED
  BY <1>1, <1>4, <1>5

\* The sum of c[x] = f[x] + g[x].
LEMMA SumPlus ==
  ASSUME NEW f, NEW g, NEW c, NEW S, IsFiniteSet(S),
         \A x \in S : f[x] \in Int /\ g[x] \in Int /\ c[x] = f[x] + g[x]
  PROVE  Sum(c, S) = Sum(f, S) + Sum(g, S)
<1> DEFINE P == {s \in SUBSET S : Sum(c, s) = Sum(f, s) + Sum(g, s)}
<1>1. {} \in P
  BY SumEmpty
<1>2. ASSUME NEW s \in SUBSET S, NEW x \in S, s \in P, x \notin s PROVE s \cup {x} \in P
  <2>1. IsFiniteSet(s) /\ \A y \in s \cup {x} : f[y] \in Int /\ g[y] \in Int /\ c[y] \in Int
    BY FS_Subset
  <2>2. Sum(f, s) \in Int /\ Sum(g, s) \in Int
    BY <2>1, SumType
  <2>3. /\ Sum(f, s \cup {x}) = f[x] + Sum(f, s)
        /\ Sum(g, s \cup {x}) = g[x] + Sum(g, s)
        /\ Sum(c, s \cup {x}) = c[x] + Sum(c, s)
    BY <1>2, <2>1, SumAdd
  <2> QED
    BY <1>2, <2>2, <2>3
<1> HIDE DEF P
<1>3. S \in P
  BY <1>1, <1>2, SetInduction
<1> QED
  BY <1>3 DEF P

\* Where f is zero nothing is added.
LEMMA SumSupport ==
  ASSUME NEW f, NEW T, IsFiniteSet(T), NEW S \in SUBSET T,
         \A x \in T : f[x] \in Int, \A x \in T \ S : f[x] = 0
  PROVE  Sum(f, T) = Sum(f, S)
<1> DEFINE U == T \ S
           P == {s \in SUBSET U : Sum(f, S \cup s) = Sum(f, S)}
<1>1. {} \in P
  <2>1. S \cup {} = S
    OBVIOUS
  <2> QED
    BY <2>1
<1>2. ASSUME NEW s \in SUBSET U, NEW x \in U, s \in P, x \notin s PROVE s \cup {x} \in P
  <2>1. IsFiniteSet(S \cup s) /\ x \notin S \cup s /\ \A y \in (S \cup s) \cup {x} : f[y] \in Int
    BY <1>2, FS_Subset
  <2>2. Sum(f, (S \cup s) \cup {x}) = f[x] + Sum(f, S \cup s)
    BY <2>1, SumAdd
  <2>3. Sum(f, S \cup s) = Sum(f, S) /\ Sum(f, S \cup s) \in Int /\ f[x] = 0
    BY <1>2, <2>1, SumType
  <2>4. S \cup (s \cup {x}) = (S \cup s) \cup {x} /\ s \cup {x} \in SUBSET U
    BY <1>2
  <2> HIDE DEF U
  <2>5. Sum(f, (S \cup s) \cup {x}) = Sum(f, S)
    BY <2>2, <2>3
  <2>6. Sum(f, S \cup (s \cup {x})) = Sum(f, S)
    BY <2>4, <2>5, Zenon
  <2> QED
    BY <2>4, <2>6
<1>3. IsFiniteSet(U) /\ S \cup U = T
  BY FS_Subset
<1> HIDE DEF P
<1>4. U \in P
  BY <1>1, <1>2, <1>3, SetInduction
<1> QED
  BY <1>3, <1>4 DEF P

\* The sum of c[x] = k * f[x].
LEMMA SumScale ==
  ASSUME NEW f, NEW k \in Int, NEW c, NEW S, IsFiniteSet(S),
         \A x \in S : f[x] \in Int /\ c[x] = k * f[x]
  PROVE  Sum(c, S) = k * Sum(f, S)
<1> DEFINE P == {s \in SUBSET S : Sum(c, s) = k * Sum(f, s)}
<1>1. {} \in P
  BY SumEmpty
<1>2. ASSUME NEW s \in SUBSET S, NEW x \in S, s \in P, x \notin s PROVE s \cup {x} \in P
  <2>1. IsFiniteSet(s) /\ \A y \in s \cup {x} : f[y] \in Int /\ c[y] \in Int
    BY FS_Subset
  <2>2. Sum(f, s) \in Int
    BY <2>1, SumType
  <2>3. /\ Sum(f, s \cup {x}) = f[x] + Sum(f, s)
        /\ Sum(c, s \cup {x}) = c[x] + Sum(c, s)
    BY <1>2, <2>1, SumAdd
  <2>4. ASSUME NEW a \in Int, NEW b \in Int PROVE k * (a + b) = k * a + k * b
    OBVIOUS
  <2>5. k * (f[x] + Sum(f, s)) = k * f[x] + k * Sum(f, s)
    BY <2>2, <2>4
  <2>6. Sum(c, s \cup {x}) = k * Sum(f, s \cup {x})
    BY <1>2, <2>3, <2>5
  <2> QED
    BY <2>6
<1> HIDE DEF P
<1>3. S \in P
  BY <1>1, <1>2, SetInduction
<1> QED
  BY <1>3 DEF P

\* Adding up ones for the elements of A counts them.
LEMMA SumCount ==
  ASSUME NEW S, IsFiniteSet(S), NEW A \in SUBSET S, NEW f,
         \A x \in S : f[x] = IF x \in A THEN 1 ELSE 0
  PROVE  Sum(f, S) = Cardinality(A)
<1> DEFINE P == {s \in SUBSET S : Sum(f, s) = Cardinality(s \cap A)}
<1>1. {} \in P
  <2>1. {} \cap A = {}
    OBVIOUS
  <2> QED
    BY <2>1, SumEmpty, FS_EmptySet
<1>2. ASSUME NEW s \in SUBSET S, NEW x \in S, s \in P, x \notin s PROVE s \cup {x} \in P
  <2>1. IsFiniteSet(s) /\ IsFiniteSet(s \cap A)
    BY FS_Subset
  <2>2. Sum(f, s \cup {x}) = f[x] + Sum(f, s)
    BY <1>2, <2>1, SumAdd
  <2>3. Cardinality(s \cap A) \in Nat
    BY <2>1, FS_CardinalityType
  <2>4. Sum(f, s) = Cardinality(s \cap A)
    BY <1>2
  <2>5. ASSUME x \in A PROVE Sum(f, s \cup {x}) = Cardinality((s \cup {x}) \cap A)
    <3>1. (s \cup {x}) \cap A = (s \cap A) \cup {x} /\ x \notin s \cap A
      BY <1>2, <2>5
    <3>2. Cardinality((s \cap A) \cup {x}) = Cardinality(s \cap A) + 1
      BY <2>1, <3>1, FS_AddElement
    <3>3. f[x] = 1
      BY <2>5
    <3> QED
      BY <2>2, <2>3, <2>4, <3>1, <3>2, <3>3
  <2>6. ASSUME x \notin A PROVE Sum(f, s \cup {x}) = Cardinality((s \cup {x}) \cap A)
    <3>1. (s \cup {x}) \cap A = s \cap A
      BY <2>6
    <3>2. f[x] = 0
      BY <2>6
    <3>3. Sum(f, s \cup {x}) = Sum(f, s)
      BY <2>2, <2>3, <2>4, <3>2
    <3> QED
      BY <2>4, <3>1, <3>3
  <2>7. Sum(f, s \cup {x}) = Cardinality((s \cup {x}) \cap A)
    BY <2>5, <2>6
  <2> QED
    BY <2>7
<1> HIDE DEF P
<1>3. S \in P
  BY <1>1, <1>2, SetInduction
<1>4. S \cap A = A
  OBVIOUS
<1> QED
  BY <1>3, <1>4 DEF P

\* No part of a sum of naturals is more than the sum.
LEMMA SumBounds ==
  ASSUME NEW f, NEW S, IsFiniteSet(S), \A x \in S : f[x] \in Nat, NEW y \in S
  PROVE  f[y] <= Sum(f, S)
<1>1. Sum(f, S) = f[y] + Sum(f, S \ {y})
  BY SumRemove
<1>2. Sum(f, S \ {y}) \in Nat
  BY FS_Subset, SumType
<1> QED
  BY <1>1, <1>2

-----------------------------------------------------------------------------
(* Ranks in a strict total order of a finite set: A[u] are those before u. *)

StrictTotalOrder(A, S) ==
  /\ A \in [S -> SUBSET S]
  /\ \A u \in S : u \notin A[u]
  /\ \A u, v \in S : v \in A[u] => A[v] \subseteq A[u]
  /\ \A u, v \in S : u # v => u \in A[v] \/ v \in A[u]

\* A set that has everything before its elements.
Initial(A, s) == \A u \in s : A[u] \subseteq s

\* Some element of a nonempty part comes last in it.
LEMMA LastExists ==
  ASSUME NEW S, IsFiniteSet(S), NEW A, StrictTotalOrder(A, S), NEW s \in SUBSET S, s # {}
  PROVE  \E u \in s : \A v \in s : v # u => v \in A[u]
<1> DEFINE after(u) == {v \in s : u \in A[v]}
           T == {after(u) : u \in s}
<1>1. T \subseteq SUBSET S /\ T # {}
  OBVIOUS
<1>2. PICK t \in T : \A w \in T : ~ (w \subseteq t /\ w # t)
  <2> HIDE DEF T
  <2> QED
    BY <1>1, MinimalSubset
<1>3. PICK u \in s : t = after(u)
  BY <1>2
<1>4. ASSUME NEW v \in after(u) PROVE FALSE
  <2>1. after(v) \subseteq after(u)
    BY <1>4 DEF StrictTotalOrder
  <2>2. v \notin after(v)
    BY <1>4 DEF StrictTotalOrder
  <2>3. after(v) \in T
    BY <1>4
  <2> QED
    BY <1>2, <1>3, <1>4, <2>1, <2>2, <2>3
<1> QED
  BY <1>3, <1>4 DEF StrictTotalOrder

\* There is an initial part of every size.
LEMMA InitialExists ==
  ASSUME NEW S, IsFiniteSet(S), NEW A, StrictTotalOrder(A, S), NEW k \in Nat, k <= Cardinality(S)
  PROVE  \E s \in SUBSET S : Initial(A, s) /\ Cardinality(s) = k
<1> DEFINE T == {s \in SUBSET S : Initial(A, s) /\ Cardinality(s) >= k}
<1>1. S \in T
  BY DEF Initial, StrictTotalOrder
<1>2. PICK s \in T : \A t \in T : ~ (t \subseteq s /\ t # s)
  <2>1. T \subseteq SUBSET S /\ T # {}
    BY <1>1
  <2> HIDE DEF T
  <2> QED
    BY <2>1, MinimalSubset
<1>3. IsFiniteSet(s) /\ Cardinality(s) \in Nat
  BY FS_Subset, FS_CardinalityType
<1>4. CASE Cardinality(s) > k
  <2>1. s # {}
    BY <1>3, <1>4, FS_EmptySet
  <2>2. PICK u \in s : \A v \in s : v # u => v \in A[u]
    BY <2>1, LastExists
  <2>3. Initial(A, s \ {u})
    <3> SUFFICES ASSUME NEW v \in s \ {u}, NEW w \in A[v] PROVE w \in s \ {u}
      BY DEF Initial
    <3>1. w \in s
      BY <1>2 DEF Initial
    <3>2. v \in A[u] /\ A[v] \subseteq A[u]
      BY <2>2 DEF StrictTotalOrder
    <3>3. u \notin A[u]
      BY <2>2 DEF StrictTotalOrder
    <3> QED
      BY <3>1, <3>2, <3>3
  <2>4. Cardinality(s \ {u}) = Cardinality(s) - 1
    BY <1>3, <2>2, FS_RemoveElement
  <2>5. s \ {u} \in T
    BY <1>3, <1>4, <2>3, <2>4
  <2> QED
    BY <1>2, <2>2, <2>5
<1> QED
  BY <1>2, <1>3, <1>4

\* As many elements have a rank below k as there are ranks below k.
LEMMA RanksBelow ==
  ASSUME NEW S, IsFiniteSet(S), NEW A, StrictTotalOrder(A, S), NEW k \in Nat, k <= Cardinality(S)
  PROVE  Cardinality({u \in S : Cardinality(A[u]) < k}) = k
<1>1. PICK s \in SUBSET S : Initial(A, s) /\ Cardinality(s) = k
  BY InitialExists
<1>2. IsFiniteSet(s)
  BY FS_Subset
<1>3. ASSUME NEW u \in s PROVE Cardinality(A[u]) < k
  <2>1. A[u] \subseteq s \ {u}
    BY <1>1 DEF Initial, StrictTotalOrder
  <2>2. IsFiniteSet(s \ {u}) /\ Cardinality(s \ {u}) = k - 1
    BY <1>1, <1>2, FS_RemoveElement
  <2>3. Cardinality(A[u]) <= Cardinality(s \ {u}) /\ IsFiniteSet(A[u])
    BY <2>1, <2>2, FS_Subset
  <2>4. Cardinality(A[u]) \in Nat
    BY <2>3, FS_CardinalityType
  <2> QED
    BY <2>2, <2>3, <2>4
<1>4. ASSUME NEW u \in S \ s PROVE ~ (Cardinality(A[u]) < k)
  <2>1. s \subseteq A[u]
    BY <1>1, <1>4 DEF Initial, StrictTotalOrder
  <2>2. IsFiniteSet(A[u])
    BY FS_Subset DEF StrictTotalOrder
  <2>3. k <= Cardinality(A[u]) /\ Cardinality(A[u]) \in Nat
    BY <1>1, <2>1, <2>2, FS_Subset, FS_CardinalityType
  <2> QED
    BY <2>3
<1>5. {u \in S : Cardinality(A[u]) < k} = s
  BY <1>3, <1>4
<1> QED
  BY <1>1, <1>5

=============================================================================
