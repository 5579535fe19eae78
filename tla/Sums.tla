-------------------------------- MODULE Sums --------------------------------
(***************************************************************************)
(* What a proof needs to know of SumFunctionOnSet, Max and Min.  The        *)
(* library's induction over finite sets takes the predicate as a parameter; *)
(* here a set that is a counterexample is taken as small as there is one.   *)
(***************************************************************************)
EXTENDS Integers, FiniteSetsExt, Functions, FiniteSetTheorems, WellFoundedInduction, TLAPS

-----------------------------------------------------------------------------
\* Among some subsets of a finite set there is one that contains no other.
LEMMA Smallest ==
  ASSUME NEW U, IsFiniteSet(U), NEW B \in SUBSET SUBSET U, B # {}
  PROVE  \E S \in B : \A T \in B : T \subseteq S => T = S
<1>1. IsWellFoundedOn(StrictSubsetOrdering(U), SUBSET U)
  BY FS_StrictSubsetOrderingWellFounded, FS_FiniteSubsetsOfFinite
<1>2. PICK S \in B : \A T \in B : ~(<<T, S>> \in StrictSubsetOrdering(U))
  BY <1>1, WFMin
<1>3. ASSUME NEW T \in B, T \subseteq S PROVE T = S
  BY <1>2, <1>3 DEF StrictSubsetOrdering
<1>. QED
  BY <1>3

-----------------------------------------------------------------------------
(* The definition of a sum: a function of the subsets, that takes away an   *)
(* element at a time.                                                       *)

First(s) == CHOOSE x \in s : TRUE

\* g is the function that SumFunctionOnSet(f, S) defines.
Totals(g, f, S) ==
    g = [s \in SUBSET S |-> IF s = {} THEN 0 ELSE f[First(s)] + g[s \ {First(s)}]]

\* The element that a sum takes away is in the set.
LEMMA FirstIsIn == ASSUME NEW s, s # {} PROVE First(s) \in s
BY DEF First

\* The sums of the subsets do not depend on the set they are subsets of.
LEMMA TotalsAgree ==
  ASSUME NEW f, NEW S, NEW T, IsFiniteSet(S), NEW g, NEW h, Totals(g, f, S), Totals(h, f, T),
         NEW u \in SUBSET S, u \in SUBSET T
  PROVE  g[u] = h[u]
<1>. DEFINE B == {s \in SUBSET S : s \in SUBSET T /\ g[s] # h[s]}
<1>. SUFFICES ASSUME B # {} PROVE FALSE
  OBVIOUS
<1>1. PICK s \in B : \A t \in B : t \subseteq s => t = s
  <2>1. B \in SUBSET SUBSET S
    OBVIOUS
  <2>. HIDE DEF B
  <2>. QED
    BY <2>1, Smallest
<1>2. CASE s = {}
  <2>1. g[s] = 0 /\ h[s] = 0
    BY <1>1, <1>2 DEF Totals
  <2>. QED
    BY <1>1, <2>1
<1>3. CASE s # {}
  <2>. DEFINE rest == s \ {First(s)}
  <2>1. rest # s /\ rest \subseteq s
    BY <1>3, FirstIsIn
  <2>2. g[rest] = h[rest]
    BY <1>1, <2>1
  <2>3. g[s] = f[First(s)] + g[rest]
    BY <1>1, <1>3 DEF Totals
  <2>4. h[s] = f[First(s)] + h[rest]
    BY <1>1, <1>3 DEF Totals
  <2>. QED
    BY <1>1, <2>2, <2>3, <2>4
<1>. QED
  BY <1>2, <1>3

\* There is such a function, so that the sum is not a choice out of nothing.
LEMMA TotalsExist ==
  ASSUME NEW f, NEW U, IsFiniteSet(U)
  PROVE  \A S \in SUBSET U : \E g : Totals(g, f, S)
<1>. DEFINE B == {S \in SUBSET U : ~ \E g : Totals(g, f, S)}
<1>. SUFFICES ASSUME B # {} PROVE FALSE
  OBVIOUS
<1>1. PICK S \in B : \A T \in B : T \subseteq S => T = S
  <2>1. B \in SUBSET SUBSET U
    OBVIOUS
  <2>. HIDE DEF B
  <2>. QED
    BY <2>1, Smallest
<1>. DEFINE G(s) == CHOOSE g : Totals(g, f, s)
            h == [s \in SUBSET S |-> IF s = {} THEN 0
                                     ELSE f[First(s)] + G(s \ {First(s)})[s \ {First(s)}]]
<1>2. \A s \in SUBSET S : s # S => Totals(G(s), f, s)
  BY <1>1
<1>. HIDE DEF G
<1>3. ASSUME NEW s \in SUBSET S, s # S PROVE h[s] = G(s)[s]
  <2>1. CASE s = {}
    BY <1>2, <1>3, <2>1 DEF Totals
  <2>2. CASE s # {}
    <3>. DEFINE rest == s \ {First(s)}
    <3>1. rest # s /\ rest \subseteq s /\ rest # S
      BY <2>2, FirstIsIn
    <3>2. Totals(G(s), f, s) /\ Totals(G(rest), f, rest) /\ IsFiniteSet(s)
      BY <1>2, <1>3, <3>1, FS_Subset
    <3>3. G(s)[rest] = G(rest)[rest]
      BY <3>1, <3>2, TotalsAgree
    <3>4. G(s)[s] = f[First(s)] + G(s)[rest]
      BY <2>2, <3>2 DEF Totals
    <3>. QED
      BY <2>2, <3>3, <3>4
  <2>. QED
    BY <2>1, <2>2
<1>4. Totals(h, f, S)
  <2>1. ASSUME NEW s \in SUBSET S, s # {}
        PROVE  h[s] = f[First(s)] + h[s \ {First(s)}]
    <3>1. s \ {First(s)} \in SUBSET S /\ s \ {First(s)} # S
      BY <2>1, FirstIsIn
    <3>. QED
      BY <1>3, <2>1, <3>1
  <2>2. {} \in SUBSET S => h[{}] = 0
    OBVIOUS
  <2>3. h = [s \in SUBSET S |-> h[s]]
    OBVIOUS
  <2>. HIDE DEF h
  <2>. QED
    BY <2>1, <2>2, <2>3 DEF Totals
<1>. QED
  BY <1>1, <1>4

\* SumFunctionOnSet is the value such a function has for the whole set.
LEMMA SumIsTotal ==
  ASSUME NEW f, NEW S, IsFiniteSet(S)
  PROVE  \E g : Totals(g, f, S) /\ SumFunctionOnSet(f, S) = g[S]
<1>1. SumFunctionOnSet(f, S) = (CHOOSE g : Totals(g, f, S))[S]
  BY DEF SumFunctionOnSet, FoldFunctionOnSet, MapThenFoldSet, Totals, First
<1>2. \E g : Totals(g, f, S)
  BY TotalsExist
<1>. QED
  BY <1>1, <1>2

\* The sum takes away the element it likes.
LEMMA SumUnfolds ==
  ASSUME NEW f, NEW S, IsFiniteSet(S)
  PROVE  /\ S = {} => SumFunctionOnSet(f, S) = 0
         /\ S # {} => SumFunctionOnSet(f, S) = f[First(S)] + SumFunctionOnSet(f, S \ {First(S)})
<1>. PICK g : Totals(g, f, S) /\ SumFunctionOnSet(f, S) = g[S]
  BY SumIsTotal
<1>1. ASSUME S = {} PROVE g[S] = 0
  BY <1>1 DEF Totals
<1>2. ASSUME S # {} PROVE SumFunctionOnSet(f, S) = f[First(S)] + SumFunctionOnSet(f, S \ {First(S)})
  <2>. DEFINE rest == S \ {First(S)}
  <2>1. IsFiniteSet(rest) /\ rest \subseteq S
    BY FS_Subset
  <2>. PICK h : Totals(h, f, rest) /\ SumFunctionOnSet(f, rest) = h[rest]
    BY <2>1, SumIsTotal
  <2>2. g[rest] = h[rest]
    BY <2>1, TotalsAgree
  <2>3. g[S] = f[First(S)] + g[rest]
    BY <1>2 DEF Totals
  <2>. QED
    BY <2>2, <2>3
<1>. QED
  BY <1>1, <1>2

-----------------------------------------------------------------------------
(* The sum of natural numbers.                                              *)

\* A sum of natural numbers is one.
LEMMA SumIsNat ==
  ASSUME NEW f, NEW U, IsFiniteSet(U), \A x \in U : f[x] \in Nat
  PROVE  \A S \in SUBSET U : SumFunctionOnSet(f, S) \in Nat
<1>. DEFINE B == {S \in SUBSET U : SumFunctionOnSet(f, S) \notin Nat}
<1>. SUFFICES ASSUME B # {} PROVE FALSE
  OBVIOUS
<1>1. PICK S \in B : \A T \in B : T \subseteq S => T = S
  <2>1. B \in SUBSET SUBSET U
    OBVIOUS
  <2>. HIDE DEF B
  <2>. QED
    BY <2>1, Smallest
<1>2. IsFiniteSet(S) /\ SumFunctionOnSet(f, S) \notin Nat
  BY FS_Subset
<1>3. S # {}
  <2>. SUFFICES ASSUME S = {} PROVE FALSE
    OBVIOUS
  <2>1. SumFunctionOnSet(f, S) = 0
    BY <1>2, SumUnfolds
  <2>. QED
    BY <1>2, <2>1
<1>. DEFINE rest == S \ {First(S)}
<1>4. First(S) \in S /\ rest # S
  BY <1>3, FirstIsIn
<1>5. SumFunctionOnSet(f, rest) \in Nat /\ f[First(S)] \in Nat
  BY <1>1, <1>4
<1>. QED
  BY <1>2, <1>3, <1>5, SumUnfolds

\* The sum takes away any element.
LEMMA SumTakesAway ==
  ASSUME NEW f, NEW U, IsFiniteSet(U), \A x \in U : f[x] \in Nat
  PROVE  \A S \in SUBSET U : \A x \in S :
            SumFunctionOnSet(f, S) = f[x] + SumFunctionOnSet(f, S \ {x})
<1>. DEFINE Sum(S) == SumFunctionOnSet(f, S)
            B == {S \in SUBSET U : \E x \in S : Sum(S) # f[x] + Sum(S \ {x})}
<1>. SUFFICES ASSUME B # {} PROVE FALSE
  OBVIOUS
<1>1. PICK S \in B : \A T \in B : T \subseteq S => T = S
  <2>1. B \in SUBSET SUBSET U
    OBVIOUS
  <2>. HIDE DEF B
  <2>. QED
    BY <2>1, Smallest
<1>2. PICK x \in S : Sum(S) # f[x] + Sum(S \ {x})
  OBVIOUS
<1>. DEFINE y == First(S)
<1>3. /\ y \in S /\ IsFiniteSet(S) /\ IsFiniteSet(S \ {x}) /\ IsFiniteSet(S \ {y})
      /\ S \in SUBSET U
  BY <1>2, FirstIsIn, FS_Subset
<1>4. Sum(S) = f[y] + Sum(S \ {y})
  BY <1>2, <1>3, SumUnfolds
<1>. HIDE DEF y
<1>5. x # y
  BY <1>2, <1>4
<1>6. \A T \in SUBSET S : T # S => \A z \in T : Sum(T) = f[z] + Sum(T \ {z})
  <2>. SUFFICES ASSUME NEW T \in SUBSET S, T # S PROVE T \notin B
    BY <1>3
  <2>. QED
    BY <1>1
<1>7. Sum(S \ {x}) = f[y] + Sum((S \ {x}) \ {y})
  <2>1. S \ {x} \in SUBSET S /\ S \ {x} # S /\ y \in S \ {x}
    BY <1>3, <1>5
  <2>. HIDE DEF Sum
  <2>. QED
    BY <1>6, <2>1
<1>10. Sum(S \ {y}) = f[x] + Sum((S \ {y}) \ {x})
  <2>1. S \ {y} \in SUBSET S /\ S \ {y} # S /\ x \in S \ {y}
    BY <1>3, <1>5
  <2>. HIDE DEF Sum
  <2>. QED
    BY <1>6, <2>1
<1>8. (S \ {x}) \ {y} = (S \ {y}) \ {x} /\ (S \ {x}) \ {y} \in SUBSET U
  BY <1>3
<1>9. /\ f[x] \in Nat /\ f[y] \in Nat /\ Sum((S \ {x}) \ {y}) \in Nat
  BY <1>2, <1>3, <1>8, SumIsNat
<1>. HIDE DEF Sum
<1>. QED
  BY <1>2, <1>4, <1>7, <1>8, <1>9, <1>10

\* The more is added, the more it is.
LEMMA SumGrows ==
  ASSUME NEW f, NEW U, IsFiniteSet(U), \A x \in U : f[x] \in Nat, NEW S \in SUBSET U
  PROVE  SumFunctionOnSet(f, S) <= SumFunctionOnSet(f, U)
<1>. DEFINE Sum(T) == SumFunctionOnSet(f, T)
            B == {T \in SUBSET U : S \subseteq T /\ ~(Sum(S) <= Sum(T))}
<1>. SUFFICES ASSUME B # {} PROVE FALSE
  OBVIOUS
<1>1. PICK T \in B : \A V \in B : V \subseteq T => V = T
  <2>1. B \in SUBSET SUBSET U
    OBVIOUS
  <2>. HIDE DEF B
  <2>. QED
    BY <2>1, Smallest
<1>2. S \subseteq T /\ ~(Sum(S) <= Sum(T)) /\ T \subseteq U
  BY <1>1
<1>3. \A V \in SUBSET U : Sum(V) \in Nat
  BY SumIsNat
<1>4. PICK x \in T : x \notin S
  BY <1>2, <1>3
<1>5. Sum(S) <= Sum(T \ {x})
  BY <1>1, <1>2, <1>4
<1>6. Sum(T) = f[x] + Sum(T \ {x})
  BY <1>2, <1>4, SumTakesAway
<1>7. f[x] \in Nat /\ Sum(S) \in Nat /\ Sum(T \ {x}) \in Nat
  BY <1>2, <1>3, <1>4
<1>. HIDE DEF Sum
<1>. QED
  BY <1>2, <1>5, <1>6, <1>7

-----------------------------------------------------------------------------
(* The first and the last of some numbers.                                  *)

\* Of finitely many things in a row one comes first.
LEMMA FirstOfAnOrder ==
  ASSUME NEW U, IsFiniteSet(U), U # {}, NEW R,
         \A x, y, z \in U : /\ <<x, y>> \in R \/ <<y, x>> \in R
                            /\ <<x, y>> \in R /\ <<y, z>> \in R => <<x, z>> \in R
  PROVE  \E x \in U : \A y \in U : <<x, y>> \in R
<1>. DEFINE B == {S \in SUBSET U : S # {} /\ ~ \E x \in S : \A y \in S : <<x, y>> \in R}
<1>. SUFFICES ASSUME B # {} PROVE FALSE
  OBVIOUS
<1>1. PICK S \in B : \A T \in B : T \subseteq S => T = S
  <2>1. B \in SUBSET SUBSET U
    OBVIOUS
  <2>. HIDE DEF B
  <2>. QED
    BY <2>1, Smallest
<1>2. PICK x \in S : TRUE
  OBVIOUS
<1>3. CASE S \ {x} = {}
  BY <1>3
<1>4. CASE S \ {x} # {}
  <2>1. S \ {x} # S /\ S \ {x} \subseteq S /\ S \ {x} \in SUBSET U
    OBVIOUS
  <2>4. S \ {x} \notin B
    BY <1>1, <2>1
  <2>2. PICK z \in S \ {x} : \A y \in S \ {x} : <<z, y>> \in R
    BY <1>4, <2>1, <2>4
  <2>3. (\A y \in S : <<x, y>> \in R) \/ (\A y \in S : <<z, y>> \in R)
    BY <2>2
  <2>. QED
    BY <2>3
<1>. QED
  BY <1>3, <1>4

\* Max is in a finite set of numbers that is not empty, and is the largest there.
LEMMA MaxExists ==
  ASSUME NEW U, IsFiniteSet(U), U # {}, U \subseteq Int
  PROVE  Max(U) \in U /\ \A x \in U : x <= Max(U)
<1>. DEFINE R == {p \in U \X U : p[1] >= p[2]}
<1>1. \A x, y \in U : <<x, y>> \in R <=> x >= y
  OBVIOUS
<1>. HIDE DEF R
<1>2. \A x, y, z \in U : /\ <<x, y>> \in R \/ <<y, x>> \in R
                         /\ <<x, y>> \in R /\ <<y, z>> \in R => <<x, z>> \in R
  <2>. SUFFICES ASSUME NEW x \in U, NEW y \in U, NEW z \in U
                PROVE  /\ <<x, y>> \in R \/ <<y, x>> \in R
                       /\ <<x, y>> \in R /\ <<y, z>> \in R => <<x, z>> \in R
    OBVIOUS
  <2>1. x \in Int /\ y \in Int /\ z \in Int
    OBVIOUS
  <2>2. /\ <<x, y>> \in R <=> x >= y
        /\ <<y, x>> \in R <=> y >= x
        /\ <<y, z>> \in R <=> y >= z
        /\ <<x, z>> \in R <=> x >= z
    BY <1>1
  <2>. QED
    BY <2>1, <2>2
<1>5. \E x \in U : \A y \in U : <<x, y>> \in R
  BY <1>2, FirstOfAnOrder
<1>3. \E x \in U : \A y \in U : x >= y
  BY <1>1, <1>5
<1>4. Max(U) \in U /\ \A y \in U : Max(U) >= y
  BY <1>3 DEF Max
<1>. QED
  BY <1>4

\* So is Min, and is the smallest.
LEMMA MinExists ==
  ASSUME NEW U, IsFiniteSet(U), U # {}, U \subseteq Int
  PROVE  Min(U) \in U /\ \A x \in U : Min(U) <= x
<1>. DEFINE R == {p \in U \X U : p[1] <= p[2]}
<1>1. \A x, y \in U : <<x, y>> \in R <=> x <= y
  OBVIOUS
<1>. HIDE DEF R
<1>2. \A x, y, z \in U : /\ <<x, y>> \in R \/ <<y, x>> \in R
                         /\ <<x, y>> \in R /\ <<y, z>> \in R => <<x, z>> \in R
  <2>. SUFFICES ASSUME NEW x \in U, NEW y \in U, NEW z \in U
                PROVE  /\ <<x, y>> \in R \/ <<y, x>> \in R
                       /\ <<x, y>> \in R /\ <<y, z>> \in R => <<x, z>> \in R
    OBVIOUS
  <2>1. x \in Int /\ y \in Int /\ z \in Int
    OBVIOUS
  <2>2. /\ <<x, y>> \in R <=> x <= y
        /\ <<y, x>> \in R <=> y <= x
        /\ <<y, z>> \in R <=> y <= z
        /\ <<x, z>> \in R <=> x <= z
    BY <1>1
  <2>. QED
    BY <2>1, <2>2
<1>5. \E x \in U : \A y \in U : <<x, y>> \in R
  BY <1>2, FirstOfAnOrder
<1>3. \E x \in U : \A y \in U : x <= y
  BY <1>1, <1>5
<1>4. Min(U) \in U /\ \A y \in U : Min(U) <= y
  BY <1>3 DEF Min
<1>. QED
  BY <1>4

=============================================================================
