------------------------------ MODULE SumProofs ------------------------------
(***************************************************************************)
(* Sums of functions over finite sets, for the proofs about ledgers: what  *)
(* SumFunctionOnSet and SumFunction of the community modules compute.      *)
(*                                                                         *)
(* The sum is a fold, a recursive function on the subsets of its domain.   *)
(* That this recursion defines anything is proved here by hand, because    *)
(* the induction theorems of the library take an operator as a parameter:  *)
(* an induction is an argument about a minimal counterexample, which       *)
(* exists because strict inclusion of finite sets is well-founded.         *)
(***************************************************************************)
EXTENDS Functions, FiniteSetTheorems, TLAPS

-----------------------------------------------------------------------------
(* Induction over finite sets.                                             *)

\* Among subsets of a finite set there is one that contains no other.
LEMMA MinimalSubset ==
    ASSUME NEW S, IsFiniteSet(S), NEW Bad \in SUBSET SUBSET S, Bad # {}
    PROVE  \E T \in Bad : \A U \in Bad : ~ (U \subseteq T /\ U # T)
<1>1. IsWellFoundedOn(StrictSubsetOrdering(S), FiniteSubsetsOf(S))
    BY FS_StrictSubsetOrderingWellFounded
<1>2. Bad \subseteq FiniteSubsetsOf(S)
    BY FS_Subset DEF FiniteSubsetsOf
<1>3. \E T \in Bad : \A U \in Bad : ~ (<<U, T>> \in StrictSubsetOrdering(S))
    BY <1>1, <1>2, WFMin
<1>4. PICK T \in Bad : \A U \in Bad : ~ (<<U, T>> \in StrictSubsetOrdering(S))
    BY <1>3
<1>5. \A U \in Bad : U \subseteq T /\ U # T => <<U, T>> \in StrictSubsetOrdering(S)
    BY DEF StrictSubsetOrdering
<1>6. \A U \in Bad : ~ (U \subseteq T /\ U # T)
    BY <1>4, <1>5, Zenon
<1> QED
    BY <1>6

-----------------------------------------------------------------------------
(* The fold.                                                               *)

Some(s) == CHOOSE x \in s : TRUE

LEMMA SomeMember ==
    ASSUME NEW s, s # {}
    PROVE  Some(s) \in s
BY DEF Some

\* g satisfies the equation of the fold of f on all the subsets of T.
Folding(g, f, T) ==
    g = [ s \in SUBSET T |->
            IF s = {} THEN 0 ELSE f[Some(s)] + g[s \ {Some(s)}] ]

LEMMA SumIsFold ==
    ASSUME NEW f, NEW S
    PROVE  SumFunctionOnSet(f, S) = (CHOOSE g : Folding(g, f, S))[S]
BY DEF SumFunctionOnSet, FoldFunctionOnSet, MapThenFoldSet, Some, Folding

LEMMA FoldingAt ==
    ASSUME NEW f, NEW T, NEW g, Folding(g, f, T), NEW s \in SUBSET T
    PROVE  /\ s = {} => g[s] = 0
           /\ s # {} => g[s] = f[Some(s)] + g[s \ {Some(s)}]
BY DEF Folding

\* Two such functions agree where both are defined.
LEMMA FoldingsAgree ==
    ASSUME NEW S, IsFiniteSet(S), NEW f,
           NEW T \in SUBSET S, NEW g, Folding(g, f, T),
           NEW U \in SUBSET S, NEW h, Folding(h, f, U),
           NEW s, s \subseteq T, s \subseteq U
    PROVE  g[s] = h[s]
<1> DEFINE Bad == { r \in SUBSET S : r \subseteq T /\ r \subseteq U /\ g[r] # h[r] }
<1>1. SUFFICES ASSUME Bad # {} PROVE FALSE
    OBVIOUS
<1>2. PICK r \in Bad : \A q \in Bad : ~ (q \subseteq r /\ q # r)
    <2>1. Bad \in SUBSET SUBSET S
        OBVIOUS
    <2> HIDE DEF Bad
    <2> QED
        BY <1>1, <2>1, MinimalSubset
<1>3. r # {}
    BY <1>2, FoldingAt
<1> DEFINE q == r \ {Some(r)}
<1>4. q \subseteq r /\ q # r /\ q \in SUBSET S
    BY <1>2, <1>3, SomeMember
<1>5. g[q] = h[q]
    BY <1>2, <1>4
<1>6. g[r] = f[Some(r)] + g[q] /\ h[r] = f[Some(r)] + h[q]
    BY <1>2, <1>3, FoldingAt
<1> QED
    BY <1>2, <1>5, <1>6

\* There is one for every finite set.
LEMMA FoldingExists ==
    ASSUME NEW S, IsFiniteSet(S), NEW f
    PROVE  \E g : Folding(g, f, S)
<1> DEFINE Bad == { T \in SUBSET S : ~ \E g : Folding(g, f, T) }
<1>1. SUFFICES ASSUME Bad # {} PROVE FALSE
    OBVIOUS
<1>2. PICK T \in Bad : \A U \in Bad : ~ (U \subseteq T /\ U # T)
    <2>1. Bad \in SUBSET SUBSET S
        OBVIOUS
    <2> HIDE DEF Bad
    <2> QED
        BY <1>1, <2>1, MinimalSubset
<1> DEFINE fold(U) == CHOOSE g : Folding(g, f, U)
           rest(s) == s \ {Some(s)}
           G == [ s \in SUBSET T |->
                    IF s = {} THEN 0 ELSE f[Some(s)] + fold(rest(s))[rest(s)] ]
<1>3. ASSUME NEW U \in SUBSET T, U # T
      PROVE  Folding(fold(U), f, U)
    BY <1>2, <1>3
<1>4. ASSUME NEW s \in SUBSET T, s # {}
      PROVE  rest(s) \in SUBSET T /\ rest(s) # T
    BY <1>4, SomeMember
<1>5. ASSUME NEW s \in SUBSET T, s # T
      PROVE  G[s] = fold(s)[s]
    <2>1. Folding(fold(s), f, s)
        BY <1>3, <1>5
    <2>2. CASE s = {}
        BY <2>1, <2>2, FoldingAt
    <2>3. CASE s # {}
        <3>1. fold(s)[s] = f[Some(s)] + fold(s)[rest(s)]
            BY <2>1, <2>3, FoldingAt
        <3>2. Folding(fold(rest(s)), f, rest(s))
            BY <1>3, <1>4, <2>3
        <3>3. fold(s)[rest(s)] = fold(rest(s))[rest(s)]
            <4>1. s \in SUBSET S /\ rest(s) \in SUBSET S /\ rest(s) \subseteq s
                BY <1>2
            <4> HIDE DEF fold, rest
            <4> QED
                BY <2>1, <3>2, <4>1, FoldingsAgree
        <3>4. G[s] = f[Some(s)] + fold(rest(s))[rest(s)]
            BY <2>3
        <3> HIDE DEF G, fold, rest
        <3> QED
            BY <3>1, <3>3, <3>4
    <2> QED
        BY <2>2, <2>3
<1>6. Folding(G, f, T)
    <2>1. ASSUME NEW s \in SUBSET T, s # {}
          PROVE  G[s] = f[Some(s)] + G[s \ {Some(s)}]
        <3>1. G[s] = f[Some(s)] + fold(rest(s))[rest(s)]
            BY <2>1
        <3>2. G[rest(s)] = fold(rest(s))[rest(s)]
            <4>1. rest(s) \in SUBSET T /\ rest(s) # T
                BY <1>4, <2>1
            <4> HIDE DEF G, fold, rest
            <4> QED
                BY <1>5, <4>1
        <3> QED
            BY <3>1, <3>2
    <2>2. G = [ s \in SUBSET T |->
                  IF s = {} THEN 0 ELSE f[Some(s)] + G[s \ {Some(s)}] ]
        <3>1. G = [s \in SUBSET T |-> G[s]]
            OBVIOUS
        <3>2. G[{}] = 0
            OBVIOUS
        <3>3. \A s \in SUBSET T :
                G[s] = IF s = {} THEN 0 ELSE f[Some(s)] + G[s \ {Some(s)}]
            <4> HIDE DEF G
            <4> QED
                BY <2>1, <3>2
        <3> HIDE DEF G
        <3> QED
            BY <3>1, <3>3, Zenon
    <2> QED
        BY <2>2 DEF Folding
<1> QED
    BY <1>2, <1>6

\* The equation of the sum, with the element that CHOOSE takes first.
LEMMA SumUnfold ==
    ASSUME NEW f, NEW S, IsFiniteSet(S)
    PROVE  /\ S = {} => SumFunctionOnSet(f, S) = 0
           /\ S # {} => SumFunctionOnSet(f, S)
                          = f[Some(S)] + SumFunctionOnSet(f, S \ {Some(S)})
<1> DEFINE g == CHOOSE x : Folding(x, f, S)
           R == S \ {Some(S)}
           h == CHOOSE x : Folding(x, f, R)
<1>1. Folding(g, f, S)
    BY FoldingExists
<1>2. IsFiniteSet(R) /\ R \in SUBSET S
    BY FS_Subset
<1>3. Folding(h, f, R)
    <2> HIDE DEF R
    <2> QED
        BY <1>2, FoldingExists
<1>4. SumFunctionOnSet(f, S) = g[S] /\ SumFunctionOnSet(f, R) = h[R]
    BY SumIsFold
<1>5. g[R] = h[R]
    <2> HIDE DEF g, h, R
    <2> QED
        BY <1>1, <1>2, <1>3, FoldingsAgree
<1>6. /\ S = {} => g[S] = 0
      /\ S # {} => g[S] = f[Some(S)] + g[R]
    <2> HIDE DEF g
    <2> QED
        BY <1>1, FoldingAt
<1> QED
    BY <1>4, <1>5, <1>6

-----------------------------------------------------------------------------
(* Sums of natural numbers over a finite set.                              *)

\* The sum of natural numbers is one.
LEMMA SumType ==
    ASSUME NEW S, IsFiniteSet(S), NEW f, \A x \in S : f[x] \in Nat
    PROVE  SumFunctionOnSet(f, S) \in Nat
<1> DEFINE Bad == { T \in SUBSET S : SumFunctionOnSet(f, T) \notin Nat }
<1>1. SUFFICES ASSUME Bad # {} PROVE FALSE
    OBVIOUS
<1>2. PICK T \in Bad : \A U \in Bad : ~ (U \subseteq T /\ U # T)
    <2>1. Bad \in SUBSET SUBSET S
        OBVIOUS
    <2> HIDE DEF Bad
    <2> QED
        BY <1>1, <2>1, MinimalSubset
<1> DEFINE U == T \ {Some(T)}
<1>3. IsFiniteSet(T)
    BY <1>2, FS_Subset
<1>4. T # {} /\ SumFunctionOnSet(f, T) = f[Some(T)] + SumFunctionOnSet(f, U)
    BY <1>2, <1>3, SumUnfold
<1>5. Some(T) \in T /\ U \subseteq T /\ U # T /\ U \in SUBSET S
    BY <1>2, <1>4, SomeMember
<1>6. SumFunctionOnSet(f, U) \in Nat
    BY <1>2, <1>5
<1> QED
    BY <1>2, <1>4, <1>5, <1>6

\* The order does not matter: any element may be taken first.
LEMMA SumRemove ==
    ASSUME NEW S, IsFiniteSet(S), NEW f, \A x \in S : f[x] \in Nat,
           NEW e \in S
    PROVE  SumFunctionOnSet(f, S) = f[e] + SumFunctionOnSet(f, S \ {e})
<1> DEFINE Sum(T) == SumFunctionOnSet(f, T)
           Bad == { T \in SUBSET S : \E x \in T : Sum(T) # f[x] + Sum(T \ {x}) }
<1>1. SUFFICES ASSUME Bad # {} PROVE FALSE
    OBVIOUS
<1>2. PICK T \in Bad : \A U \in Bad : ~ (U \subseteq T /\ U # T)
    <2>1. Bad \in SUBSET SUBSET S
        OBVIOUS
    <2> HIDE DEF Bad
    <2> QED
        BY <1>1, <2>1, MinimalSubset
<1>3. PICK x \in T : Sum(T) # f[x] + Sum(T \ {x})
    BY <1>2
<1> DEFINE y == Some(T)
<1>4. T \in SUBSET S /\ T # {} /\ y \in T
    BY <1>2, <1>3, SomeMember
<1>5. \A U \in SUBSET S : IsFiniteSet(U) /\ Sum(U) \in Nat
    BY FS_Subset, SumType
<1>6. Sum(T) = f[y] + Sum(T \ {y})
    BY <1>4, <1>5, SumUnfold
<1>7. x # y
    BY <1>3, <1>6
<1> HIDE DEF y
<1>8. Sum(T \ {y}) = f[x] + Sum((T \ {y}) \ {x})
    <2>1. T \ {y} \subseteq T /\ T \ {y} # T /\ x \in T \ {y} /\ T \ {y} \in SUBSET S
        BY <1>4, <1>7
    <2> HIDE DEF Sum
    <2>2. T \ {y} \notin Bad
        BY <1>2, <2>1
    <2> QED
        BY <2>1, <2>2
<1>9. Sum(T \ {x}) = f[y] + Sum((T \ {x}) \ {y})
    <2>1. T \ {x} \subseteq T /\ T \ {x} # T /\ y \in T \ {x} /\ T \ {x} \in SUBSET S
        BY <1>4, <1>7
    <2> HIDE DEF Sum
    <2>2. T \ {x} \notin Bad
        BY <1>2, <2>1
    <2> QED
        BY <2>1, <2>2
<1>10. (T \ {x}) \ {y} = (T \ {y}) \ {x} /\ (T \ {x}) \ {y} \in SUBSET S
    BY <1>4
<1>11. f[x] \in Nat /\ f[y] \in Nat /\ Sum((T \ {x}) \ {y}) \in Nat
    BY <1>4, <1>5, <1>10
<1>12. PICK n \in Nat : n = Sum((T \ {x}) \ {y}) /\ n = Sum((T \ {y}) \ {x})
    BY <1>10, <1>11, Zenon
<1>13. Sum(T \ {y}) = f[x] + n /\ Sum(T \ {x}) = f[y] + n
    BY <1>8, <1>9, <1>12
<1> HIDE DEF Sum
<1>14. Sum(T) = f[x] + Sum(T \ {x})
    BY <1>6, <1>11, <1>13
<1> QED
    BY <1>3, <1>14

\* Adding an element adds its value.
LEMMA SumAdd ==
    ASSUME NEW S, IsFiniteSet(S), NEW e, e \notin S,
           NEW f, \A x \in S \union {e} : f[x] \in Nat
    PROVE  SumFunctionOnSet(f, S \union {e}) = f[e] + SumFunctionOnSet(f, S)
<1>1. IsFiniteSet(S \union {e})
    BY FS_AddElement
<1>2. (S \union {e}) \ {e} = S /\ e \in S \union {e}
    OBVIOUS
<1>3. SumFunctionOnSet(f, S \union {e})
        = f[e] + SumFunctionOnSet(f, (S \union {e}) \ {e})
    BY <1>1, <1>2, SumRemove
<1> QED
    BY <1>2, <1>3

LEMMA SumOfNothing ==
    ASSUME NEW f
    PROVE  SumFunctionOnSet(f, {}) = 0
BY SumUnfold, FS_EmptySet

\* A sum goes through any renaming of what is summed over.
LEMMA SumRenamed ==
    ASSUME NEW S, IsFiniteSet(S), NEW f, \A x \in S : f[x] \in Nat,
           NEW R, IsFiniteSet(R), NEW g, \A y \in R : g[y] \in Nat,
           NEW h \in [S -> R],
           \A x, y \in S : h[x] = h[y] => x = y,
           \A x \in S : g[h[x]] = f[x]
    PROVE  SumFunctionOnSet(f, S) = SumFunctionOnSet(g, { h[x] : x \in S })
<1> DEFINE Image(T) == { h[x] : x \in T }
           Bad == { T \in SUBSET S : SumFunctionOnSet(f, T)
                                        # SumFunctionOnSet(g, Image(T)) }
<1>1. SUFFICES ASSUME Bad # {} PROVE FALSE
    OBVIOUS
<1>2. PICK T \in Bad : \A U \in Bad : ~ (U \subseteq T /\ U # T)
    <2>1. Bad \in SUBSET SUBSET S
        OBVIOUS
    <2> HIDE DEF Bad
    <2> QED
        BY <1>1, <2>1, MinimalSubset
<1>3. T \in SUBSET S /\ SumFunctionOnSet(f, T) # SumFunctionOnSet(g, Image(T))
    BY <1>2
<1>4. T # {}
    BY <1>3, SumOfNothing
<1>5. PICK x \in T : TRUE
    BY <1>4
<1>6. /\ IsFiniteSet(T) /\ \A z \in T : f[z] \in Nat
      /\ Image(T) \in SUBSET R /\ IsFiniteSet(Image(T))
      /\ h[x] \in Image(T)
      /\ \A z \in Image(T) : g[z] \in Nat
    <2>1. Image(T) \in SUBSET R /\ h[x] \in Image(T)
        BY <1>3
    <2> HIDE DEF Image
    <2> QED
        BY <2>1, <1>3, FS_Subset
<1>7. SumFunctionOnSet(f, T) = f[x] + SumFunctionOnSet(f, T \ {x})
    BY <1>6, SumRemove
<1>8. SumFunctionOnSet(g, Image(T))
        = g[h[x]] + SumFunctionOnSet(g, Image(T) \ {h[x]})
    <2> HIDE DEF Image
    <2> QED
        BY <1>6, SumRemove
<1>9. Image(T) \ {h[x]} = Image(T \ {x})
    BY <1>3
<1>10. SumFunctionOnSet(f, T \ {x}) = SumFunctionOnSet(g, Image(T \ {x}))
    <2>1. T \ {x} \in SUBSET S /\ T \ {x} \subseteq T /\ T \ {x} # T
        BY <1>3
    <2>2. T \ {x} \notin Bad
        BY <1>2, <2>1
    <2> HIDE DEF Image
    <2> QED
        BY <2>1, <2>2
<1>11. g[h[x]] = f[x]
    BY <1>3
<1> HIDE DEF Image
<1> QED
    BY <1>3, <1>7, <1>8, <1>9, <1>10, <1>11

-----------------------------------------------------------------------------
(* More about sums, by induction on the set summed over.                   *)

\* Induction: what holds of {} and of every set of which it holds without one
\* element holds of every finite set.
LEMMA SubsetInduction ==
    ASSUME NEW S, IsFiniteSet(S), NEW Good, {} \in Good,
           \A T \in SUBSET S : \A x \in T : T \ {x} \in Good => T \in Good
    PROVE  S \in Good
<1> DEFINE Bad == { T \in SUBSET S : T \notin Good }
<1>1. SUFFICES ASSUME Bad # {} PROVE FALSE
    OBVIOUS
<1>2. PICK T \in Bad : \A U \in Bad : ~ (U \subseteq T /\ U # T)
    <2>1. Bad \in SUBSET SUBSET S
        OBVIOUS
    <2> HIDE DEF Bad
    <2> QED
        BY <1>1, <2>1, MinimalSubset
<1>3. T \in SUBSET S /\ T \notin Good
    BY <1>2
<1>4. PICK x \in T : TRUE
    BY <1>3
<1>5. T \ {x} \in SUBSET S /\ T \ {x} \subseteq T /\ T \ {x} # T
    BY <1>3, <1>4
<1>6. T \ {x} \in Good
    BY <1>2, <1>5
<1> QED
    BY <1>3, <1>4, <1>6

\* Sums add up argument by argument.
LEMMA SumPlus ==
    ASSUME NEW S, IsFiniteSet(S), NEW f, NEW g, NEW h,
           \A x \in S : f[x] \in Nat /\ g[x] \in Nat /\ h[x] = f[x] + g[x]
    PROVE  SumFunctionOnSet(h, S) = SumFunctionOnSet(f, S) + SumFunctionOnSet(g, S)
<1> DEFINE Good == { T \in SUBSET S :
                       SumFunctionOnSet(h, T)
                         = SumFunctionOnSet(f, T) + SumFunctionOnSet(g, T) }
<1>1. {} \in Good
    BY SumOfNothing
<1>2. ASSUME NEW T \in SUBSET S, NEW x \in T, T \ {x} \in Good PROVE T \in Good
    <2>1. /\ IsFiniteSet(T) /\ IsFiniteSet(T \ {x})
          /\ \A z \in T : f[z] \in Nat /\ g[z] \in Nat /\ h[z] \in Nat
        BY FS_Subset
    <2>2. PICK a, b, c : /\ a = SumFunctionOnSet(f, T \ {x}) /\ a \in Nat
                         /\ b = SumFunctionOnSet(g, T \ {x}) /\ b \in Nat
                         /\ c = SumFunctionOnSet(h, T \ {x}) /\ c \in Nat
        <3>1. /\ SumFunctionOnSet(f, T \ {x}) \in Nat
              /\ SumFunctionOnSet(g, T \ {x}) \in Nat
              /\ SumFunctionOnSet(h, T \ {x}) \in Nat
            BY <2>1, SumType
        <3> QED
            BY <3>1
    <2>3. /\ SumFunctionOnSet(f, T) = f[x] + a
          /\ SumFunctionOnSet(g, T) = g[x] + b
          /\ SumFunctionOnSet(h, T) = h[x] + c
        BY <2>1, <2>2, SumRemove
    <2>4. c = a + b
        BY <1>2, <2>2
    <2>5. h[x] = f[x] + g[x] /\ f[x] \in Nat /\ g[x] \in Nat
        BY <2>1
    <2>6. h[x] + c = (f[x] + a) + (g[x] + b)
        BY <2>2, <2>4, <2>5
    <2> QED
        BY <2>3, <2>6
<1> HIDE DEF Good
<1>3. S \in Good
    BY <1>1, <1>2, SubsetInduction
<1> QED
    BY <1>3 DEF Good

\* Only the values matter.
LEMMA SumSame ==
    ASSUME NEW S, IsFiniteSet(S), NEW f, NEW g,
           \A x \in S : f[x] \in Nat /\ g[x] = f[x]
    PROVE  SumFunctionOnSet(g, S) = SumFunctionOnSet(f, S)
<1> DEFINE Good == { T \in SUBSET S :
                       SumFunctionOnSet(g, T) = SumFunctionOnSet(f, T) }
<1>1. {} \in Good
    BY SumOfNothing
<1>2. ASSUME NEW T \in SUBSET S, NEW x \in T, T \ {x} \in Good PROVE T \in Good
    <2>1. IsFiniteSet(T) /\ \A z \in T : f[z] \in Nat /\ g[z] \in Nat
        BY FS_Subset
    <2>2. /\ SumFunctionOnSet(f, T) = f[x] + SumFunctionOnSet(f, T \ {x})
          /\ SumFunctionOnSet(g, T) = g[x] + SumFunctionOnSet(g, T \ {x})
        BY <2>1, SumRemove
    <2> QED
        BY <1>2, <2>2
<1> HIDE DEF Good
<1>3. S \in Good
    BY <1>1, <1>2, SubsetInduction
<1> QED
    BY <1>3 DEF Good

\* Larger values, larger sum.
LEMMA SumMonotone ==
    ASSUME NEW S, IsFiniteSet(S), NEW f, NEW g,
           \A x \in S : f[x] \in Nat /\ g[x] \in Nat /\ f[x] <= g[x]
    PROVE  SumFunctionOnSet(f, S) <= SumFunctionOnSet(g, S)
<1> DEFINE rest == [x \in S |-> g[x] - f[x]]
<1>1. \A x \in S : f[x] \in Nat /\ rest[x] \in Nat /\ g[x] = f[x] + rest[x]
    OBVIOUS
<1> HIDE DEF rest
<1>2. SumFunctionOnSet(g, S) = SumFunctionOnSet(f, S) + SumFunctionOnSet(rest, S)
    BY <1>1, SumPlus
<1>3. SumFunctionOnSet(f, S) \in Nat /\ SumFunctionOnSet(rest, S) \in Nat
    BY <1>1, SumType
<1> QED
    BY <1>2, <1>3

\* No value is larger than the sum.
LEMMA SumAtLeast ==
    ASSUME NEW S, IsFiniteSet(S), NEW f, \A x \in S : f[x] \in Nat, NEW e \in S
    PROVE  f[e] <= SumFunctionOnSet(f, S)
<1>1. SumFunctionOnSet(f, S) = f[e] + SumFunctionOnSet(f, S \ {e})
    BY SumRemove
<1>2. SumFunctionOnSet(f, S \ {e}) \in Nat
    BY FS_Subset, SumType
<1> QED
    BY <1>1, <1>2

\* Values that are zero add nothing.
LEMMA SumOfZeros ==
    ASSUME NEW S, IsFiniteSet(S), NEW f, \A x \in S : f[x] = 0
    PROVE  SumFunctionOnSet(f, S) = 0
<1> DEFINE Good == { T \in SUBSET S : SumFunctionOnSet(f, T) = 0 }
<1>1. {} \in Good
    BY SumOfNothing
<1>2. ASSUME NEW T \in SUBSET S, NEW x \in T, T \ {x} \in Good PROVE T \in Good
    <2>1. IsFiniteSet(T) /\ \A z \in T : f[z] \in Nat
        BY FS_Subset
    <2>2. SumFunctionOnSet(f, T) = f[x] + SumFunctionOnSet(f, T \ {x})
        BY <2>1, SumRemove
    <2> QED
        BY <1>2, <2>2
<1> HIDE DEF Good
<1>3. S \in Good
    BY <1>1, <1>2, SubsetInduction
<1> QED
    BY <1>3 DEF Good

\* The sum over two disjoint sets.
LEMMA SumUnion ==
    ASSUME NEW S, IsFiniteSet(S), NEW R, IsFiniteSet(R), S \intersect R = {},
           NEW f, \A x \in S \union R : f[x] \in Nat
    PROVE  SumFunctionOnSet(f, S \union R)
             = SumFunctionOnSet(f, S) + SumFunctionOnSet(f, R)
<1> DEFINE Good == { T \in SUBSET R : SumFunctionOnSet(f, S \union T)
                         = SumFunctionOnSet(f, S) + SumFunctionOnSet(f, T) }
<1>1. {} \in Good
    <2>1. S \union {} = S /\ SumFunctionOnSet(f, S) \in Nat
        BY SumType
    <2> QED
        BY <2>1, SumOfNothing
<1>2. ASSUME NEW T \in SUBSET R, NEW x \in T, T \ {x} \in Good PROVE T \in Good
    <2>1. IsFiniteSet(T) /\ IsFiniteSet(T \ {x}) /\ IsFiniteSet(S \union T)
        BY FS_Subset, FS_Union
    <2>2. PICK a, b, c : /\ a = SumFunctionOnSet(f, S) /\ a \in Nat
                         /\ b = SumFunctionOnSet(f, T \ {x}) /\ b \in Nat
                         /\ c = SumFunctionOnSet(f, S \union (T \ {x}))
        <3>1. SumFunctionOnSet(f, S) \in Nat /\ SumFunctionOnSet(f, T \ {x}) \in Nat
            BY <2>1, SumType
        <3> QED
            BY <3>1
    <2>3. /\ x \in S \union T /\ \A z \in S \union T : f[z] \in Nat
          /\ (S \union T) \ {x} = S \union (T \ {x})
        OBVIOUS
    <2>4. SumFunctionOnSet(f, T) = f[x] + b
        BY <2>1, <2>2, SumRemove
    <2>5. SumFunctionOnSet(f, S \union T) = f[x] + c
        <3>1. SumFunctionOnSet(f, S \union T)
                = f[x] + SumFunctionOnSet(f, (S \union T) \ {x})
            BY <2>1, <2>3, SumRemove
        <3> QED
            BY <2>2, <2>3, <3>1
    <2>6. c = a + b
        BY <1>2, <2>2
    <2>7. f[x] \in Nat
        OBVIOUS
    <2>8. f[x] + c = a + (f[x] + b)
        BY <2>2, <2>6, <2>7
    <2> QED
        BY <2>2, <2>4, <2>5, <2>8
<1> HIDE DEF Good
<1>3. R \in Good
    BY <1>1, <1>2, SubsetInduction
<1> QED
    BY <1>3 DEF Good

-----------------------------------------------------------------------------
(* Sums of whole functions, which the ledgers keep.                        *)

\* A key leaves.
LEMMA SumDrop ==
    ASSUME NEW f, IsFiniteSet(DOMAIN f), \A x \in DOMAIN f : f[x] \in Nat,
           NEW k \in DOMAIN f, NEW g, g = [x \in DOMAIN f \ {k} |-> f[x]]
    PROVE  /\ SumFunction(f) = f[k] + SumFunction(g)
           /\ SumFunction(g) \in Nat
<1>1. SumFunctionOnSet(f, DOMAIN f) = f[k] + SumFunctionOnSet(f, DOMAIN f \ {k})
    BY SumRemove
<1>2. /\ DOMAIN g = DOMAIN f \ {k} /\ IsFiniteSet(DOMAIN g)
      /\ \A x \in DOMAIN g : f[x] \in Nat /\ g[x] = f[x]
    BY FS_Subset
<1>3. SumFunctionOnSet(g, DOMAIN g) = SumFunctionOnSet(f, DOMAIN g)
    BY <1>2, SumSame
<1>4. SumFunctionOnSet(g, DOMAIN g) \in Nat
    BY <1>2, SumType
<1> QED
    BY <1>1, <1>2, <1>3, <1>4 DEF SumFunction

\* A key enters.
LEMMA SumPut ==
    ASSUME NEW f, IsFiniteSet(DOMAIN f), \A x \in DOMAIN f : f[x] \in Nat,
           NEW k, k \notin DOMAIN f, NEW v \in Nat,
           NEW g, g = [x \in DOMAIN f \union {k} |-> IF x = k THEN v ELSE f[x]]
    PROVE  SumFunction(g) = SumFunction(f) + v /\ SumFunction(f) \in Nat
<1>1. /\ DOMAIN g = DOMAIN f \union {k} /\ IsFiniteSet(DOMAIN f \union {k})
      /\ \A x \in DOMAIN f \union {k} : g[x] \in Nat
      /\ \A x \in DOMAIN f : f[x] \in Nat /\ g[x] = f[x]
      /\ g[k] = v
    BY FS_AddElement
<1>2. SumFunctionOnSet(g, DOMAIN f \union {k}) = g[k] + SumFunctionOnSet(g, DOMAIN f)
    BY <1>1, SumAdd
<1>3. SumFunctionOnSet(g, DOMAIN f) = SumFunctionOnSet(f, DOMAIN f)
    BY <1>1, SumSame
<1>4. SumFunctionOnSet(f, DOMAIN f) \in Nat
    BY SumType
<1> QED
    BY <1>1, <1>2, <1>3, <1>4 DEF SumFunction

\* One value changes.
LEMMA SumExcept ==
    ASSUME NEW f, IsFiniteSet(DOMAIN f), \A x \in DOMAIN f : f[x] \in Nat,
           NEW k \in DOMAIN f, NEW v \in Nat,
           NEW g, DOMAIN g = DOMAIN f, g[k] = v,
           \A x \in DOMAIN f \ {k} : g[x] = f[x]
    PROVE  /\ SumFunction(g) + f[k] = SumFunction(f) + v
           /\ SumFunction(g) \in Nat /\ SumFunction(f) \in Nat
<1>1. \A x \in DOMAIN f : g[x] \in Nat
    OBVIOUS
<1>2. SumFunctionOnSet(f, DOMAIN f) = f[k] + SumFunctionOnSet(f, DOMAIN f \ {k})
    BY SumRemove
<1>3. SumFunctionOnSet(g, DOMAIN f) = g[k] + SumFunctionOnSet(g, DOMAIN f \ {k})
    BY <1>1, SumRemove
<1>4. IsFiniteSet(DOMAIN f \ {k})
    BY FS_Subset
<1>5. SumFunctionOnSet(g, DOMAIN f \ {k}) = SumFunctionOnSet(f, DOMAIN f \ {k})
    BY <1>4, SumSame
<1>6. SumFunctionOnSet(f, DOMAIN f \ {k}) \in Nat
    BY <1>4, SumType
<1> QED
    BY <1>2, <1>3, <1>5, <1>6 DEF SumFunction

\* What takes at most s[x] off every value takes at most the sum of s off
\* their sum.
LEMMA SumLoses ==
    ASSUME NEW S, IsFiniteSet(S), NEW f, NEW s, NEW g,
           \A x \in S : /\ f[x] \in Nat /\ s[x] \in Nat /\ g[x] \in Nat
                        /\ g[x] + s[x] >= f[x]
    PROVE  /\ SumFunctionOnSet(g, S) + SumFunctionOnSet(s, S)
                >= SumFunctionOnSet(f, S)
           /\ SumFunctionOnSet(f, S) \in Nat /\ SumFunctionOnSet(s, S) \in Nat
           /\ SumFunctionOnSet(g, S) \in Nat
<1> DEFINE h == [x \in S |-> g[x] + s[x]]
<1>1. \A x \in S : g[x] \in Nat /\ s[x] \in Nat /\ h[x] = g[x] + s[x]
    OBVIOUS
<1>2. \A x \in S : f[x] \in Nat /\ h[x] \in Nat /\ f[x] <= h[x]
    OBVIOUS
<1> HIDE DEF h
<1>3. SumFunctionOnSet(h, S) = SumFunctionOnSet(g, S) + SumFunctionOnSet(s, S)
    BY <1>1, SumPlus
<1>4. SumFunctionOnSet(f, S) <= SumFunctionOnSet(h, S)
    BY <1>2, SumMonotone
<1>5. /\ SumFunctionOnSet(f, S) \in Nat /\ SumFunctionOnSet(s, S) \in Nat
      /\ SumFunctionOnSet(g, S) \in Nat
    BY <1>1, <1>2, SumType
<1> QED
    BY <1>3, <1>4, <1>5

==============================================================================
