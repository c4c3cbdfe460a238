-------------------------- MODULE Winnings_proofs --------------------------
(***************************************************************************)
(* Two ways winnings leave or enter a wallet.  Withdrawals: what holds for *)
(* any players, requests, amounts, fee and daily cap, and however far play *)
(* moves the wallets.  The bonus wallet: what holds for any tickets, stakes,*)
(* limits and settlers, in whatever order their transactions interleave.   *)
(***************************************************************************)
EXTENDS Withdrawals, Bonus, FiniteSetTheorems, WellFoundedInduction, TLAPS

-----------------------------------------------------------------------------
(* Sums over finite sets.  The library's fold is a recursive function on   *)
(* the subsets; what holds of it for every set is proved by looking at a   *)
(* smallest set for which it would fail.                                   *)

(* A set of numbers has a least one.                                       *)
LEMMA LeastOf ==
  ASSUME NEW S \in SUBSET Nat, S # {}
  PROVE  \E n \in S : \A m \in S : ~(m < n)
<1>1. IsWellFoundedOn(OpToRel(<, Nat), Nat)
  BY NatLessThanWellFounded
<1>2. \E n \in S : \A m \in S : ~(<<m, n>> \in OpToRel(<, Nat))
  BY <1>1, WFMin
<1> QED
  BY <1>2 DEF OpToRel

Pick(s) == CHOOSE x \in s : TRUE

\* What a table t of sums has at s, if it follows the fold.
Tallied(f, s, t) == IF s = {} THEN 0 ELSE f[Pick(s)] + t[s \ {Pick(s)}]

IsTally(f, S, t) == t = [s \in SUBSET S |-> Tallied(f, s, t)]

\* The sum is what the table that the fold chooses has at the whole set.
LEMMA SumChooses ==
  ASSUME NEW f, NEW S
  PROVE  SumFunctionOnSet(f, S) = (CHOOSE t : IsTally(f, S, t))[S]
  BY DEF SumFunctionOnSet, FoldFunctionOnSet, MapThenFoldSet, IsTally, Tallied, Pick

\* Of finite sets there is a smallest.
LEMMA SmallestSet ==
  ASSUME NEW X, X # {}, \A s \in X : IsFiniteSet(s)
  PROVE  \E s \in X : \A u \in X : ~(Cardinality(u) < Cardinality(s))
<1> DEFINE Sizes == {Cardinality(s) : s \in X}
<1>1. Sizes \in SUBSET Nat
  BY FS_CardinalityType
<1>2. Sizes # {}
  OBVIOUS
<1>3. PICK n \in Sizes : \A m \in Sizes : ~(m < n)
  <2> HIDE DEF Sizes
  <2> QED
    BY <1>1, <1>2, LeastOf
<1> QED
  BY <1>3

\* What the fold picks is a member, and without it the set is smaller.
LEMMA PickShrinks ==
  ASSUME NEW s, IsFiniteSet(s), s # {}
  PROVE  /\ Pick(s) \in s
         /\ IsFiniteSet(s \ {Pick(s)})
         /\ Cardinality(s) \in Nat \ {0}
         /\ Cardinality(s \ {Pick(s)}) = Cardinality(s) - 1
<1>1. Pick(s) \in s
  BY DEF Pick
<1>2. Cardinality(s) \in Nat /\ Cardinality(s) # 0
  BY FS_CardinalityType, FS_EmptySet
<1> QED
  BY <1>1, <1>2, FS_RemoveElement

\* Two tables agree where their functions do.
LEMMA TalliesAgree ==
  ASSUME NEW S, NEW T, NEW f, NEW g, NEW t, NEW u, IsTally(f, S, t), IsTally(g, T, u),
         NEW R, IsFiniteSet(R), R \subseteq S, R \subseteq T, \A x \in R : f[x] = g[x]
  PROVE  t[R] = u[R]
<1> DEFINE Bad == {s \in SUBSET R : t[s] # u[s]}
<1>1. \A s \in SUBSET R : IsFiniteSet(s)
  BY FS_Subset
<1>2. ASSUME NEW s \in SUBSET R
      PROVE  t[s] = Tallied(f, s, t) /\ u[s] = Tallied(g, s, u)
  <2>1. s \in SUBSET S /\ s \in SUBSET T
    OBVIOUS
  <2> QED
    BY <2>1 DEF IsTally
<1>3. Bad = {}
  <2> SUFFICES ASSUME Bad # {} PROVE FALSE
    OBVIOUS
  <2>1. PICK s \in Bad : \A v \in Bad : ~(Cardinality(v) < Cardinality(s))
    <3>1. \A v \in Bad : IsFiniteSet(v)
      BY <1>1
    <3> HIDE DEF Bad
    <3> QED
      BY <3>1, SmallestSet
  <2>2. s \in SUBSET R /\ t[s] # u[s] /\ IsFiniteSet(s)
    BY <1>1, <2>1
  <2>3. s # {}
    BY <1>2, <2>2 DEF Tallied
  <2> DEFINE rest == s \ {Pick(s)}
  <2>4. /\ Pick(s) \in s /\ rest \in SUBSET R
        /\ Cardinality(rest) < Cardinality(s)
    <3>1. /\ Pick(s) \in s /\ Cardinality(rest) = Cardinality(s) - 1
          /\ Cardinality(s) \in Nat
      BY <2>2, <2>3, PickShrinks
    <3>2. rest \in SUBSET R
      BY <2>2
    <3> HIDE DEF rest
    <3> QED
      BY <3>1, <3>2
  <2>5. rest \notin Bad
    BY <2>1, <2>4
  <2>6. t[rest] = u[rest]
    BY <2>4, <2>5
  <2> QED
    BY <1>2, <2>2, <2>3, <2>4, <2>6 DEF Tallied
<1> QED
  BY <1>3

\* Every finite set has a table: extend one for smaller subsets by a size.
LEMMA TallyExists ==
  ASSUME NEW S, IsFiniteSet(S), NEW f, \A x \in S : f[x] \in Int
  PROVE  \E t \in [SUBSET S -> Int] : IsTally(f, S, t)
<1> DEFINE Part(n) == {s \in SUBSET S : Cardinality(s) <= n}
           Good(n) == \E t \in [Part(n) -> Int] : t = [s \in Part(n) |-> Tallied(f, s, t)]
           Bad == {n \in 0 .. Cardinality(S) : ~Good(n)}
<1>1. \A s \in SUBSET S : IsFiniteSet(s) /\ Cardinality(s) \in Nat /\ Cardinality(s) <= Cardinality(S)
  BY FS_Subset, FS_CardinalityType
<1>2. Cardinality(S) \in Nat
  BY FS_CardinalityType
<1>3. Bad = {}
  <2> SUFFICES ASSUME Bad # {} PROVE FALSE
    OBVIOUS
  <2>1. PICK n \in Bad : \A m \in Bad : ~(m < n)
    <3>1. Bad \in SUBSET Nat
      BY <1>2
    <3> HIDE DEF Bad
    <3> QED
      BY <3>1, LeastOf
  <2>2. n \in 0 .. Cardinality(S) /\ ~Good(n)
    BY <2>1
  <2>3. n # 0
    <3>1. \A s \in Part(0) : s = {}
      BY <1>1, FS_EmptySet
    <3> DEFINE z == [s \in Part(0) |-> 0]
    <3>2. z \in [Part(0) -> Int]
      OBVIOUS
    <3>3. \A s \in Part(0) : Tallied(f, s, z) = 0
      BY <3>1 DEF Tallied
    <3>4. z = [s \in Part(0) |-> Tallied(f, s, z)]
      BY <3>3
    <3>5. Good(0)
      <4> HIDE DEF z, Part
      <4> QED
        BY <3>2, <3>4
    <3> HIDE DEF Good
    <3> QED
      BY <2>2, <3>5
  <2>4. n - 1 \in 0 .. Cardinality(S) /\ n - 1 < n /\ n \in Nat
    BY <1>2, <2>2, <2>3
  <2>5. n - 1 \notin Bad
    BY <2>1, <2>4
  <2>6. Good(n - 1)
    BY <2>4, <2>5
  <2>7. PICK t \in [Part(n - 1) -> Int] : t = [s \in Part(n - 1) |-> Tallied(f, s, t)]
    BY <2>6
  <2> DEFINE u == [s \in Part(n) |-> IF s \in Part(n - 1) THEN t[s] ELSE Tallied(f, s, t)]
  <2>8. ASSUME NEW s \in Part(n), s # {}
        PROVE  /\ s \ {Pick(s)} \in Part(n - 1) /\ s \ {Pick(s)} \in Part(n)
               /\ f[Pick(s)] \in Int
    <3>1. /\ Pick(s) \in s /\ Cardinality(s \ {Pick(s)}) = Cardinality(s) - 1
          /\ Cardinality(s) \in Nat
      BY <1>1, <2>8, PickShrinks
    <3> QED
      BY <2>4, <3>1
  <2>9. ASSUME NEW s \in Part(n)
        PROVE  Tallied(f, s, t) \in Int /\ Tallied(f, s, u) = Tallied(f, s, t)
    <3>1. CASE s = {}
      BY <3>1 DEF Tallied
    <3>2. CASE s # {}
      <4> DEFINE rest == s \ {Pick(s)}
      <4>1. rest \in Part(n - 1) /\ rest \in Part(n) /\ f[Pick(s)] \in Int
        BY <2>8, <3>2
      <4>2. t[rest] \in Int /\ u[rest] = t[rest]
        <5> HIDE DEF rest, Part
        <5> QED
          BY <2>7, <4>1
      <4> HIDE DEF u
      <4> QED
        BY <3>2, <4>1, <4>2 DEF Tallied
    <3> QED
      BY <3>1, <3>2
  <2>10. ASSUME NEW s \in Part(n)
         PROVE  u[s] \in Int /\ u[s] = Tallied(f, s, u)
    <3>1. s \in Part(n - 1) => t[s] = Tallied(f, s, t)
      <4> HIDE DEF Part
      <4> QED
        BY <2>7
    <3>2. u[s] = Tallied(f, s, t)
      BY <3>1
    <3> QED
      BY <2>9, <3>2
  <2>11. u \in [Part(n) -> Int] /\ u = [s \in Part(n) |-> Tallied(f, s, u)]
    <3>1. u = [s \in Part(n) |-> u[s]]
      OBVIOUS
    <3> HIDE DEF u, Part
    <3> QED
      BY <2>10, <3>1
  <2> HIDE DEF u, Part
  <2> QED
    BY <2>2, <2>11
<1>4. Good(Cardinality(S))
  <2>1. Cardinality(S) \in 0 .. Cardinality(S)
    BY <1>2
  <2> HIDE DEF Good
  <2> QED
    BY <1>3, <2>1
<1>5. Part(Cardinality(S)) = SUBSET S
  BY <1>1
<1> QED
  BY <1>4, <1>5 DEF IsTally

(* A sum is an integer, nothing sums up to 0, and a sum is what the fold   *)
(* picks first and the sum of the others.                                  *)
LEMMA SumFacts ==
  ASSUME NEW S, IsFiniteSet(S), NEW f, \A x \in S : f[x] \in Int
  PROVE  /\ SumFunctionOnSet(f, S) \in Int
         /\ S = {} => SumFunctionOnSet(f, S) = 0
         /\ S # {} => SumFunctionOnSet(f, S) = f[Pick(S)] + SumFunctionOnSet(f, S \ {Pick(S)})
<1>1. ASSUME NEW T \in SUBSET S
      PROVE  \E t \in [SUBSET T -> Int] : IsTally(f, T, t) /\ SumFunctionOnSet(f, T) = t[T]
  <2> DEFINE c == CHOOSE t : IsTally(f, T, t)
  <2>1. IsFiniteSet(T) /\ \A x \in T : f[x] \in Int
    BY FS_Subset
  <2>2. PICK t \in [SUBSET T -> Int] : IsTally(f, T, t)
    BY <2>1, TallyExists
  <2>3. IsTally(f, T, c)
    BY <2>2
  <2>4. c[T] = t[T]
    <3> HIDE DEF c
    <3> QED
      BY <2>1, <2>2, <2>3, TalliesAgree
  <2>5. SumFunctionOnSet(f, T) = c[T]
    BY SumChooses
  <2> QED
    BY <2>2, <2>4, <2>5
<1>2. PICK t \in [SUBSET S -> Int] : IsTally(f, S, t) /\ SumFunctionOnSet(f, S) = t[S]
  BY <1>1
<1>3. t[S] = Tallied(f, S, t)
  BY <1>2 DEF IsTally
<1>4. ASSUME S # {}
      PROVE  t[S \ {Pick(S)}] = SumFunctionOnSet(f, S \ {Pick(S)})
  <2> DEFINE R == S \ {Pick(S)}
  <2>1. IsFiniteSet(R) /\ R \in SUBSET S
    BY <1>4, PickShrinks
  <2>2. PICK u \in [SUBSET R -> Int] : IsTally(f, R, u) /\ SumFunctionOnSet(f, R) = u[R]
    BY <1>1, <2>1
  <2> HIDE DEF R
  <2>3. t[R] = u[R]
    BY <1>2, <2>1, <2>2, TalliesAgree
  <2> QED
    BY <2>2, <2>3 DEF R
<1> QED
  BY <1>2, <1>3, <1>4 DEF Tallied

(* A sum only depends on the values summed up.                             *)
LEMMA SumCongruence ==
  ASSUME NEW S, IsFiniteSet(S), NEW f, NEW g, \A x \in S : f[x] \in Int /\ f[x] = g[x]
  PROVE  SumFunctionOnSet(f, S) = SumFunctionOnSet(g, S)
<1>1. PICK t : IsTally(f, S, t) /\ t = CHOOSE v : IsTally(f, S, v)
  BY TallyExists
<1>2. \A x \in S : g[x] \in Int
  OBVIOUS
<1>3. PICK u : IsTally(g, S, u) /\ u = CHOOSE v : IsTally(g, S, v)
  BY <1>2, TallyExists
<1>4. t[S] = u[S]
  BY <1>1, <1>3, TalliesAgree
<1> QED
  BY <1>1, <1>3, <1>4, SumChooses

(* Any member can be summed up last.                                       *)
LEMMA SumRemove ==
  ASSUME NEW S, IsFiniteSet(S), NEW f, \A x \in S : f[x] \in Int, NEW y \in S
  PROVE  SumFunctionOnSet(f, S) = f[y] + SumFunctionOnSet(f, S \ {y})
<1> DEFINE Sum(T) == SumFunctionOnSet(f, T)
           Bad == {T \in SUBSET S : \E x \in T : Sum(T) # f[x] + Sum(T \ {x})}
<1>1. ASSUME NEW T \in SUBSET S
      PROVE  /\ IsFiniteSet(T) /\ Sum(T) \in Int
             /\ T # {} => Sum(T) = f[Pick(T)] + Sum(T \ {Pick(T)}) /\ Pick(T) \in T
  <2>1. IsFiniteSet(T) /\ \A x \in T : f[x] \in Int
    BY FS_Subset
  <2> QED
    BY <2>1, SumFacts, PickShrinks
<1> HIDE DEF Sum
<1>2. Bad = {}
  <2> SUFFICES ASSUME Bad # {} PROVE FALSE
    OBVIOUS
  <2>1. PICK T \in Bad : \A V \in Bad : ~(Cardinality(V) < Cardinality(T))
    <3>1. \A V \in Bad : IsFiniteSet(V)
      BY <1>1
    <3> HIDE DEF Bad
    <3> QED
      BY <3>1, SmallestSet
  <2>2. T \in SUBSET S /\ IsFiniteSet(T) /\ Cardinality(T) \in Nat
    BY <1>1, <2>1, FS_CardinalityType
  <2>3. PICK x \in T : Sum(T) # f[x] + Sum(T \ {x})
    BY <2>1
  <2> DEFINE p == Pick(T)
  <2>4. p \in T /\ Sum(T) = f[p] + Sum(T \ {p})
    BY <1>1, <2>2, <2>3
  <2> HIDE DEF p
  <2>5. p # x
    BY <2>3, <2>4
  <2>6. ASSUME NEW a \in T, NEW b \in T \ {a}
        PROVE  Sum(T \ {a}) = f[b] + Sum((T \ {a}) \ {b})
    <3>1. T \ {a} \in SUBSET S
      BY <2>2
    <3>2. Cardinality(T \ {a}) < Cardinality(T)
      <4>1. Cardinality(T \ {a}) = Cardinality(T) - 1
        BY <2>2, FS_RemoveElement
      <4> QED
        BY <2>2, <4>1
    <3>3. T \ {a} \notin Bad
      BY <2>1, <3>2
    <3> QED
      BY <3>1, <3>3
  <2>7. Sum(T \ {p}) = f[x] + Sum((T \ {p}) \ {x})
    BY <2>3, <2>4, <2>5, <2>6
  <2>8. Sum(T \ {x}) = f[p] + Sum((T \ {x}) \ {p})
    BY <2>3, <2>4, <2>5, <2>6
  <2>9. (T \ {p}) \ {x} = (T \ {x}) \ {p}
    OBVIOUS
  <2>10. Sum(T \ {p}) = f[x] + Sum((T \ {x}) \ {p})
    BY <2>7, <2>9
  <2>11. /\ Sum((T \ {x}) \ {p}) \in Int
         /\ f[x] \in Int /\ f[p] \in Int
    <3>1. (T \ {x}) \ {p} \in SUBSET S
      BY <2>2
    <3> QED
      BY <1>1, <2>2, <2>3, <2>4, <3>1
  <2> QED
    BY <2>3, <2>4, <2>8, <2>10, <2>11
<1>3. Sum(S) = f[y] + Sum(S \ {y})
  BY <1>2
<1> QED
  BY <1>3 DEF Sum

(* One more member adds its value.                                         *)
LEMMA SumAdd ==
  ASSUME NEW S, IsFiniteSet(S), NEW f, NEW y, y \notin S, \A x \in S \union {y} : f[x] \in Int
  PROVE  SumFunctionOnSet(f, S \union {y}) = SumFunctionOnSet(f, S) + f[y]
<1> DEFINE U == S \union {y}
<1>1. IsFiniteSet(U) /\ U \ {y} = S /\ y \in U /\ \A x \in U : f[x] \in Int
  BY FS_AddElement
<1> HIDE DEF U
<1>2. SumFunctionOnSet(f, U) = f[y] + SumFunctionOnSet(f, S)
  BY <1>1, SumRemove
<1>3. SumFunctionOnSet(f, S) \in Int /\ f[y] \in Int
  BY SumFacts
<1> QED
  BY <1>2, <1>3 DEF U

(* Changing one value changes the sum by as much.                          *)
LEMMA SumChange ==
  ASSUME NEW S, IsFiniteSet(S), NEW f, NEW g, NEW y \in S,
         \A x \in S : f[x] \in Int /\ g[x] \in Int, \A x \in S \ {y} : f[x] = g[x]
  PROVE  SumFunctionOnSet(g, S) = SumFunctionOnSet(f, S) + (g[y] - f[y])
<1> DEFINE R == S \ {y}
<1>1. IsFiniteSet(R) /\ \A x \in R : f[x] \in Int /\ f[x] = g[x]
  BY FS_RemoveElement
<1>2. /\ SumFunctionOnSet(f, S) = f[y] + SumFunctionOnSet(f, R)
      /\ SumFunctionOnSet(g, S) = g[y] + SumFunctionOnSet(g, R)
  BY SumRemove
<1> HIDE DEF R
<1>3. SumFunctionOnSet(f, R) = SumFunctionOnSet(g, R) /\ SumFunctionOnSet(f, R) \in Int
  BY <1>1, SumCongruence, SumFacts
<1> QED
  BY <1>2, <1>3

(* Nothing but zeros sums up to 0.                                         *)
LEMMA SumOfZeros ==
  ASSUME NEW S, IsFiniteSet(S), NEW f, \A x \in S : f[x] = 0
  PROVE  SumFunctionOnSet(f, S) = 0
<1> DEFINE Bad == {T \in SUBSET S : SumFunctionOnSet(f, T) # 0}
<1>1. \A T \in SUBSET S : IsFiniteSet(T)
  BY FS_Subset
<1>2. Bad = {}
  <2> SUFFICES ASSUME Bad # {} PROVE FALSE
    OBVIOUS
  <2>1. PICK T \in Bad : \A V \in Bad : ~(Cardinality(V) < Cardinality(T))
    <3>1. \A V \in Bad : IsFiniteSet(V)
      BY <1>1
    <3> HIDE DEF Bad
    <3> QED
      BY <3>1, SmallestSet
  <2>2. T \in SUBSET S /\ IsFiniteSet(T) /\ SumFunctionOnSet(f, T) # 0
    BY <1>1, <2>1
  <2> DEFINE rest == T \ {Pick(T)}
  <2>3. T # {} /\ SumFunctionOnSet(f, T) = f[Pick(T)] + SumFunctionOnSet(f, rest)
    <3>1. \A x \in T : f[x] \in Int
      BY <2>2
    <3> QED
      BY <2>2, <3>1, SumFacts
  <2>4. /\ f[Pick(T)] = 0 /\ rest \in SUBSET S
        /\ Cardinality(rest) < Cardinality(T)
    <3>1. /\ Pick(T) \in T /\ Cardinality(rest) = Cardinality(T) - 1
          /\ Cardinality(T) \in Nat
      BY <2>2, <2>3, PickShrinks
    <3> HIDE DEF rest
    <3>2. f[Pick(T)] = 0
      BY <2>2, <3>1
    <3>3. rest \in SUBSET S
      BY <2>2 DEF rest
    <3> QED
      BY <3>1, <3>2, <3>3
  <2> HIDE DEF rest
  <2>5. SumFunctionOnSet(f, rest) = 0
    BY <2>1, <2>4
  <2> QED
    BY <2>2, <2>3, <2>4, <2>5
<1> QED
  BY <1>2

(* The sum of sums.                                                        *)
LEMMA SumCombines ==
  ASSUME NEW S, IsFiniteSet(S), NEW f, NEW g, NEW d, NEW h,
         \A x \in S : f[x] \in Int /\ g[x] \in Int /\ d[x] \in Int /\ h[x] = f[x] + g[x] - d[x]
  PROVE  SumFunctionOnSet(h, S)
           = SumFunctionOnSet(f, S) + SumFunctionOnSet(g, S) - SumFunctionOnSet(d, S)
<1> DEFINE Fits(T) == SumFunctionOnSet(h, T)
                        = SumFunctionOnSet(f, T) + SumFunctionOnSet(g, T) - SumFunctionOnSet(d, T)
           Bad == {T \in SUBSET S : ~ Fits(T)}
<1>1. \A T \in SUBSET S : IsFiniteSet(T)
  BY FS_Subset
<1>2. Bad = {}
  <2> SUFFICES ASSUME Bad # {} PROVE FALSE
    OBVIOUS
  <2>1. PICK T \in Bad : \A V \in Bad : ~(Cardinality(V) < Cardinality(T))
    <3>1. \A V \in Bad : IsFiniteSet(V)
      BY <1>1
    <3> HIDE DEF Bad
    <3> QED
      BY <3>1, SmallestSet
  <2>2. T \in SUBSET S /\ IsFiniteSet(T) /\ ~ Fits(T)
    BY <1>1, <2>1
  <2>3. \A x \in T : f[x] \in Int /\ g[x] \in Int /\ d[x] \in Int /\ h[x] \in Int
    BY <2>2
  <2>4. T # {}
    <3>1. CASE T = {}
      <4>1. /\ SumFunctionOnSet(f, T) = 0 /\ SumFunctionOnSet(g, T) = 0
            /\ SumFunctionOnSet(d, T) = 0 /\ SumFunctionOnSet(h, T) = 0
        BY <2>2, <2>3, <3>1, SumFacts
      <4> QED
        BY <2>2, <4>1
    <3> QED
      BY <3>1
  <2> DEFINE p == Pick(T)
             rest == T \ {p}
  <2>5. /\ p \in T /\ rest \in SUBSET S /\ IsFiniteSet(rest)
        /\ Cardinality(rest) < Cardinality(T)
    <3>1. p \in T /\ Cardinality(rest) = Cardinality(T) - 1 /\ Cardinality(T) \in Nat
      BY <2>2, <2>4, PickShrinks
    <3>2. rest \in SUBSET S
      BY <2>2
    <3> HIDE DEF rest
    <3> QED
      BY <1>1, <3>1, <3>2
  <2>6. /\ SumFunctionOnSet(f, T) = f[p] + SumFunctionOnSet(f, rest)
        /\ SumFunctionOnSet(g, T) = g[p] + SumFunctionOnSet(g, rest)
        /\ SumFunctionOnSet(d, T) = d[p] + SumFunctionOnSet(d, rest)
        /\ SumFunctionOnSet(h, T) = h[p] + SumFunctionOnSet(h, rest)
    BY <2>2, <2>3, <2>4, SumFacts
  <2> HIDE DEF p, rest
  <2>7. Fits(rest)
    <3>1. rest \notin Bad
      BY <2>1, <2>5
    <3> QED
      BY <2>5, <3>1
  <2>8. /\ SumFunctionOnSet(f, rest) \in Int /\ SumFunctionOnSet(g, rest) \in Int
        /\ SumFunctionOnSet(d, rest) \in Int
    <3>1. \A x \in rest : f[x] \in Int /\ g[x] \in Int /\ d[x] \in Int
      BY <2>5
    <3> QED
      BY <2>5, <3>1, SumFacts
  <2>9. /\ f[p] \in Int /\ g[p] \in Int /\ d[p] \in Int
        /\ h[p] = f[p] + g[p] - d[p]
    BY <2>2, <2>5
  <2> QED
    BY <2>2, <2>6, <2>7, <2>8, <2>9
<1> QED
  BY <1>2

-----------------------------------------------------------------------------
(* What the helpers do.                                                    *)

(* Posting entries of one request, none of whose keys is in the ledger and *)
(* no two of which share one, adds just those to that request's entries.   *)
LEMMA PostAdds ==
  ASSUME NEW r, NEW entries, Post(r, entries),
         \A e \in entries : e.req = r,
         \A e \in entries : \A old \in posted : old.req = r => old.kind # e.kind
  PROVE  /\ {e \in posted' : e.req = r} = {e \in posted : e.req = r} \cup entries
         /\ \A q : q # r => {e \in posted' : e.req = q} = {e \in posted : e.req = q}
<1>1. \A e \in entries : \A old \in posted : <<old.req, old.kind>> # <<e.req, e.kind>>
  OBVIOUS
<1>2. posted' = posted \cup entries
  BY <1>1 DEF Post
<1> QED
  BY <1>2

-----------------------------------------------------------------------------
(* The inductive invariant: what a request's row may contain, and the      *)
(* ledger entries its status calls for.                                    *)

RequestRowsOK ==
  /\ status \in [Requests -> {"new", "asked", "reviewed", "requested"} \cup Decided]
  /\ owner \in [Requests -> Players]
  /\ amount \in [Requests -> Amounts]
  /\ held \in [Requests -> BOOLEAN]
  /\ \A r \in Legacy : status[r] \in {"requested"} \cup Decided

Inv == RiskTypeOK /\ RequestRowsOK /\ LedgerMatchesStatus

(* What is expected of a request depends on its own row only.              *)
LEMMA ExpectedStays ==
  ASSUME NEW r \in Requests, status'[r] = status[r], owner' = owner, amount' = amount
  PROVE  Expected(r)' = Expected(r)
  BY DEF Expected, Hold, ReturnHold, GiveBack, PayEntries, EntryOf, FeeFor, Decided

(* The statuses before a request is committed call for the same: nothing.  *)
LEMMA LedgerStays ==
  ASSUME RequestRowsOK, LedgerMatchesStatus, posted' = posted, owner' = owner, amount' = amount,
         \A r \in Requests : \/ status'[r] = status[r]
                             \/ {status[r], status'[r]} \subseteq {"new", "asked", "reviewed"}
  PROVE  LedgerMatchesStatus'
<1> SUFFICES ASSUME NEW r \in Requests
             PROVE  Expected(r)' = Expected(r)
  BY DEF LedgerMatchesStatus
<1>1. CASE status'[r] = status[r]
  BY <1>1, ExpectedStays
<1>2. CASE {status[r], status'[r]} \subseteq {"new", "asked", "reviewed"}
  BY <1>2 DEF Expected
<1> QED
  BY <1>1, <1>2

(* A request that moves on with what is expected of it then posted, and    *)
(* with keys that are new, leaves the ledger in accord.                    *)
LEMMA LedgerFollows ==
  ASSUME RequestRowsOK, LedgerMatchesStatus, NEW r \in Requests, NEW to, NEW entries,
         Post(r, entries), status' = [status EXCEPT ![r] = to], UNCHANGED <<owner, amount>>,
         \A e \in entries : e.req = r,
         \A e \in entries : \A old \in Expected(r) : old.kind # e.kind,
         Expected(r)' = Expected(r) \cup entries
  PROVE  LedgerMatchesStatus'
<1>1. {e \in posted : e.req = r} = Expected(r)
  BY DEF LedgerMatchesStatus
<1>2. /\ {e \in posted' : e.req = r} = {e \in posted : e.req = r} \cup entries
      /\ \A q : q # r => {e \in posted' : e.req = q} = {e \in posted : e.req = q}
  <2>1. \A e \in entries : \A old \in posted : old.req = r => old.kind # e.kind
    BY <1>1
  <2> QED
    BY <2>1, PostAdds
<1>3. ASSUME NEW q \in Requests, q # r
      PROVE  Expected(q)' = Expected(q)
  <2>1. status'[q] = status[q]
    BY <1>3 DEF RequestRowsOK
  <2> QED
    BY <2>1, ExpectedStays
<1> QED
  BY <1>1, <1>2, <1>3 DEF LedgerMatchesStatus

(* A decision posts what its outcome calls for, on top of the hold.        *)
LEMMA SettleFollows ==
  ASSUME Inv, NEW r \in Requests, NEW to \in Decided, NEW entries, Settle(r, to, entries),
         entries = IF to = "paid" THEN PayEntries(r) ELSE GiveBack(r)
  PROVE  LedgerMatchesStatus'
<1>1. /\ status[r] = "requested" /\ Post(r, entries) /\ UNCHANGED <<owner, amount>>
      /\ status' = [status EXCEPT ![r] = to]
  BY DEF Settle
<1>2. status'[r] = to /\ owner'[r] = owner[r] /\ amount'[r] = amount[r]
  BY <1>1 DEF Inv, RequestRowsOK
<1>3. /\ Expected(r) = IF r \in Legacy THEN {} ELSE {Hold(r)}
      /\ Expected(r)' = Expected(r) \cup entries
  <2>1. /\ Hold(r)' = Hold(r) /\ GiveBack(r)' = GiveBack(r) /\ PayEntries(r)' = PayEntries(r)
    BY <1>1 DEF Hold, ReturnHold, GiveBack, PayEntries, EntryOf, FeeFor
  <2>2. Expected(r) = IF r \in Legacy THEN {} ELSE {Hold(r)}
    BY <1>1 DEF Expected
  <2>3. CASE to = "paid"
    <3>1. Expected(r)' = IF r \in Legacy THEN {} ELSE {Hold(r)} \cup PayEntries(r)
      BY <1>2, <2>1, <2>3 DEF Expected
    <3> QED
      BY <2>2, <2>3, <3>1 DEF PayEntries
  <2>4. CASE to \in {"rejected", "cancelled"}
    <3>1. Expected(r)' = IF r \in Legacy THEN GiveBack(r) ELSE {Hold(r)} \cup GiveBack(r)
      BY <1>2, <2>1, <2>4 DEF Expected
    <3> QED
      BY <2>2, <2>4, <3>1
  <2> QED
    BY <2>2, <2>3, <2>4 DEF Decided
<1>4. \A e \in entries : e.req = r /\ e.kind \in {"return", "paid", "fee", "legacy-return"}
  BY DEF PayEntries, GiveBack, ReturnHold, EntryOf
<1>5. \A old \in Expected(r) : old.kind = "hold"
  BY <1>3 DEF Hold, EntryOf
<1>6. \A e \in entries : e.req = r /\ \A old \in Expected(r) : old.kind # e.kind
  BY <1>4, <1>5
<1>7. RequestRowsOK /\ LedgerMatchesStatus
  BY DEF Inv
<1> HIDE DEF LedgerMatchesStatus, RequestRowsOK
<1> QED
  BY <1>1, <1>3, <1>6, <1>7, LedgerFollows

(* The fraud engine's and staff's steps keep the types of its state.       *)
LEMMA RiskSteps ==
  ASSUME RiskTypeOK, NEW p \in Players,
         \/ \E finding \in Findings : Act(p, finding)
         \/ Lift(p) \/ Uphold(p) \/ \E freeze \in BOOLEAN : SetRestrictions(p, freeze, bonusBlocked[p])
         \/ \E how \in {"no", "staff"} : SetSuspended(p, how)
         \/ UNCHANGED riskVars
  PROVE  RiskTypeOK'
<1> USE DEF RiskTypeOK
<1>1. ASSUME NEW finding \in Findings, Act(p, finding)
      PROVE  RiskTypeOK'
  <2>1. CASE finding = "low"
    BY <1>1, <2>1 DEF Act, riskVars
  <2>2. CASE finding # "low"
    <3>1. /\ underReview' = [underReview EXCEPT ![p] = TRUE]
          /\ bonusBlocked' = [bonusBlocked EXCEPT ![p] = TRUE]
          /\ frozen' = [frozen EXCEPT ![p] = frozen[p] \/ finding = "suspend"]
      BY <1>1, <2>2 DEF Act
    <3>2. (frozen[p] \/ finding = "suspend") \in BOOLEAN
      OBVIOUS
    <3>3. frozen' \in [Players -> BOOLEAN]
      BY <3>1, <3>2
    <3>4. suspended' \in [Players -> {"no", "auto", "staff"}]
      BY <1>1, <2>2 DEF Act
    <3>5. case' \in [Players -> {"none", "review", "suspended"}]
      BY <1>1, <2>2 DEF Act
    <3> QED
      BY <3>1, <3>3, <3>4, <3>5
  <2> QED
    BY <2>1, <2>2
<1>2. CASE Lift(p)
  BY <1>2 DEF Lift
<1>3. CASE Uphold(p)
  BY <1>3 DEF Uphold
<1>4. ASSUME NEW freeze \in BOOLEAN, SetRestrictions(p, freeze, bonusBlocked[p])
      PROVE  RiskTypeOK'
  BY <1>4 DEF SetRestrictions
<1>5. ASSUME NEW how \in {"no", "staff"}, SetSuspended(p, how)
      PROVE  RiskTypeOK'
  BY <1>5 DEF SetSuspended
<1>6. CASE UNCHANGED riskVars
  BY <1>6 DEF riskVars
<1> QED
  BY <1>1, <1>2, <1>3, <1>4, <1>5, <1>6

(* Holding requests keeps the type, and lets go of none.                   *)
LEMMA HoldPendingHolds ==
  ASSUME RequestRowsOK, NEW p, NEW visible
  PROVE  /\ HoldPending(p, visible) \in [Requests -> BOOLEAN]
         /\ \A r \in Requests :
              HoldPending(p, visible)[r] <=> held[r] \/ (r \in visible /\ owner[r] = p)
  BY DEF RequestRowsOK, HoldPending

(* Every step keeps the invariant.                                         *)
LEMMA InvStep ==
  ASSUME Inv, [Next]_vars
  PROVE  Inv'
<1>0. RiskTypeOK /\ RequestRowsOK /\ LedgerMatchesStatus
  BY DEF Inv
<1>1. ASSUME NEW r \in Requests, Ask(r)
      PROVE  Inv'
  <2>1. RiskTypeOK'
    BY <1>0, <1>1 DEF Ask, RiskTypeOK, riskVars
  <2>2. RequestRowsOK'
    BY <1>0, <1>1, WithdrawalsAssumption DEF Ask, RequestRowsOK, Decided
  <2>3. LedgerMatchesStatus'
    BY <1>0, <1>1, LedgerStays DEF Ask, RequestRowsOK
  <2> QED
    BY <2>1, <2>2, <2>3 DEF Inv
<1>2. ASSUME NEW r \in Requests, Review(r)
      PROVE  Inv'
  <2>1. RiskTypeOK'
    BY <1>0, <1>2 DEF Review, RiskTypeOK, riskVars
  <2>2. RequestRowsOK'
    BY <1>0, <1>2, WithdrawalsAssumption DEF Review, RequestRowsOK, Decided, RiskTypeOK
  <2>3. LedgerMatchesStatus'
    BY <1>0, <1>2, LedgerStays DEF Review, RequestRowsOK
  <2> QED
    BY <2>1, <2>2, <2>3 DEF Inv
<1>3. ASSUME NEW r \in Requests, Abandon(r)
      PROVE  Inv'
  <2>1. RiskTypeOK'
    BY <1>0, <1>3 DEF Abandon, RiskTypeOK, riskVars
  <2>2. RequestRowsOK'
    BY <1>0, <1>3, WithdrawalsAssumption DEF Abandon, RequestRowsOK, Decided
  <2>3. LedgerMatchesStatus'
    BY <1>0, <1>3, LedgerStays DEF Abandon, RequestRowsOK
  <2> QED
    BY <2>1, <2>2, <2>3 DEF Inv
<1>4. ASSUME NEW r \in Requests, NEW finding \in Findings, Submit(r, finding)
      PROVE  Inv'
  <2>1. owner[r] \in Players
    BY <1>0 DEF RequestRowsOK
  <2>2. RiskTypeOK'
    BY <1>0, <1>4, <2>1, RiskSteps DEF Submit
  <2>3. RequestRowsOK'
    BY <1>0, <1>4, HoldPendingHolds DEF Submit, RequestRowsOK
  <2>4. LedgerMatchesStatus'
    <3>1. /\ status[r] = "reviewed" /\ UNCHANGED <<owner, amount>>
          /\ status' = [status EXCEPT ![r] = "requested"]
          /\ Post(r, {Hold(r)})
      BY <1>4 DEF Submit
    <3>2. r \notin Legacy
      BY <1>0, <3>1 DEF RequestRowsOK, Decided
    <3>3. Expected(r) = {} /\ Expected(r)' = {Hold(r)}
      <4>1. status'[r] = "requested"
        BY <1>0, <3>1 DEF RequestRowsOK
      <4> QED
        BY <3>1, <3>2, <4>1 DEF Expected, Hold, EntryOf
    <3>4. Hold(r).req = r
      BY DEF Hold, EntryOf
    <3> QED
      BY <1>0, <3>1, <3>3, <3>4, LedgerFollows
  <2> QED
    BY <2>2, <2>3, <2>4 DEF Inv
<1>5. ASSUME NEW r \in Requests, Cancel(r) \/ Reject(r) \/ MarkPaid(r)
      PROVE  Inv'
  <2>1. \E to \in Decided :
          LET entries == IF to = "paid" THEN PayEntries(r) ELSE GiveBack(r)
          IN  Settle(r, to, entries)
    BY <1>5 DEF Cancel, Reject, MarkPaid, Decided
  <2>2. LedgerMatchesStatus'
    BY <2>1, SettleFollows
  <2>3. RiskTypeOK' /\ RequestRowsOK'
    BY <1>0, <2>1 DEF Settle, RiskTypeOK, RequestRowsOK, riskVars
  <2> QED
    BY <2>2, <2>3 DEF Inv
<1>6. ASSUME NEW p \in Players,
             \/ \E finding \in Findings \ {"low"} : Flag(p, finding)
             \/ Dismiss(p) \/ Confirm(p)
             \/ \E freeze \in BOOLEAN : Freeze(p, freeze)
             \/ \E how \in {"no", "staff"} : StaffSuspend(p, how)
             \/ \E by \in {-1, 1} : Play(p, by)
      PROVE  Inv'
  <2>1. RiskTypeOK'
    BY <1>0, <1>6, RiskSteps DEF Flag, Dismiss, Confirm, Freeze, StaffSuspend, Play
  <2>2. UNCHANGED <<status, owner, amount, posted>>
    BY <1>6 DEF Flag, Dismiss, Confirm, Freeze, StaffSuspend, Play, requestVars
  <2>3. held' \in [Requests -> BOOLEAN]
    <3>1. held \in [Requests -> BOOLEAN] /\ HoldPending(p, Pending) \in [Requests -> BOOLEAN]
      BY <1>0, HoldPendingHolds DEF RequestRowsOK
    <3>2. CASE Dismiss(p)
      BY <3>1, <3>2 DEF Dismiss
    <3>3. CASE ~ Dismiss(p)
      <4>1. held' = held \/ held' = HoldPending(p, Pending)
        BY <1>6, <3>3 DEF Flag, Confirm, Freeze, StaffSuspend, Play, requestVars
      <4> QED
        BY <3>1, <4>1
    <3> QED
      BY <3>2, <3>3
  <2> QED
    BY <1>0, <2>1, <2>2, <2>3, LedgerStays DEF Inv, RequestRowsOK
<1>7. CASE UNCHANGED vars
  BY <1>0, <1>7, LedgerStays DEF vars, Inv, RiskTypeOK, RequestRowsOK
<1> QED
  BY <1>1, <1>2, <1>3, <1>4, <1>5, <1>6, <1>7 DEF Next

(* The invariant holds throughout.                                         *)
THEOREM Invariance == Spec => []Inv
<1>1. Init => Inv
  BY WithdrawalsAssumption
     DEF Init, RiskInit, Inv, RiskTypeOK, RequestRowsOK, LedgerMatchesStatus, Expected, Decided
<1>2. Inv /\ [Next]_vars => Inv'
  BY InvStep
<1> QED
  BY <1>1, <1>2, PTL DEF Spec

(* Whoever decides a request, and however often cancel, mark_paid and      *)
(* reject are tried, its ledger entries are those its status calls for.    *)
THEOREM LedgerFollowsStatus == Spec => []LedgerMatchesStatus
<1>1. Inv => LedgerMatchesStatus
  BY DEF Inv
<1> QED
  BY <1>1, Invariance, PTL

-----------------------------------------------------------------------------
(* What a step may not do.                                                 *)

(* A request keeps its owner and amount, and its status once it is decided;*)
(* it is paid only when it is not held.                                    *)
LEMMA StatusSteps ==
  ASSUME Inv, [Next]_vars, NEW r \in Requests
  PROVE  /\ UNCHANGED <<owner, amount>>
         /\ status[r] \in Decided => status'[r] = status[r]
         /\ held[r] /\ status[r] = "requested" => status'[r] # "paid"
<1> USE DEF Inv, RequestRowsOK, Decided
<1>1. ASSUME NEW q \in Requests, Ask(q) \/ Review(q) \/ Abandon(q)
      PROVE  /\ UNCHANGED <<owner, amount>>
             /\ status[r] \in Decided \cup {"requested"} => status'[r] = status[r]
  BY <1>1 DEF Ask, Review, Abandon
<1>2. ASSUME NEW q \in Requests, NEW finding \in Findings, Submit(q, finding)
      PROVE  /\ UNCHANGED <<owner, amount>>
             /\ status[r] \in Decided \cup {"requested"} => status'[r] = status[r]
  BY <1>2 DEF Submit
<1>3. ASSUME NEW q \in Requests, Cancel(q) \/ Reject(q)
      PROVE  /\ UNCHANGED <<owner, amount>>
             /\ status[r] \in Decided => status'[r] = status[r]
             /\ status[r] = "requested" => status'[r] # "paid"
  BY <1>3 DEF Cancel, Reject, Settle
<1>4. ASSUME NEW q \in Requests, MarkPaid(q)
      PROVE  /\ UNCHANGED <<owner, amount>>
             /\ status[r] \in Decided => status'[r] = status[r]
             /\ held[r] => status'[r] = status[r]
  BY <1>4 DEF MarkPaid, Settle
<1>5. ASSUME NEW p \in Players,
             \/ \E finding \in Findings \ {"low"} : Flag(p, finding)
             \/ Dismiss(p) \/ Confirm(p)
             \/ \E freeze \in BOOLEAN : Freeze(p, freeze)
             \/ \E how \in {"no", "staff"} : StaffSuspend(p, how)
             \/ \E by \in {-1, 1} : Play(p, by)
      PROVE  UNCHANGED <<status, owner, amount>>
  BY <1>5 DEF Flag, Dismiss, Confirm, Freeze, StaffSuspend, Play, requestVars
<1>6. CASE UNCHANGED vars
  BY <1>6 DEF vars
<1> QED
  BY <1>1, <1>2, <1>3, <1>4, <1>5, <1>6 DEF Next

(* A request is decided once: paid, declined and taken back exclude each   *)
(* other, and nothing is posted for it afterwards (the status check each   *)
(* decision makes with the row locked).                                    *)
THEOREM DecisionsAreFinal == Spec => DecidedOnce
<1>1. Inv /\ Inv' /\ [Next]_vars =>
        [\A r \in Requests :
           status[r] \in Decided =>
             /\ status'[r] = status[r]
             /\ {e \in posted' : e.req = r} = {e \in posted : e.req = r}]_vars
  <2> SUFFICES ASSUME Inv, Inv', [Next]_vars, NEW r \in Requests, status[r] \in Decided
               PROVE  /\ status'[r] = status[r]
                      /\ {e \in posted' : e.req = r} = {e \in posted : e.req = r}
    OBVIOUS
  <2>1. status'[r] = status[r] /\ UNCHANGED <<owner, amount>>
    BY StatusSteps
  <2>2. Expected(r)' = Expected(r)
    BY <2>1, ExpectedStays
  <2> QED
    BY <2>1, <2>2 DEF Inv, LedgerMatchesStatus
<1> QED
  BY <1>1, Invariance, PTL DEF Spec, DecidedOnce

(* A request that waits stays held unless the player's case is dismissed,  *)
(* and is held from the moment its player is frozen.                       *)
LEMMA HoldSteps ==
  ASSUME Inv, [Next]_vars, NEW r \in Requests, status[r] = "requested"
  PROVE  /\ held[r] => held'[r] \/ (case[owner[r]] # "none" /\ ~ underReview'[owner[r]])
         /\ ~ frozen[owner[r]] /\ frozen'[owner[r]] => held'[r]
<1>0. owner[r] \in Players /\ r \in Pending
  BY DEF Inv, RequestRowsOK, Pending
<1>1. ASSUME NEW p, NEW visible, Pending \subseteq visible, held' = HoldPending(p, visible)
      PROVE  /\ held[r] => held'[r]
             /\ owner[r] = p => held'[r]
  BY <1>0, <1>1, HoldPendingHolds DEF Inv
<1>2. ASSUME NEW p \in Players, NEW finding \in Findings, Act(p, finding)
      PROVE  ~ frozen[owner[r]] /\ frozen'[owner[r]] => finding = "suspend" /\ owner[r] = p
  <2>1. CASE finding = "low"
    BY <1>2, <2>1 DEF Act, riskVars
  <2>2. CASE finding # "low"
    BY <1>0, <1>2, <2>2 DEF Act, Inv, RiskTypeOK
  <2> QED
    BY <2>1, <2>2
<1>3. ASSUME NEW q \in Requests, Ask(q) \/ Review(q) \/ Abandon(q)
      PROVE  held'[r] = held[r] /\ frozen' = frozen
  BY <1>3 DEF Ask, Review, Abandon, riskVars, Inv, RequestRowsOK
<1>4. ASSUME NEW q \in Requests, NEW finding \in Findings, Submit(q, finding)
      PROVE  /\ held[r] => held'[r]
             /\ ~ frozen[owner[r]] /\ frozen'[owner[r]] => held'[r]
  <2>1. owner[q] \in Players /\ Act(owner[q], finding)
    BY <1>4 DEF Submit, Inv, RequestRowsOK
  <2>2. CASE finding = "suspend"
    <3>1. held' = HoldPending(owner[q], Pending \cup {q})
      BY <1>4, <2>2 DEF Submit
    <3> QED
      BY <1>1, <1>2, <2>1, <3>1
  <2>3. CASE finding # "suspend"
    <3>1. held' = held
      BY <1>4, <2>3 DEF Submit
    <3> QED
      BY <1>2, <2>1, <2>3, <3>1
  <2> QED
    BY <2>2, <2>3
<1>5. ASSUME NEW q \in Requests, Cancel(q) \/ Reject(q) \/ MarkPaid(q)
      PROVE  held' = held /\ frozen' = frozen
  BY <1>5 DEF Cancel, Reject, MarkPaid, Settle, riskVars
<1>6. ASSUME NEW p \in Players, NEW finding \in Findings, Flag(p, finding)
      PROVE  /\ held[r] => held'[r]
             /\ ~ frozen[owner[r]] /\ frozen'[owner[r]] => held'[r]
  <2>1. CASE finding = "suspend"
    BY <1>1, <1>2, <1>6, <2>1 DEF Flag
  <2>2. CASE finding # "suspend"
    BY <1>2, <1>6, <2>2 DEF Flag
  <2> QED
    BY <2>1, <2>2
<1>7. ASSUME NEW p \in Players, Dismiss(p)
      PROVE  /\ held[r] => held'[r] \/ (case[owner[r]] # "none" /\ ~ underReview'[owner[r]])
             /\ frozen'[owner[r]] => frozen[owner[r]]
  <2>1. /\ case[p] # "none" /\ ~ underReview'[p]
        /\ frozen'[owner[r]] => frozen[owner[r]]
    BY <1>0, <1>7 DEF Dismiss, Lift, Inv, RiskTypeOK
  <2>2. owner[r] # p => (held'[r] <=> held[r])
    BY <1>7 DEF Dismiss, Inv, RequestRowsOK
  <2> QED
    BY <2>1, <2>2
<1>8. ASSUME NEW p \in Players, NEW freeze \in BOOLEAN, Freeze(p, freeze)
      PROVE  /\ held[r] => held'[r]
             /\ ~ frozen[owner[r]] /\ frozen'[owner[r]] => held'[r]
  <2>1. frozen' = [frozen EXCEPT ![p] = freeze]
    BY <1>8 DEF Freeze, SetRestrictions
  <2>2. ~ frozen[owner[r]] /\ frozen'[owner[r]] => freeze /\ owner[r] = p
    BY <1>0, <2>1 DEF Inv, RiskTypeOK
  <2>3. held' = IF freeze THEN HoldPending(p, Pending) ELSE held
    BY <1>8 DEF Freeze
  <2> QED
    BY <1>1, <2>2, <2>3
<1>9. ASSUME NEW p \in Players,
             \/ Confirm(p)
             \/ \E how \in {"no", "staff"} : StaffSuspend(p, how)
             \/ \E by \in {-1, 1} : Play(p, by)
      PROVE  held' = held /\ frozen' = frozen
  BY <1>9 DEF Confirm, Uphold, StaffSuspend, SetSuspended, Play, requestVars, riskVars
<1>10. CASE UNCHANGED vars
  BY <1>10 DEF vars
<1> QED
  BY <1>3, <1>4, <1>5, <1>6, <1>7, <1>8, <1>9, <1>10 DEF Next

(* A held request is not paid, and only the dismissal of its player's case *)
(* lets go of it: not the player, not staff, not an unfreeze.              *)
THEOREM OnlyDismissalReleases == Spec => OnlyADismissalReleases
<1>1. Inv /\ [Next]_vars =>
        [\A r \in Requests :
           held[r] /\ status[r] = "requested" =>
             /\ status'[r] # "paid"
             /\ held'[r] \/ (case[owner[r]] # "none" /\ ~underReview'[owner[r]])]_vars
  BY StatusSteps, HoldSteps
<1> QED
  BY <1>1, Invariance, PTL DEF Spec, OnlyADismissalReleases

(* A freeze, by a detector or by staff, holds every request that was       *)
(* waiting when it happened (_hold_pending_withdrawals).                   *)
THEOREM FreezeHoldsPending == Spec => FreezeReachesPending
<1>1. Inv /\ [Next]_vars =>
        [\A r \in Pending :
           ~frozen[owner[r]] /\ frozen'[owner[r]] => held'[r]]_vars
  BY HoldSteps DEF Pending
<1> QED
  BY <1>1, Invariance, PTL DEF Spec, FreezeReachesPending

-----------------------------------------------------------------------------
(* The wallet and the requests paid from it.                               *)

Total(entries) == SumFunction([e \in entries |-> e.value])

(* One more entry adds its value; no entries come to nothing.              *)
LEMMA TotalAdds ==
  ASSUME NEW E, IsFiniteSet(E), NEW x, x \notin E, \A e \in E \union {x} : e.value \in Int
  PROVE  /\ Total(E \union {x}) = Total(E) + x.value
         /\ Total(E) \in Int
         /\ Total({}) = 0
<1> DEFINE U == E \union {x}
           f == [e \in E |-> e.value]
           g == [e \in U |-> e.value]
<1>1. /\ \A e \in U : g[e] \in Int /\ g[e] = e.value
      /\ \A e \in E : f[e] \in Int /\ g[e] \in Int /\ g[e] = f[e]
      /\ x \in U /\ U = E \union {x}
  OBVIOUS
<1>2. Total(U) = SumFunctionOnSet(g, U) /\ Total(E) = SumFunctionOnSet(f, E)
  BY DEF Total, SumFunction
<1>3. Total({}) = 0
  <2> DEFINE z == [e \in {} |-> e.value]
  <2>1. IsFiniteSet({}) /\ \A e \in {} : z[e] \in Int
    BY FS_EmptySet
  <2>2. Total({}) = SumFunctionOnSet(z, {})
    BY DEF Total, SumFunction
  <2> HIDE DEF z
  <2> QED
    BY <2>1, <2>2, SumFacts
<1> HIDE DEF f, g, U
<1>4. SumFunctionOnSet(g, U) = SumFunctionOnSet(g, E) + g[x]
  <2>1. \A e \in E \union {x} : g[e] \in Int
    BY <1>1
  <2>2. SumFunctionOnSet(g, E \union {x}) = SumFunctionOnSet(g, E) + g[x]
    BY <2>1, SumAdd
  <2> QED
    BY <1>1, <2>2
<1>5. SumFunctionOnSet(g, E) = SumFunctionOnSet(f, E)
  BY <1>1, SumCongruence
<1>6. SumFunctionOnSet(f, E) \in Int
  BY <1>1, SumFacts
<1>7. g[x] = x.value
  BY <1>1
<1> QED
  BY <1>2, <1>3, <1>4, <1>5, <1>6, <1>7 DEF U

(* The fee on an amount is never negative.                                 *)
LEMMA FeeType ==
  ASSUME NEW a \in Nat
  PROVE  FeeFor(a) \in Nat
<1> DEFINE part == a * FeePercent
<1>1. part \in Nat
  <2>1. FeePercent \in Nat
    BY WithdrawalsAssumption
  <2> QED
    BY <2>1
<1> HIDE DEF part
<1>2. part \div 100 \in Nat /\ (part \div 100) + 1 \in Nat
  BY <1>1
<1> QED
  BY <1>2 DEF FeeFor, part

(* What the entries of a step come to: a hold takes the amount, giving it  *)
(* back returns it, and a payout and its fee are what was held.            *)
LEMMA EntryTotals ==
  ASSUME RequestRowsOK, NEW r \in Requests
  PROVE  /\ amount[r] \in Nat
         /\ Total({Hold(r)}) = -amount[r]
         /\ Total(GiveBack(r)) = amount[r]
         /\ Total(PayEntries(r)) = 0
<1> DEFINE a == amount[r]
           fee == FeeFor(amount[r])
           back == EntryOf(r, "return", a)
           paid == EntryOf(r, "paid", fee - a)
           cost == EntryOf(r, "fee", -fee)
<1>1. a \in Nat
  BY WithdrawalsAssumption DEF RequestRowsOK
<1>2. fee \in Nat
  BY <1>1, FeeType
<1> HIDE DEF a, fee
<1>3. ASSUME NEW x, x.value \in Int
      PROVE  Total({x}) = x.value /\ IsFiniteSet({x})
  <2>1. IsFiniteSet({}) /\ {x} = {} \union {x} /\ IsFiniteSet({x})
    BY FS_EmptySet, FS_Singleton
  <2>2. Total({} \union {x}) = Total({}) + x.value /\ Total({}) = 0
    BY <1>3, <2>1, TotalAdds
  <2> QED
    BY <1>3, <2>1, <2>2
<1>4. Total({Hold(r)}) = -a
  <2>1. Hold(r).value = -a /\ -a \in Int
    BY <1>1 DEF Hold, EntryOf, a
  <2> QED
    BY <1>3, <2>1
<1>5. Total(GiveBack(r)) = a
  <2> DEFINE x == EntryOf(r, IF r \in Legacy THEN "legacy-return" ELSE "return", a)
  <2>1. GiveBack(r) = {x} /\ x.value = a
    BY DEF GiveBack, ReturnHold, EntryOf, a
  <2> HIDE DEF x
  <2> QED
    BY <1>1, <1>3, <2>1
<1>6. /\ back.value = a /\ paid.value = fee - a /\ cost.value = -fee
      /\ back # paid /\ cost # back /\ cost # paid
      /\ fee - a \in Int /\ -fee \in Int
  BY <1>1, <1>2 DEF EntryOf
<1>7. PayEntries(r) = IF r \in Legacy THEN {}
                      ELSE {back, paid} \union (IF fee > 0 THEN {cost} ELSE {})
  BY DEF PayEntries, ReturnHold, a, fee
<1> HIDE DEF back, paid, cost
<1>8. Total({back, paid}) = fee /\ IsFiniteSet({back, paid})
  <2>1. {back, paid} = {back} \union {paid} /\ paid \notin {back}
    BY <1>6
  <2>2. Total({back}) = a /\ IsFiniteSet({back})
    BY <1>1, <1>3, <1>6
  <2>3. IsFiniteSet({back} \union {paid})
    BY <2>2, FS_AddElement
  <2>4. Total({back} \union {paid}) = Total({back}) + (fee - a)
    BY <1>1, <1>6, <2>1, <2>2, TotalAdds
  <2> QED
    BY <1>1, <1>2, <2>1, <2>2, <2>3, <2>4
<1>9. Total({back, paid} \union {cost}) = fee + -fee
  <2>1. cost \notin {back, paid} /\ \A e \in {back, paid} \union {cost} : e.value \in Int
    BY <1>1, <1>6
  <2> QED
    BY <1>6, <1>8, <2>1, TotalAdds
<1>10. Total({}) = 0
  <2>1. back \notin {} /\ IsFiniteSet({}) /\ \A e \in {} \union {back} : e.value \in Int
    BY <1>1, <1>6, FS_EmptySet
  <2> QED
    BY <2>1, TotalAdds
<1>11. Total(PayEntries(r)) = 0
  <2>1. CASE r \in Legacy
    BY <1>7, <1>10, <2>1
  <2>2. CASE r \notin Legacy /\ fee > 0
    BY <1>2, <1>7, <1>9, <2>2
  <2>3. CASE r \notin Legacy /\ ~(fee > 0)
    <3>1. PayEntries(r) = {back, paid} /\ fee = 0
      BY <1>2, <1>7, <2>3
    <3> QED
      BY <1>8, <3>1
  <2> QED
    BY <2>1, <2>2, <2>3
<1> QED
  BY <1>1, <1>4, <1>5, <1>11 DEF a

(* Entries none of which is in the ledger yet all move the wallet.         *)
LEMMA PostMoves ==
  ASSUME LedgerMatchesStatus, NEW r \in Requests, NEW entries, Post(r, entries),
         \A e \in entries : e.req = r,
         \A e \in entries : \A old \in Expected(r) : old.kind # e.kind
  PROVE  funds' = [funds EXCEPT ![owner[r]] = funds[owner[r]] + Total(entries)]
<1> DEFINE fresh == {e \in entries : \A old \in posted : <<old.req, old.kind>> # <<e.req, e.kind>>}
<1>1. {e \in posted : e.req = r} = Expected(r)
  BY DEF LedgerMatchesStatus
<1>2. fresh = entries
  BY <1>1
<1>3. funds' = [funds EXCEPT ![owner[r]] = funds[owner[r]] + SumFunction([e \in fresh |-> e.value])]
  BY DEF Post
<1> QED
  BY <1>2, <1>3 DEF Total

(* A request's share depends on its own row only.                          *)
LEMMA ShareIs ==
  ASSUME RequestRowsOK, NEW r \in Requests
  PROVE  /\ Share(r) = IF r \notin Legacy
                       THEN IF status[r] \in {"requested", "paid"} THEN -amount[r] ELSE 0
                       ELSE IF status[r] \in {"rejected", "cancelled"} THEN amount[r] ELSE 0
         /\ Share(r) \in Int
<1>1. amount[r] \in Nat
  BY EntryTotals
<1>2. Share(r) = IF r \notin Legacy
                 THEN IF status[r] \in {"requested", "paid"} THEN -amount[r] ELSE 0
                 ELSE IF status[r] \in {"rejected", "cancelled"} THEN amount[r] ELSE 0
  BY DEF Share
<1> QED
  BY <1>1, <1>2

FundsTypeOK == funds \in [Players -> Int] /\ played \in [Players -> Int]

FundsInv == Inv /\ FundsTypeOK /\ WalletAddsUp /\ FundsNeverNegative

(* A wallet moves by what the step's request takes or gets back, and the   *)
(* code looked before it took.                                             *)
RequestMoves(r) ==
  LET by == Share(r)' - Share(r)
  IN  /\ funds' = [funds EXCEPT ![owner[r]] = funds[owner[r]] + by]
      /\ played' = played
      /\ by >= 0 \/ funds[owner[r]] + by >= 0
      /\ \A q \in Requests \ {r} : Share(q)' = Share(q)

LEMMA FundsSteps ==
  ASSUME FundsInv, Inv', [Next]_vars
  PROVE  /\ UNCHANGED <<owner, amount>>
         /\ \/ \E r \in Requests : RequestMoves(r)
            \/ /\ \E p \in Players, by \in {-1, 1} : Play(p, by)
               /\ \A q \in Requests : Share(q)' = Share(q)
            \/ /\ UNCHANGED <<funds, played>>
               /\ \A q \in Requests : Share(q)' = Share(q)
<1>0. /\ Inv /\ RequestRowsOK /\ RequestRowsOK' /\ LedgerMatchesStatus
      /\ FundsTypeOK
  BY DEF FundsInv, Inv
<1>1. ASSUME NEW r \in Requests, status' = status \/ \E to : status' = [status EXCEPT ![r] = to],
             UNCHANGED <<owner, amount>>
      PROVE  \A q \in Requests \ {r} : Share(q)' = Share(q)
  <2> SUFFICES ASSUME NEW q \in Requests \ {r}
               PROVE  Share(q)' = Share(q)
    OBVIOUS
  <2>1. status'[q] = status[q] /\ amount' = amount
    BY <1>0, <1>1 DEF RequestRowsOK
  <2> QED
    BY <2>1 DEF Share
<1>2. ASSUME UNCHANGED <<status, amount>>
      PROVE  \A q \in Requests : Share(q)' = Share(q)
  BY <1>2 DEF Share
<1>3. ASSUME NEW r \in Requests, Ask(r) \/ Review(r) \/ Abandon(r)
      PROVE  /\ UNCHANGED <<owner, amount, funds, played>>
             /\ \A q \in Requests : Share(q)' = Share(q)
  <2>1. /\ UNCHANGED <<owner, amount, funds, played>>
        /\ \E to : status' = [status EXCEPT ![r] = to]
        /\ {status[r], status'[r]} \subseteq {"new", "asked", "reviewed"}
    BY <1>0, <1>3 DEF Ask, Review, Abandon, RequestRowsOK
  <2>2. Share(r)' = Share(r)
    BY <2>1 DEF Share
  <2> QED
    BY <1>1, <2>1, <2>2
<1>4. ASSUME NEW r \in Requests, NEW finding \in Findings, Submit(r, finding)
      PROVE  UNCHANGED <<owner, amount>> /\ RequestMoves(r)
  <2>1. /\ status[r] = "reviewed" /\ status' = [status EXCEPT ![r] = "requested"]
        /\ status'[r] = "requested" /\ amount[r] <= funds[owner[r]]
        /\ Post(r, {Hold(r)}) /\ UNCHANGED <<owner, amount, played>>
    BY <1>0, <1>4 DEF Submit, RequestRowsOK
  <2>2. r \notin Legacy /\ owner[r] \in Players /\ funds[owner[r]] \in Int
    BY <1>0, <2>1 DEF RequestRowsOK, Decided, FundsTypeOK
  <2>3. Expected(r) = {} /\ Hold(r).req = r
    BY <2>1 DEF Expected, Hold, EntryOf
  <2>4. funds' = [funds EXCEPT ![owner[r]] = funds[owner[r]] + Total({Hold(r)})]
    BY <1>0, <2>1, <2>3, PostMoves
  <2>5. Total({Hold(r)}) = -amount[r] /\ amount[r] \in Nat
    BY <1>0, EntryTotals
  <2>6. Share(r) = 0 /\ Share(r)' = -amount[r]
    BY <2>1, <2>2 DEF Share
  <2>7. Share(r)' - Share(r) = -amount[r]
    BY <2>5, <2>6
  <2>8. \A q \in Requests \ {r} : Share(q)' = Share(q)
    BY <1>1, <2>1
  <2>9. funds[owner[r]] + -amount[r] >= 0
    BY <2>1, <2>2, <2>5
  <2> HIDE DEF RequestMoves
  <2> QED
    BY <2>1, <2>4, <2>5, <2>7, <2>8, <2>9 DEF RequestMoves
<1>5. ASSUME NEW r \in Requests, Cancel(r) \/ Reject(r) \/ MarkPaid(r)
      PROVE  UNCHANGED <<owner, amount>> /\ RequestMoves(r)
  <2>1. PICK to \in Decided :
          Settle(r, to, IF to = "paid" THEN PayEntries(r) ELSE GiveBack(r))
    BY <1>5 DEF Cancel, Reject, MarkPaid, Decided
  <2> DEFINE entries == IF to = "paid" THEN PayEntries(r) ELSE GiveBack(r)
  <2>2. /\ status[r] = "requested" /\ status' = [status EXCEPT ![r] = to]
        /\ status'[r] = to /\ UNCHANGED <<owner, amount, played>>
        /\ Post(r, entries)
    BY <1>0, <2>1 DEF Settle, RequestRowsOK
  <2>3. \A e \in entries : e.req = r /\ e.kind \in {"return", "paid", "fee", "legacy-return"}
    BY DEF PayEntries, GiveBack, ReturnHold, EntryOf
  <2>4. \A old \in Expected(r) : old.kind = "hold"
    BY <2>2 DEF Expected, Hold, EntryOf
  <2>5. /\ Total(entries) = IF to = "paid" THEN 0 ELSE amount[r]
        /\ amount[r] \in Nat
    BY <1>0, EntryTotals
  <2> HIDE DEF entries
  <2>6. funds' = [funds EXCEPT ![owner[r]] = funds[owner[r]] + Total(entries)]
    <3>1. \A e \in entries : e.req = r /\ \A old \in Expected(r) : old.kind # e.kind
      BY <2>3, <2>4
    <3> QED
      BY <1>0, <2>2, <3>1, PostMoves
  <2>7. /\ Share(r) = IF r \notin Legacy THEN -amount[r] ELSE 0
        /\ Share(r)' = IF r \notin Legacy
                       THEN IF to = "paid" THEN -amount[r] ELSE 0
                       ELSE IF to = "paid" THEN 0 ELSE amount[r]
    BY <2>2 DEF Share, Decided
  <2>8. Share(r)' - Share(r) = Total(entries) /\ Total(entries) >= 0
    BY <2>5, <2>7
  <2>9. \A q \in Requests \ {r} : Share(q)' = Share(q)
    BY <1>1, <2>2
  <2> QED
    BY <2>2, <2>6, <2>8, <2>9 DEF RequestMoves
<1>6. ASSUME NEW p \in Players,
             \/ \E finding \in Findings \ {"low"} : Flag(p, finding)
             \/ Dismiss(p) \/ Confirm(p)
             \/ \E freeze \in BOOLEAN : Freeze(p, freeze)
             \/ \E how \in {"no", "staff"} : StaffSuspend(p, how)
      PROVE  /\ UNCHANGED <<owner, amount, funds, played>>
             /\ \A q \in Requests : Share(q)' = Share(q)
  <2>1. UNCHANGED <<status, owner, amount, funds, played>>
    BY <1>6 DEF Flag, Dismiss, Confirm, Freeze, StaffSuspend, requestVars
  <2> QED
    BY <1>2, <2>1
<1>7. ASSUME NEW p \in Players, NEW by \in {-1, 1}, Play(p, by)
      PROVE  UNCHANGED <<owner, amount>> /\ \A q \in Requests : Share(q)' = Share(q)
  <2>1. UNCHANGED <<status, owner, amount>>
    BY <1>7 DEF Play
  <2> QED
    BY <1>2, <2>1
<1>8. CASE UNCHANGED vars
  <2>1. UNCHANGED <<status, owner, amount, funds, played>>
    BY <1>8 DEF vars
  <2> QED
    BY <1>2, <2>1
<1> HIDE DEF RequestMoves, Share
<1> QED
  BY <1>3, <1>4, <1>5, <1>6, <1>7, <1>8 DEF Next

LEMMA FundsStep ==
  ASSUME FundsInv, Inv', [Next]_vars
  PROVE  FundsInv'
<1> DEFINE Of(p) == {r \in Requests : owner[r] = p}
           before == [r \in Requests |-> Share(r)]
           after == [r \in Requests |-> Share(r)']
<1>1. /\ RequestRowsOK /\ RequestRowsOK' /\ owner \in [Requests -> Players]
      /\ funds \in [Players -> Int] /\ played \in [Players -> Int]
      /\ \A p \in Players : funds[p] >= 0
  BY DEF FundsInv, Inv, RequestRowsOK, FundsTypeOK, FundsNeverNegative
<1>2. owner' = owner
  BY FundsSteps
<1>3. /\ \A r \in Requests : before[r] = Share(r) /\ after[r] = Share(r)'
      /\ \A r \in Requests : before[r] \in Int /\ after[r] \in Int
  <2>1. ASSUME NEW r \in Requests
        PROVE  Share(r) \in Int
    BY <1>1, ShareIs
  <2>2. ASSUME NEW r \in Requests
        PROVE  Share(r)' \in Int
    <3>1. amount' \in [Requests -> Amounts]
      BY <1>1 DEF RequestRowsOK
    <3> HIDE DEF before, after, Of
    <3>2. amount'[r] \in Amounts
      BY <3>1
    <3>3. \A a \in Amounts : a \in Int /\ -a \in Int
      BY WithdrawalsAssumption
    <3>4. amount'[r] \in Int /\ -(amount'[r]) \in Int
      BY <3>2, <3>3, Zenon
    <3> QED
      BY <3>4 DEF Share
  <2> QED
    BY <2>1, <2>2
<1>4. \A p : IsFiniteSet(Of(p)) /\ Of(p) \subseteq Requests
  BY WithdrawalsAssumption, FS_Subset
<1>5. \A p \in Players : funds[p] = Opening + played[p] + SumFunctionOnSet(before, Of(p))
  BY DEF FundsInv, WalletAddsUp
<1>6. ASSUME FundsTypeOK',
             \A p \in Players : /\ funds'[p] = Opening + played'[p] + SumFunctionOnSet(after, Of(p))
                                /\ funds'[p] >= 0
      PROVE  FundsInv'
  <2>1. WalletAddsUp'
    BY <1>2, <1>6 DEF WalletAddsUp
  <2> QED
    BY <1>6, <2>1 DEF FundsInv, FundsNeverNegative
<1> HIDE DEF Of, before, after
<1>7. ASSUME NEW p \in Players
      PROVE  SumFunctionOnSet(before, Of(p)) \in Int
  BY <1>3, <1>4, SumFacts
<1>8. Opening \in Int
  BY WithdrawalsAssumption
<1>9. CASE \E r \in Requests : RequestMoves(r)
  <2>1. PICK r \in Requests : RequestMoves(r)
    BY <1>9
  <2> DEFINE by == Share(r)' - Share(r)
             o == owner[r]
  <2>2. /\ funds' = [funds EXCEPT ![o] = funds[o] + by]
        /\ played' = played
        /\ by >= 0 \/ funds[o] + by >= 0
        /\ \A q \in Requests \ {r} : after[q] = before[q]
        /\ by = after[r] - before[r] /\ by \in Int
    BY <1>3, <2>1 DEF RequestMoves
  <2>3. o \in Players /\ r \in Of(o)
    BY <1>1 DEF Of
  <2> HIDE DEF by, o
  <2>4. funds' \in [Players -> Int] /\ funds'[o] = funds[o] + by
    BY <1>1, <2>2, <2>3
  <2>5. SumFunctionOnSet(after, Of(o)) = SumFunctionOnSet(before, Of(o)) + by
    <3>1. /\ \A q \in Of(o) : before[q] \in Int /\ after[q] \in Int
          /\ \A q \in Of(o) \ {r} : before[q] = after[q]
      BY <1>3, <1>4, <2>2
    <3> QED
      BY <1>4, <2>2, <2>3, <3>1, SumChange
  <2>6. ASSUME NEW p \in Players \ {o}
        PROVE  SumFunctionOnSet(after, Of(p)) = SumFunctionOnSet(before, Of(p)) /\ funds'[p] = funds[p]
    <3>1. r \notin Of(p)
      BY DEF Of, o
    <3>2. \A q \in Of(p) : before[q] \in Int /\ before[q] = after[q]
      BY <1>3, <1>4, <2>2, <3>1
    <3>3. SumFunctionOnSet(before, Of(p)) = SumFunctionOnSet(after, Of(p))
      BY <1>4, <3>2, SumCongruence
    <3> QED
      BY <1>1, <2>2, <3>3
  <2>7. FundsTypeOK'
    BY <1>1, <2>2, <2>4 DEF FundsTypeOK
  <2>8. ASSUME NEW p \in Players
        PROVE  /\ funds'[p] = Opening + played'[p] + SumFunctionOnSet(after, Of(p))
               /\ funds'[p] >= 0
    <3>1. /\ funds[p] \in Int /\ played[p] \in Int /\ funds[p] >= 0 /\ played' = played
          /\ funds[p] = Opening + played[p] + SumFunctionOnSet(before, Of(p))
          /\ SumFunctionOnSet(before, Of(p)) \in Int
      BY <1>1, <1>5, <1>7, <2>2
    <3>2. CASE p = o
      BY <1>8, <2>2, <2>4, <2>5, <3>1, <3>2
    <3>3. CASE p # o
      BY <2>6, <3>1, <3>3
    <3> QED
      BY <3>2, <3>3
  <2> QED
    BY <1>6, <2>7, <2>8
<1>10. ASSUME \A q \in Requests : Share(q)' = Share(q)
       PROVE  \A p : SumFunctionOnSet(after, Of(p)) = SumFunctionOnSet(before, Of(p))
  <2>1. before = after
    BY <1>10 DEF before, after
  <2> QED
    BY <2>1
<1>11. ASSUME \A q \in Requests : Share(q)' = Share(q),
              \E p \in Players, by \in {-1, 1} : Play(p, by)
       PROVE  FundsInv'
  <2>1. PICK o \in Players, by \in {-1, 1} : Play(o, by)
    BY <1>11
  <2>2. /\ funds' = [funds EXCEPT ![o] = funds[o] + by]
        /\ played' = [played EXCEPT ![o] = played[o] + by]
        /\ funds[o] + by >= 0
    BY <2>1 DEF Play
  <2>3. FundsTypeOK'
    BY <1>1, <2>2 DEF FundsTypeOK
  <2>4. ASSUME NEW p \in Players
        PROVE  /\ funds'[p] = Opening + played'[p] + SumFunctionOnSet(after, Of(p))
               /\ funds'[p] >= 0
    <3>1. /\ funds[p] \in Int /\ played[p] \in Int /\ funds[p] >= 0
          /\ funds[p] = Opening + played[p] + SumFunctionOnSet(before, Of(p))
          /\ SumFunctionOnSet(before, Of(p)) \in Int
          /\ SumFunctionOnSet(after, Of(p)) = SumFunctionOnSet(before, Of(p))
      BY <1>1, <1>5, <1>7, <1>10, <1>11
    <3>2. \/ p # o /\ funds'[p] = funds[p] /\ played'[p] = played[p]
          \/ p = o /\ funds'[p] = funds[p] + by /\ played'[p] = played[p] + by /\ funds[p] + by >= 0
      BY <1>1, <2>2
    <3> QED
      BY <1>8, <3>1, <3>2
  <2> QED
    BY <1>6, <2>3, <2>4
<1>12. ASSUME \A q \in Requests : Share(q)' = Share(q), UNCHANGED <<funds, played>>
       PROVE  FundsInv'
  <2>1. FundsTypeOK'
    BY <1>1, <1>12 DEF FundsTypeOK
  <2> QED
    BY <1>1, <1>5, <1>6, <1>10, <1>12, <2>1
<1> QED
  BY <1>9, <1>11, <1>12, FundsSteps

(* The wallet's invariant holds throughout.                                *)
THEOREM FundsInvariance == Spec => []FundsInv
<1>1. Init => FundsInv
  <2> SUFFICES ASSUME Init PROVE FundsInv
    OBVIOUS
  <2>1. Inv
    BY WithdrawalsAssumption
       DEF Init, RiskInit, Inv, RiskTypeOK, RequestRowsOK, LedgerMatchesStatus, Expected, Decided
  <2>2. /\ Opening \in Nat
        /\ \A p \in Players : funds[p] = Opening /\ played[p] = 0
        /\ FundsTypeOK
    BY WithdrawalsAssumption DEF Init, FundsTypeOK
  <2>3. \A r \in Requests : Share(r) = 0
    BY DEF Init, Share
  <2>4. WalletAddsUp
    <3> DEFINE S(p) == {r \in Requests : owner[r] = p}
               f == [r \in Requests |-> Share(r)]
    <3>1. ASSUME NEW p \in Players
          PROVE  SumFunctionOnSet(f, S(p)) = 0
      <4>1. IsFiniteSet(S(p)) /\ \A r \in S(p) : f[r] = 0
        BY <2>3, WithdrawalsAssumption, FS_Subset
      <4> HIDE DEF S, f
      <4> QED
        BY <4>1, SumOfZeros
    <3>2. ASSUME NEW p \in Players
          PROVE  funds[p] = Opening + played[p] + SumFunctionOnSet(f, S(p))
      <4>1. funds[p] = Opening /\ played[p] = 0 /\ Opening \in Nat /\ SumFunctionOnSet(f, S(p)) = 0
        BY <2>2, <3>1
      <4> HIDE DEF S, f
      <4> QED
        BY <4>1
    <3> QED
      BY <3>2 DEF WalletAddsUp
  <2> QED
    BY <2>1, <2>2, <2>4 DEF FundsInv, FundsNeverNegative
<1>2. FundsInv /\ [Next]_vars => FundsInv'
  <2> SUFFICES ASSUME FundsInv, [Next]_vars PROVE FundsInv'
    OBVIOUS
  <2>1. Inv'
    BY InvStep DEF FundsInv
  <2> QED
    BY <2>1, FundsStep
<1> QED
  BY <1>1, <1>2, PTL DEF Spec

(* Between a wallet and its requests no money is made or lost, whatever    *)
(* the fee and its rounding, and in whatever order requests are made,      *)
(* paid, declined and taken back (request, mark_paid, _give_back).         *)
THEOREM NoMoneyMadeOrLost == Spec => []WalletAddsUp
<1>1. FundsInv => WalletAddsUp
  BY DEF FundsInv
<1> QED
  BY <1>1, FundsInvariance, PTL

(* Requests and bets that compete for one wallet never overdraw it: the    *)
(* funds are looked at again under the lock the hold is taken with.        *)
THEOREM RequestsNeverOverdraw == Spec => []FundsNeverNegative
<1>1. FundsInv => FundsNeverNegative
  BY DEF FundsInv
<1> QED
  BY <1>1, FundsInvariance, PTL

-----------------------------------------------------------------------------
(* Runs of wins.  The definitions of Bonus, with the verdicts as a         *)
(* parameter: a run and a conversion depend on nothing else of the state.  *)

WonBy(v, x)   == x \in Tickets /\ v[x] = "won"
ResetBy(v, x) == x \in Bonuses \/ v[x] = "lost"
Run(v, s, i)  == {j \in 1 .. i : WonBy(v, s[j]) /\ \A k \in j .. i : ~ ResetBy(v, s[k])}
RunLength(v, s, i) == Cardinality(Run(v, s, i))
Converting(v, s) == {i \in DOMAIN s : WonBy(v, s[i]) /\ RunLength(v, s, i) % WinsToConvert = 0}

LEMMA RunLengthType ==
  ASSUME NEW v, NEW s, NEW i \in Nat
  PROVE  IsFiniteSet(Run(v, s, i)) /\ RunLength(v, s, i) \in Nat
<1>1. IsFiniteSet(1 .. i)
  BY FS_Interval
<1>2. Run(v, s, i) \in SUBSET (1 .. i)
  BY DEF Run
<1>3. IsFiniteSet(Run(v, s, i))
  BY <1>1, <1>2, FS_Subset
<1> QED
  BY <1>3, FS_CardinalityType DEF RunLength

LEMMA ConvertingType ==
  ASSUME NEW v, NEW S, NEW s \in Seq(S)
  PROVE  IsFiniteSet(Converting(v, s)) /\ Cardinality(Converting(v, s)) \in Nat
<1>1. IsFiniteSet(1 .. Len(s))
  BY FS_Interval
<1>2. Converting(v, s) \in SUBSET (1 .. Len(s))
  BY DEF Converting
<1>3. IsFiniteSet(Converting(v, s))
  BY <1>1, <1>2, FS_Subset
<1> QED
  BY <1>3, FS_CardinalityType

(* A lost ticket or a new bonus ends the run.                              *)
LEMMA ResetEndsRun ==
  ASSUME NEW v, NEW S, NEW s \in Seq(S), s # <<>>, ResetBy(v, s[Len(s)])
  PROVE  RunLength(v, s, Len(s)) = 0
<1>1. Run(v, s, Len(s)) = {}
  <2> SUFFICES ASSUME NEW j \in Run(v, s, Len(s)) PROVE FALSE
    OBVIOUS
  <2>1. j \in 1 .. Len(s) /\ \A k \in j .. Len(s) : ~ ResetBy(v, s[k])
    BY DEF Run
  <2>2. Len(s) \in j .. Len(s)
    BY <2>1
  <2> QED
    BY <2>1, <2>2
<1> QED
  BY <1>1, FS_EmptySet DEF RunLength

(* What is committed later changes no earlier run.                         *)
LEMMA EarlierRunsStay ==
  ASSUME NEW v, NEW S, NEW s \in Seq(S), NEW u \in Seq(S), NEW i \in 0 .. Len(s)
  PROVE  RunLength(v, s \o u, i) = RunLength(v, s, i)
<1>1. \A k \in 1 .. i : (s \o u)[k] = s[k]
  OBVIOUS
<1>2. Run(v, s \o u, i) = Run(v, s, i)
  <2>1. ASSUME NEW j \in 1 .. i
        PROVE  j \in Run(v, s \o u, i) <=> j \in Run(v, s, i)
    <3>1. \A k \in j .. i : k \in 1 .. i
      OBVIOUS
    <3> QED
      BY <1>1, <3>1, <2>1 DEF Run
  <2> QED
    BY <2>1 DEF Run
<1> QED
  BY <1>2 DEF RunLength

(* A won ticket makes the run one longer.                                  *)
LEMMA WinExtendsRun ==
  ASSUME NEW v, NEW S, NEW s \in Seq(S), NEW x \in S, WonBy(v, x), ~ ResetBy(v, x)
  PROVE  RunLength(v, s \o <<x>>, Len(s) + 1) = RunLength(v, s, Len(s)) + 1
<1> DEFINE n == Len(s)
           z == s \o <<x>>
<1>1. n \in Nat /\ (\A k \in 1 .. n : z[k] = s[k]) /\ z[n + 1] = x
  OBVIOUS
<1>2. Run(v, z, n + 1) = Run(v, s, n) \cup {n + 1}
  <2> HIDE DEF z, n
  <2>1. n + 1 \in Run(v, z, n + 1)
    <3>1. \A k \in n + 1 .. n + 1 : k = n + 1
      BY <1>1
    <3>2. n + 1 \in 1 .. n + 1
      BY <1>1
    <3> QED
      BY <1>1, <3>1, <3>2 DEF Run
  <2>2. ASSUME NEW j \in 1 .. n
        PROVE  j \in Run(v, z, n + 1) <=> j \in Run(v, s, n)
    <3>1. \A k : k \in j .. n + 1 <=> k \in j .. n \/ k = n + 1
      BY <1>1
    <3>2. \A k \in j .. n : z[k] = s[k]
      BY <1>1
    <3>3. j \in 1 .. n + 1 /\ z[j] = s[j]
      BY <1>1
    <3> QED
      BY <1>1, <3>1, <3>2, <3>3 DEF Run
  <2>3. \A j : j \in Run(v, z, n + 1) => j \in 1 .. n \/ j = n + 1
    BY <1>1 DEF Run
  <2>4. \A j : j \in Run(v, s, n) => j \in 1 .. n
    BY DEF Run
  <2> QED
    BY <2>1, <2>2, <2>3, <2>4
<1> HIDE DEF z, n
<1>3. IsFiniteSet(Run(v, s, n))
  BY RunLengthType, <1>1
<1>4. n + 1 \notin Run(v, s, n)
  BY <1>1 DEF Run
<1>5. RunLength(v, z, n + 1) = RunLength(v, s, n) + 1
  BY <1>2, <1>3, <1>4, FS_AddElement DEF RunLength
<1> QED
  BY <1>5 DEF n, z

(* Tickets that only got their stake back leave it as it is.               *)
LEMMA VoidsDoNotCount ==
  ASSUME NEW v, NEW S, NEW s \in Seq(S), NEW u \in Seq(S),
         \A i \in DOMAIN u : ~ WonBy(v, u[i]) /\ ~ ResetBy(v, u[i])
  PROVE  RunLength(v, s \o u, Len(s \o u)) = RunLength(v, s, Len(s))
<1> DEFINE n == Len(s)
           m == Len(u)
           z == s \o u
<1>1. n \in Nat /\ m \in Nat /\ Len(z) = n + m
  OBVIOUS
<1>2. \A k \in 1 .. n : z[k] = s[k]
  OBVIOUS
<1>3. \A k \in n + 1 .. n + m : ~ WonBy(v, z[k]) /\ ~ ResetBy(v, z[k])
  <2>1. ASSUME NEW k \in n + 1 .. n + m
        PROVE  z[k] = u[k - n] /\ k - n \in DOMAIN u
    OBVIOUS
  <2> HIDE DEF z, n, m
  <2> QED
    BY <2>1
<1>4. Run(v, z, n + m) = Run(v, s, n)
  <2> HIDE DEF z, n, m
  <2>1. ASSUME NEW j \in 1 .. n
        PROVE  j \in Run(v, z, n + m) <=> j \in Run(v, s, n)
    <3>1. \A k : k \in j .. n + m <=> k \in j .. n \/ k \in n + 1 .. n + m
      BY <1>1
    <3>2. \A k \in j .. n : z[k] = s[k]
      BY <1>2
    <3>3. j \in 1 .. n + m /\ z[j] = s[j]
      BY <1>1, <1>2
    <3> QED
      BY <1>3, <3>1, <3>2, <3>3 DEF Run
  <2>2. \A j : j \in Run(v, z, n + m) => j \in 1 .. n \/ j \in n + 1 .. n + m
    BY <1>1 DEF Run
  <2>3. \A j : j \in Run(v, z, n + m) => WonBy(v, z[j])
    BY DEF Run
  <2>4. \A j : j \in Run(v, s, n) => j \in 1 .. n
    BY DEF Run
  <2> QED
    BY <2>1, <2>2, <2>3, <2>4, <1>3
<1> QED
  BY <1>1, <1>4 DEF RunLength

(* A conversion that was earned stays earned.                              *)
LEMMA ConversionsStay ==
  ASSUME NEW v, NEW S, NEW s \in Seq(S), NEW u \in Seq(S)
  PROVE  Cardinality(Converting(v, s)) <= Cardinality(Converting(v, s \o u))
<1>1. s \o u \in Seq(S)
  OBVIOUS
<1>2. ASSUME NEW i \in Converting(v, s)
      PROVE  i \in Converting(v, s \o u)
  <2>1. i \in 1 .. Len(s) /\ i \in 0 .. Len(s)
    BY DEF Converting
  <2>2. (s \o u)[i] = s[i] /\ i \in DOMAIN (s \o u)
    BY <2>1
  <2>3. RunLength(v, s \o u, i) = RunLength(v, s, i)
    BY <2>1, EarlierRunsStay
  <2> QED
    BY <2>2, <2>3 DEF Converting
<1>3. Converting(v, s) \in SUBSET Converting(v, s \o u)
  BY <1>2
<1> QED
  BY <1>1, <1>3, ConvertingType, FS_Subset

(* The win that completes WinsToConvert in a row earns one more.           *)
LEMMA WinConverts ==
  ASSUME NEW v, NEW S, NEW s \in Seq(S), NEW x \in S, WonBy(v, x),
         RunLength(v, s \o <<x>>, Len(s) + 1) % WinsToConvert = 0
  PROVE  Cardinality(Converting(v, s)) + 1 <= Cardinality(Converting(v, s \o <<x>>))
<1> DEFINE z == s \o <<x>>
<1>1. z \in Seq(S) /\ Len(s) + 1 \in DOMAIN z /\ z[Len(s) + 1] = x
  OBVIOUS
<1>2. Len(s) + 1 \in Converting(v, z)
  BY <1>1 DEF Converting
<1>3. ASSUME NEW i \in Converting(v, s)
      PROVE  i \in Converting(v, z) \ {Len(s) + 1}
  <2>1. i \in 1 .. Len(s) /\ i \in 0 .. Len(s) /\ Len(s) \in Nat
    BY DEF Converting
  <2>2. z[i] = s[i] /\ i \in DOMAIN z /\ i # Len(s) + 1
    BY <2>1
  <2>3. <<x>> \in Seq(S)
    OBVIOUS
  <2>4. RunLength(v, z, i) = RunLength(v, s, i)
    BY <2>1, <2>3, EarlierRunsStay
  <2> QED
    BY <2>2, <2>4 DEF Converting
<1> HIDE DEF z
<1>4. IsFiniteSet(Converting(v, z)) /\ Cardinality(Converting(v, z)) \in Nat
  BY <1>1, ConvertingType
<1>5. /\ IsFiniteSet(Converting(v, z) \ {Len(s) + 1})
      /\ Cardinality(Converting(v, z) \ {Len(s) + 1}) = Cardinality(Converting(v, z)) - 1
  BY <1>2, <1>4, FS_RemoveElement
<1>6. Converting(v, s) \in SUBSET (Converting(v, z) \ {Len(s) + 1})
  BY <1>3
<1>7. Cardinality(Converting(v, s)) <= Cardinality(Converting(v, z)) - 1
  BY <1>5, <1>6, FS_Subset
<1>8. Cardinality(Converting(v, s)) \in Nat
  BY ConvertingType
<1> QED
  BY <1>4, <1>7, <1>8 DEF z

(* The count after one more win.                                           *)
LEMMA CountWraps ==
  ASSUME NEW k \in Nat, NEW n \in Nat \ {0}
  PROVE  (k + 1) % n = IF (k % n) + 1 < n THEN (k % n) + 1 ELSE 0
<1> DEFINE q == k \div n
           r == k % n
<1>1. q \in Int /\ r \in 0 .. n - 1 /\ k = n * q + r
  OBVIOUS
<1> QED
  BY <1>1

-----------------------------------------------------------------------------
(* The inductive invariant of the Bonus wallet.                            *)

(* Every transaction is of a kind that its owner runs.                     *)
Stages(o) ==
  CASE o \in Tickets  -> {"idle", "stake", "refund"}
    [] o \in Bonuses  -> {"idle", "reset"}
    [] o \in Settlers -> {"idle", "ticket", "pay", "count"}

JobsOK ==
  \A o \in Owners : job[o].stage \in Stages(o) /\ (job[o].stage = "idle" => job[o] = Idle)

(* A transaction holds the rows it has come by, and only those: a ticket   *)
(* being rejected its own row, a bonus being credited the wallet.          *)
Holding ==
  /\ \A r \in Rows : lock[r] = Nobody => now[r] = db[r]
  /\ \A r \in Rows :
       /\ \A t \in Tickets : lock[r] = t => r = t /\ job[t].stage = "refund"
       /\ \A b \in Bonuses : lock[r] = b => r = "wallet" /\ job[b].stage = "reset"
       /\ \A s \in Settlers : lock[r] = s => job[s].stage # "idle"
  /\ \A t \in Tickets : job[t].stage = "refund" => lock[t] = t
  /\ \A b \in Bonuses : job[b].stage = "reset" => lock["wallet"] = b

(* Where a settlement is, its ticket goes that way; and it holds what the  *)
(* tickets it is done with made it lock: the wallet, unless they are lost, *)
(* the count, unless they only got their stake back.                       *)
AtItsTicket(s) ==
  /\ job[s].stage \in {"pay", "count"} => job[s].todo # <<>>
  /\ job[s].stage = "pay" => verdict[Current(s)] # "lost"
  /\ job[s].stage = "count" =>
       verdict[Current(s)] # "void" /\ (verdict[Current(s)] # "lost" => lock["wallet"] = s)

HoldsForDone(s) ==
  /\ \A i \in DOMAIN job[s].done :
       /\ verdict[job[s].done[i]] # "lost" => lock["wallet"] = s
       /\ verdict[job[s].done[i]] # "void" => lock["rollover"] = s
  /\ lock["rollover"] = s => job[s].done # <<>>

Underway == \A s \in Settlers : AtItsTicket(s) /\ HoldsForDone(s)

(* The count and what Winnings received follow the results that are        *)
(* committed; for the settlement that holds the count, they follow those   *)
(* and the ones it is done with.  Whoever holds the wallet alone has not   *)
(* touched Winnings.                                                       *)
Follows(wins, v, s) == wins = RunLength(v, s, Len(s)) % WinsToConvert
Within(w, v, s) == w.winnings <= MaxConversion * Cardinality(Converting(v, s))

CountFollows ==
  /\ Follows(db["rollover"], verdict, log)
  /\ \A s \in Settlers :
       lock["rollover"] = s => Follows(now["rollover"], verdict, log \o job[s].done)

WinningsWithin ==
  /\ Within(db["wallet"], verdict, log)
  /\ \A s \in Settlers :
       lock["rollover"] = s /\ lock["wallet"] = s => Within(now["wallet"], verdict, log \o job[s].done)
  /\ lock["wallet"] # lock["rollover"] => now["wallet"].winnings = db["wallet"].winnings

BonusInv ==
  BonusTypeOK /\ JobsOK /\ Holding /\ Underway /\ CountFollows /\ WinningsWithin

(* Tickets, bonuses, settlements and rows are told apart.                  *)
LEMMA Apart ==
  /\ "wallet" \in Rows /\ "rollover" \in Rows /\ "wallet" # "rollover"
  /\ \A t \in Tickets : t \in Rows /\ t \in Owners /\ t # "wallet" /\ t # "rollover"
  /\ \A r \in Rows : r = "wallet" \/ r = "rollover" \/ r \in Tickets
  /\ \A t \in Tickets : t \notin Bonuses /\ t \notin Settlers
  /\ \A b \in Bonuses : b \in Owners /\ b \notin Tickets /\ b \notin Settlers
  /\ \A s \in Settlers : s \in Owners /\ s \notin Tickets /\ s \notin Bonuses
  /\ \A o \in Owners : o # Nobody /\ (o \in Tickets \/ o \in Bonuses \/ o \in Settlers)
  BY BonusAssumption DEF Rows, Owners

LEMMA StagesAre ==
  /\ \A t \in Tickets : Stages(t) = {"idle", "stake", "refund"}
  /\ \A b \in Bonuses : Stages(b) = {"idle", "reset"}
  /\ \A s \in Settlers : Stages(s) = {"idle", "ticket", "pay", "count"}
  BY Apart DEF Stages

(* One row of a type gets another value of that type.                      *)
LEMMA RowSet ==
  ASSUME NEW v, RowsOK(v), NEW r \in Rows, NEW x,
         r = "wallet" => x \in WalletType,
         r = "rollover" => x \in 0 .. WinsToConvert - 1,
         r \in Tickets => x \in TicketType
  PROVE  /\ RowsOK([v EXCEPT ![r] = x])
         /\ [v EXCEPT ![r] = x][r] = x
         /\ \A q \in Rows : q # r => [v EXCEPT ![r] = x][q] = v[q]
  BY Apart DEF RowsOK

LEMMA CreditedType ==
  ASSUME NEW w \in WalletType, NEW amt \in Nat
  PROVE  Credited(w, amt) \in WalletType /\ Credited(w, amt).winnings = w.winnings
  BY DEF Credited, WalletType

LEMMA IdleJob == Idle \in JobType
<1> <<>> \in Seq(Tickets)
  OBVIOUS
<1> QED
  BY DEF Idle, JobType

(* What a settlement has done is a list of results.                        *)
LEMMA DoneIsResults ==
  ASSUME BonusTypeOK, NEW s \in Settlers
  PROVE  /\ log \in Seq(Tickets \union Bonuses)
         /\ job[s] \in JobType /\ job[s].done \in Seq(Tickets)
         /\ job[s].done \in Seq(Tickets \union Bonuses)
         /\ log \o job[s].done \in Seq(Tickets \union Bonuses)
<1>1. log \in Seq(Tickets \union Bonuses) /\ job[s] \in JobType
  BY Apart DEF BonusTypeOK
<1>2. job[s].done \in Seq(Tickets)
  BY <1>1 DEF JobType
<1>3. job[s].done \in Seq(Tickets \union Bonuses)
  BY <1>2
<1> QED
  BY <1>1, <1>2, <1>3

(* While what a settlement is done with is not committed, a longer log     *)
(* only allows for more.                                                   *)
LEMMA WithinStays ==
  ASSUME NEW w \in WalletType, NEW v, NEW S, NEW s \in Seq(S), NEW u \in Seq(S), Within(w, v, s)
  PROVE  Within(w, v, s \o u)
<1> DEFINE a == Cardinality(Converting(v, s))
           b == Cardinality(Converting(v, s \o u))
<1>1. s \o u \in Seq(S)
  OBVIOUS
<1>2. a \in Nat /\ b \in Nat /\ a <= b
  BY <1>1, ConvertingType, ConversionsStay
<1>3. MaxConversion \in Nat /\ w.winnings \in Nat
  BY BonusAssumption DEF WalletType
<1>4. MaxConversion * a <= MaxConversion * b
  <2> HIDE DEF a, b
  <2>1. b = a + (b - a) /\ b - a \in Nat
    BY <1>2
  <2>2. MaxConversion * b = MaxConversion * a + MaxConversion * (b - a)
    BY <2>1, <1>2, <1>3
  <2>3. MaxConversion * (b - a) \in Nat /\ MaxConversion * a \in Nat /\ MaxConversion * b \in Nat
    BY <2>1, <1>2, <1>3
  <2> QED
    BY <2>2, <2>3
<1>5. MaxConversion * a \in Nat /\ MaxConversion * b \in Nat
  BY <1>2, <1>3
<1> QED
  BY <1>3, <1>4, <1>5 DEF Within

LEMMA BonusInitHolds == BonusInit => BonusInv
<1> SUFFICES ASSUME BonusInit PROVE BonusInv
  OBVIOUS
<1> USE BonusAssumption
<1>1. /\ db["wallet"] = [bonus |-> 0, winnings |-> 0, forfeited |-> 0, credited |-> {}]
      /\ db["rollover"] = 0 /\ DOMAIN db = Rows /\ now = db
      /\ \A t \in Tickets : db[t] = [status |-> "none", stake |-> 0, back |-> 0]
  BY Apart DEF BonusInit
<1>2. /\ lock = [r \in Rows |-> Nobody] /\ job = [o \in Owners |-> Idle]
      /\ log = <<>> /\ verdict \in Verdicts /\ crashes = 0
  BY DEF BonusInit
<1>3. BonusTypeOK
  <2>1. db["wallet"] \in WalletType /\ \A t \in Tickets : db[t] \in TicketType
    BY <1>1 DEF WalletType, TicketType
  <2>2. RowsOK(db)
    BY <1>1, <2>1 DEF RowsOK
  <2>3. log \in Seq(Tickets \union Bonuses)
    BY <1>2
  <2> QED
    BY <1>1, <1>2, <2>2, <2>3, IdleJob DEF BonusTypeOK
<1>4. JobsOK
  BY <1>2, StagesAre, Apart DEF JobsOK, Idle
<1>5. Holding
  BY <1>1, <1>2, Apart DEF Holding, Idle
<1>6. Underway
  BY <1>2, Apart DEF Underway, AtItsTicket, HoldsForDone, Idle
<1>7. \A v : RunLength(v, <<>>, 0) = 0 /\ Cardinality(Converting(v, <<>>)) = 0
  BY FS_EmptySet DEF RunLength, Run, Converting
<1>8. CountFollows
  <2>1. RunLength(verdict, <<>>, Len(<<>>)) % WinsToConvert = 0
    BY <1>7
  <2> QED
    BY <1>1, <1>2, <2>1, Apart DEF CountFollows, Follows
<1>9. WinningsWithin
  <2>1. MaxConversion * 0 = 0
    OBVIOUS
  <2> QED
    BY <1>1, <1>2, <1>7, <2>1, Apart DEF WinningsWithin, Within
<1> QED
  BY <1>3, <1>4, <1>5, <1>6, <1>8, <1>9 DEF BonusInv

-----------------------------------------------------------------------------
(* The steps of placing, confirming and crediting.                         *)

(* A step that leaves the rows, the locks and the log alone, and gives one *)
(* transaction a new job that holds and has done no more.                  *)
LEMMA JobOnly ==
  ASSUME BonusInv, UNCHANGED <<db, now, lock, log, verdict>>, NEW o \in Owners, NEW new \in JobType,
         job' = [job EXCEPT ![o] = new], crashes' \in 0 .. MaxCrashes,
         new.stage \in Stages(o), new.stage = "idle" => new = Idle,
         \A r \in Rows : lock[r] # o,
         new.stage \notin {"refund", "reset", "pay", "count"}, new.done = <<>>
  PROVE  BonusInv'
<1>1. job' \in [Owners -> JobType] /\ job'[o] = new /\ \A p \in Owners : p # o => job'[p] = job[p]
  BY DEF BonusInv, BonusTypeOK
<1>2. BonusTypeOK'
  BY <1>1 DEF BonusInv, BonusTypeOK, RowsOK
<1>3. JobsOK'
  BY <1>1 DEF BonusInv, JobsOK
<1>4. Holding'
  BY <1>1, Apart DEF BonusInv, Holding
<1>5. Underway'
  <2> SUFFICES ASSUME NEW s \in Settlers PROVE (AtItsTicket(s) /\ HoldsForDone(s))'
    BY DEF Underway
  <2>1. CASE s = o
    BY <2>1, <1>1, Apart DEF BonusInv, AtItsTicket, HoldsForDone
  <2>2. CASE s # o
    BY <2>2, <1>1, Apart DEF BonusInv, Underway, AtItsTicket, HoldsForDone, Current
  <2> QED
    BY <2>1, <2>2
<1>6. \A s \in Settlers : s # o => job'[s].done = job[s].done
  BY <1>1, Apart
<1>7. CountFollows' /\ WinningsWithin'
  BY <1>6, Apart DEF BonusInv, CountFollows, WinningsWithin
<1> QED
  BY <1>2, <1>3, <1>4, <1>5, <1>7 DEF BonusInv

LEMMA CheckKeeps ==
  ASSUME BonusInv, NEW t \in Tickets, Check(t)
  PROVE  BonusInv'
<1> DEFINE new == [Idle EXCEPT !.stage = "stake", !.amount = db["wallet"].bonus]
<1>1. db["wallet"].bonus \in Nat
  BY DEF BonusInv, BonusTypeOK, RowsOK, WalletType
<1>2. new \in JobType /\ new.stage = "stake" /\ new.done = <<>>
  BY <1>1, IdleJob DEF JobType, Idle
<1>3. \A r \in Rows : lock[r] # t
  BY Apart DEF BonusInv, Holding, Check, Idle
<1>4. job' = [job EXCEPT ![t] = new] /\ UNCHANGED <<db, now, lock, log, verdict, crashes>>
  BY DEF Check
<1>5. crashes' \in 0 .. MaxCrashes
  BY <1>4 DEF BonusInv, BonusTypeOK
<1>6. t \in Owners /\ new.stage \in Stages(t)
  BY <1>2, Apart, StagesAre
<1> HIDE DEF new
<1> QED
  BY <1>2, <1>3, <1>4, <1>5, <1>6, JobOnly

LEMMA BeginKeeps ==
  ASSUME BonusInv, NEW s \in Settlers, Begin(s)
  PROVE  BonusInv'
<1>1. PICK todo \in Touched : job' = [job EXCEPT ![s] = [Idle EXCEPT !.stage = "ticket", !.todo = todo]]
  BY DEF Begin
<1>2. todo \in Seq(Tickets)
  <2>1. PICK T \in SUBSET Tickets : todo \in SetToSeqs(T)
    BY <1>1 DEF Touched, SetToAllKPermutations
  <2>2. IsFiniteSet(T)
    BY <2>1, BonusAssumption, FS_Subset
  <2>3. Cardinality(T) \in Nat
    BY <2>2, FS_CardinalityType
  <2>4. todo \in [1 .. Cardinality(T) -> T]
    BY <2>1 DEF SetToSeqs
  <2> QED
    BY <2>3, <2>4
<1> DEFINE new == [Idle EXCEPT !.stage = "ticket", !.todo = todo]
<1>3. new \in JobType /\ new.stage = "ticket" /\ new.done = <<>>
  BY <1>2, IdleJob DEF JobType, Idle
<1>4. \A r \in Rows : lock[r] # s
  BY Apart DEF BonusInv, Holding, Begin, Idle
<1>5. job' = [job EXCEPT ![s] = new] /\ UNCHANGED <<db, now, lock, log, verdict, crashes>>
  BY <1>1 DEF Begin
<1>6. crashes' \in 0 .. MaxCrashes
  BY <1>5 DEF BonusInv, BonusTypeOK
<1>7. s \in Owners /\ new.stage \in Stages(s)
  BY <1>3, Apart, StagesAre
<1> HIDE DEF new
<1> QED
  BY <1>3, <1>4, <1>5, <1>6, <1>7, JobOnly

(* A transaction ends: its locks go, its job is done, and the rows nobody  *)
(* holds any more are the committed ones.                                  *)
Ends(o) ==
  /\ job' = [job EXCEPT ![o] = Idle]
  /\ lock' \in [Rows -> Owners \union {Nobody}]
  /\ \A r \in Rows : lock'[r] = IF lock[r] = o THEN Nobody ELSE lock[r]
  /\ RowsOK(db') /\ RowsOK(now')
  /\ \A r \in Rows : lock'[r] = Nobody => now'[r] = db'[r]
  /\ log' \in Seq(Tickets \union Bonuses)
  /\ verdict' = verdict /\ crashes' \in 0 .. MaxCrashes

LEMMA EndKeeps ==
  ASSUME BonusInv, NEW o \in Owners, Ends(o)
  PROVE  /\ BonusTypeOK' /\ JobsOK' /\ Holding' /\ Underway'
         /\ \A s \in Settlers :
              /\ s # o => job'[s] = job[s] /\ \A r \in Rows : lock'[r] = s <=> lock[r] = s
              /\ s = o => \A r \in Rows : lock'[r] # s
<1>1. job' \in [Owners -> JobType] /\ job'[o] = Idle /\ \A p \in Owners : p # o => job'[p] = job[p]
  BY IdleJob DEF BonusInv, BonusTypeOK, Ends
<1>2. \A p \in Owners : \A r \in Rows : lock'[r] = p <=> p # o /\ lock[r] = p
  BY Apart DEF Ends
<1>3. BonusTypeOK'
  BY <1>1 DEF BonusInv, BonusTypeOK, Ends, RowsOK
<1>4. JobsOK'
  <2>1. Idle.stage \in Stages(o)
    BY Apart, StagesAre DEF Idle
  <2> QED
    BY <1>1, <2>1 DEF BonusInv, JobsOK
<1>5. Holding'
  <2>1. Idle.stage = "idle"
    BY DEF Idle
  <2>2. \A r \in Rows : lock'[r] = Nobody => now'[r] = db'[r]
    BY DEF Ends
  <2>3. \A r \in Rows :
          /\ \A t \in Tickets : lock'[r] = t => r = t /\ job'[t].stage = "refund"
          /\ \A b \in Bonuses : lock'[r] = b => r = "wallet" /\ job'[b].stage = "reset"
          /\ \A s \in Settlers : lock'[r] = s => job'[s].stage # "idle"
    BY <1>1, <1>2, Apart DEF BonusInv, Holding
  <2>4. \A t \in Tickets : job'[t].stage = "refund" => lock'[t] = t
    BY <1>1, <1>2, <2>1, Apart DEF BonusInv, Holding
  <2>5. \A b \in Bonuses : job'[b].stage = "reset" => lock'["wallet"] = b
    BY <1>1, <1>2, <2>1, Apart DEF BonusInv, Holding
  <2> QED
    BY <2>2, <2>3, <2>4, <2>5 DEF Holding
<1>6. Underway'
  <2> SUFFICES ASSUME NEW s \in Settlers PROVE (AtItsTicket(s) /\ HoldsForDone(s))'
    BY DEF Underway
  <2>1. CASE s = o
    BY <2>1, <1>1, <1>2, Apart DEF AtItsTicket, HoldsForDone, Idle
  <2>2. CASE s # o
    <3>1. AtItsTicket(s) /\ HoldsForDone(s) /\ job'[s] = job[s] /\ verdict' = verdict
      BY <2>2, <1>1, Apart DEF BonusInv, Underway, Ends
    <3>2. (lock'["wallet"] = s <=> lock["wallet"] = s) /\ (lock'["rollover"] = s <=> lock["rollover"] = s)
      BY <2>2, <1>2, Apart
    <3> QED
      BY <3>1, <3>2 DEF AtItsTicket, HoldsForDone, Current
  <2> QED
    BY <2>1, <2>2
<1> QED
  BY <1>1, <1>2, <1>3, <1>4, <1>5, <1>6, Apart

(* A transaction that ends without changing what Winnings or the count     *)
(* holds keeps the rest of the invariant too.                              *)
LEMMA QuietEndKeeps ==
  ASSUME BonusInv, NEW o \in Owners, Ends(o), log' = log,
         db'["rollover"] = db["rollover"], db'["wallet"].winnings = db["wallet"].winnings,
         lock["wallet"] \notin {o, Nobody} => now'["wallet"] = now["wallet"],
         lock["rollover"] \notin {o, Nobody} => now'["rollover"] = now["rollover"]
  PROVE  BonusInv'
<1>1. /\ BonusTypeOK' /\ JobsOK' /\ Holding' /\ Underway'
      /\ \A s \in Settlers :
           /\ s # o => job'[s] = job[s] /\ \A r \in Rows : lock'[r] = s <=> lock[r] = s
           /\ s = o => \A r \in Rows : lock'[r] # s
  BY EndKeeps
<1>2. verdict' = verdict
  BY DEF Ends
<1>3. CountFollows'
  <2>1. ASSUME NEW s \in Settlers, lock'["rollover"] = s
        PROVE  Follows(now'["rollover"], verdict', log' \o job'[s].done)
    <3>1. s # o /\ job'[s] = job[s] /\ lock["rollover"] = s /\ s # Nobody
      BY <1>1, <2>1, Apart
    <3> QED
      BY <3>1, <1>2 DEF BonusInv, CountFollows
  <2> QED
    BY <1>2, <2>1 DEF BonusInv, CountFollows
<1>4. WinningsWithin'
  <2>1. Within(db'["wallet"], verdict', log')
    BY <1>2 DEF BonusInv, WinningsWithin, Within
  <2>2. ASSUME NEW s \in Settlers, lock'["rollover"] = s, lock'["wallet"] = s
        PROVE  Within(now'["wallet"], verdict', log' \o job'[s].done)
    <3>1. s # o /\ job'[s] = job[s] /\ lock["rollover"] = s /\ lock["wallet"] = s /\ s # Nobody
      BY <1>1, <2>2, Apart
    <3> QED
      BY <3>1, <1>2 DEF BonusInv, WinningsWithin
  <2>3. ASSUME lock'["wallet"] # lock'["rollover"]
        PROVE  now'["wallet"].winnings = db'["wallet"].winnings
    <3>1. CASE lock["wallet"] \in {o, Nobody}
      BY <3>1, Apart DEF Ends
    <3>2. CASE lock["wallet"] \notin {o, Nobody}
      <4>1. lock["wallet"] # lock["rollover"]
        BY <3>2, <2>3, Apart DEF Ends
      <4> QED
        BY <3>2, <4>1 DEF BonusInv, WinningsWithin
    <3> QED
      BY <3>1, <3>2
  <2> QED
    BY <2>1, <2>2, <2>3 DEF WinningsWithin
<1> QED
  BY <1>1, <1>3, <1>4 DEF BonusInv

LEMMA RollbackKeeps ==
  ASSUME BonusInv, NEW o \in Owners, Rollback(o), crashes' \in 0 .. MaxCrashes
  PROVE  BonusInv' /\ Ends(o)
<1>1. RowsOK(db) /\ RowsOK(now) /\ lock \in [Rows -> Owners \union {Nobody}]
  BY DEF BonusInv, BonusTypeOK
<1>2. /\ now' = [r \in Rows |-> IF lock[r] = o THEN db[r] ELSE now[r]]
      /\ lock' = [r \in Rows |-> IF lock[r] = o THEN Nobody ELSE lock[r]]
      /\ job' = [job EXCEPT ![o] = Idle] /\ UNCHANGED <<db, log, verdict>>
  BY DEF Rollback
<1>3. RowsOK(now')
  BY <1>1, <1>2, Apart DEF RowsOK
<1>4. Ends(o)
  <2>1. log' \in Seq(Tickets \union Bonuses)
    BY <1>2 DEF BonusInv, BonusTypeOK
  <2>2. \A r \in Rows : lock'[r] = Nobody => now'[r] = db'[r]
    BY <1>2 DEF BonusInv, Holding
  <2> QED
    BY <1>1, <1>2, <1>3, <2>1, <2>2 DEF Ends
<1> QED
  BY <1>2, <1>4, QuietEndKeeps, Apart

LEMMA StakeKeeps ==
  ASSUME BonusInv, NEW t \in Tickets, Stake(t)
  PROVE  BonusInv' /\ Ends(t) /\ lock["wallet"] = Nobody
<1> DEFINE w == db["wallet"]
           stake == job[t].amount
<1>1. RowsOK(db) /\ RowsOK(now) /\ w \in WalletType /\ stake \in Nat
  BY Apart DEF BonusInv, BonusTypeOK, RowsOK, JobType
<1>2. lock["wallet"] = Nobody /\ \A r \in Rows : lock[r] # t
  <2>1. job[t].stage = "stake"
    BY DEF Stake
  <2>2. \A r \in Rows : lock[r] # t
    BY <2>1, Apart DEF BonusInv, Holding
  <2>3. lock["wallet"] \in {t, Nobody}
    BY <2>1 DEF Stake, MayGoOn, Wants, Free
  <2> QED
    BY <2>2, <2>3, Apart
<1>3. UNCHANGED <<lock, log, verdict, crashes>> /\ job' = [job EXCEPT ![t] = Idle]
  BY DEF Stake
<1>4. /\ RowsOK(db') /\ RowsOK(now')
      /\ \A r \in Rows : lock[r] = Nobody => now'[r] = db'[r]
      /\ db'["rollover"] = db["rollover"] /\ now'["rollover"] = now["rollover"]
      /\ db'["wallet"].winnings = db["wallet"].winnings
  <2>1. CASE w.bonus >= stake
    <3>1. PICK made_as \in {"OPEN", "ACCEPTING"} :
            LET made == [status |-> made_as, stake |-> stake, back |-> 0]
                paid == [w EXCEPT !.bonus = @ - stake]
            IN  /\ db' = [db EXCEPT !["wallet"] = paid, ![t] = made]
                /\ now' = [now EXCEPT !["wallet"] = paid, ![t] = made]
      BY <2>1 DEF Stake
    <3> DEFINE made == [status |-> made_as, stake |-> stake, back |-> 0]
               paid == [w EXCEPT !.bonus = @ - stake]
    <3>2. made \in TicketType
      BY <1>1 DEF TicketType
    <3>3. paid \in WalletType /\ paid.winnings = w.winnings
      BY <1>1, <2>1 DEF WalletType
    <3>4. db' = [db EXCEPT !["wallet"] = paid, ![t] = made] /\ now' = [now EXCEPT !["wallet"] = paid, ![t] = made]
      BY <3>1
    <3> HIDE DEF made, paid
    <3>5. /\ DOMAIN db' = Rows /\ DOMAIN now' = Rows
          /\ \A r \in Rows : db'[r] = IF r = "wallet" THEN paid ELSE IF r = t THEN made ELSE db[r]
          /\ \A r \in Rows : now'[r] = IF r = "wallet" THEN paid ELSE IF r = t THEN made ELSE now[r]
      BY <3>4, <1>1, Apart DEF RowsOK
    <3>6. RowsOK(db') /\ RowsOK(now')
      BY <1>1, <3>2, <3>3, <3>5, Apart DEF RowsOK
    <3>7. \A r \in Rows : lock[r] = Nobody => now'[r] = db'[r]
      BY <3>5 DEF BonusInv, Holding
    <3> QED
      BY <3>3, <3>5, <3>6, <3>7, Apart
  <2>2. CASE ~ (w.bonus >= stake)
    <3>1. db' = db /\ now' = now
      BY <2>2 DEF Stake
    <3> QED
      BY <3>1, <1>1 DEF BonusInv, Holding
  <2> QED
    BY <2>1, <2>2
<1>5. Ends(t)
  BY <1>2, <1>3, <1>4 DEF Ends, BonusInv, BonusTypeOK
<1> QED
  BY <1>2, <1>3, <1>4, <1>5, QuietEndKeeps, Apart

LEMMA RefundKeeps ==
  ASSUME BonusInv, NEW t \in Tickets, Refund(t)
  PROVE  BonusInv' /\ Ends(t) /\ lock["wallet"] = Nobody
<1> DEFINE w == Credited(db["wallet"], now[t].stake)
<1>1. /\ RowsOK(db) /\ RowsOK(now) /\ now[t] \in TicketType
      /\ w \in WalletType /\ w.winnings = db["wallet"].winnings
  <2>1. RowsOK(db) /\ RowsOK(now)
    BY DEF BonusInv, BonusTypeOK
  <2>2. now[t].stake \in Nat /\ db["wallet"] \in WalletType
    BY <2>1 DEF RowsOK, TicketType
  <2> QED
    BY <2>1, <2>2 DEF RowsOK, Credited, WalletType
<1>2. /\ job[t].stage = "refund" /\ lock[t] = t /\ lock["wallet"] = Nobody
      /\ \A r \in Rows : lock[r] = t => r = t
  <2>1. job[t].stage = "refund"
    BY DEF Refund
  <2>2. lock["wallet"] \in {t, Nobody}
    BY <2>1 DEF Refund, MayGoOn, Wants, Free
  <2> QED
    BY <2>1, <2>2, Apart DEF BonusInv, Holding
<1>3. /\ db' = [db EXCEPT !["wallet"] = w, ![t] = now[t]] /\ now' = [now EXCEPT !["wallet"] = w]
      /\ lock' = [lock EXCEPT ![t] = Nobody] /\ job' = [job EXCEPT ![t] = Idle]
      /\ UNCHANGED <<log, verdict, crashes>>
  BY DEF Refund
<1> HIDE DEF w
<1>4. /\ DOMAIN db' = Rows /\ DOMAIN now' = Rows
      /\ \A r \in Rows : db'[r] = IF r = "wallet" THEN w ELSE IF r = t THEN now[t] ELSE db[r]
      /\ \A r \in Rows : now'[r] = IF r = "wallet" THEN w ELSE now[r]
  BY <1>1, <1>3, Apart DEF RowsOK
<1>5. RowsOK(db') /\ RowsOK(now')
  BY <1>1, <1>4, Apart DEF RowsOK
<1>6. /\ lock' \in [Rows -> Owners \union {Nobody}]
      /\ \A r \in Rows : lock'[r] = IF lock[r] = t THEN Nobody ELSE lock[r]
  BY <1>2, <1>3, Apart DEF BonusInv, BonusTypeOK
<1>7. \A r \in Rows : lock'[r] = Nobody => now'[r] = db'[r]
  BY <1>4, <1>6 DEF BonusInv, Holding
<1>8. Ends(t)
  BY <1>3, <1>5, <1>6, <1>7 DEF Ends, BonusInv, BonusTypeOK
<1> QED
  BY <1>1, <1>2, <1>3, <1>4, <1>8, QuietEndKeeps, Apart

(* A transaction takes a row nobody holds, or writes one it has, and goes  *)
(* on with a job of a kind its owner runs.  What has to be shown of such a *)
(* step: that its own job and locks fit.                                   *)
Goes(o, r) ==
  /\ RowsOK(now') /\ db' = db /\ log' = log /\ verdict' = verdict /\ crashes' = crashes
  /\ \A q \in Rows : q # r /\ lock[q] # o => now'[q] = now[q]
  /\ lock' = [lock EXCEPT ![r] = o]
  /\ job' \in [Owners -> JobType]
  /\ \A p \in Owners : p # o => job'[p] = job[p]

LEMMA GoesKeeps ==
  ASSUME BonusInv, NEW o \in Owners, NEW r \in Rows, Goes(o, r), Free(o, r),
         job'[o].stage \in Stages(o), job'[o].stage # "idle",
         o \in Tickets => r = o /\ job'[o].stage = "refund",
         o \in Bonuses => r = "wallet" /\ job'[o].stage = "reset"
  PROVE  /\ BonusTypeOK' /\ JobsOK' /\ Holding'
         /\ \A p \in Owners : p # o => \A q \in Rows : lock'[q] = p <=> lock[q] = p
         /\ \A s \in Settlers : s # o => (AtItsTicket(s) /\ HoldsForDone(s))'
<1>1. /\ lock \in [Rows -> Owners \union {Nobody}]
      /\ \A q \in Rows : lock'[q] = IF q = r THEN o ELSE lock[q]
  BY DEF BonusInv, BonusTypeOK, Goes
<1>2. lock[r] = o \/ lock[r] = Nobody
  BY DEF Free
<1>3. \A p \in Owners : p # o => \A q \in Rows : lock'[q] = p <=> lock[q] = p
  BY <1>1, <1>2, Apart
<1>4. BonusTypeOK'
  BY <1>1 DEF BonusInv, BonusTypeOK, Goes, RowsOK
<1>5. JobsOK'
  BY DEF BonusInv, JobsOK, Goes
<1>6. Holding'
  <2>1. \A q \in Rows : lock'[q] = Nobody => now'[q] = db'[q]
    BY <1>1, Apart DEF BonusInv, Holding, Goes
  <2>2. ASSUME NEW q \in Rows
        PROVE  /\ \A t \in Tickets : lock'[q] = t => q = t /\ job'[t].stage = "refund"
               /\ \A b \in Bonuses : lock'[q] = b => q = "wallet" /\ job'[b].stage = "reset"
               /\ \A s \in Settlers : lock'[q] = s => job'[s].stage # "idle"
    <3>1. CASE lock'[q] = o
      <4>1. q = r \/ lock[q] = o
        BY <3>1, <1>1
      <4> QED
        BY <3>1, <4>1, Apart DEF BonusInv, Holding
    <3>2. CASE lock'[q] # o
      BY <3>2, <1>3, Apart DEF BonusInv, Holding, Goes
    <3> QED
      BY <3>1, <3>2
  <2>3. \A t \in Tickets : job'[t].stage = "refund" => lock'[t] = t
    BY <1>1, <1>3, Apart DEF BonusInv, Holding, Goes
  <2>4. \A b \in Bonuses : job'[b].stage = "reset" => lock'["wallet"] = b
    BY <1>1, <1>3, Apart DEF BonusInv, Holding, Goes
  <2> QED
    BY <2>1, <2>2, <2>3, <2>4 DEF Holding
<1>7. ASSUME NEW s \in Settlers, s # o
      PROVE  (AtItsTicket(s) /\ HoldsForDone(s))'
  <2>1. AtItsTicket(s) /\ HoldsForDone(s) /\ job'[s] = job[s] /\ verdict' = verdict
    BY <1>7, Apart DEF BonusInv, Underway, Goes
  <2>2. (lock'["wallet"] = s <=> lock["wallet"] = s) /\ (lock'["rollover"] = s <=> lock["rollover"] = s)
    BY <1>7, <1>3, Apart
  <2> QED
    BY <2>1, <2>2 DEF AtItsTicket, HoldsForDone, Current
<1> QED
  BY <1>3, <1>4, <1>5, <1>6, <1>7

(* Writing a ticket's row touches neither the count nor the wallet.        *)
LEMMA TicketRowIsQuiet ==
  ASSUME BonusInv, NEW o \in Owners, NEW t \in Tickets, Goes(o, t),
         \A q \in Rows : q # t => now'[q] = now[q],
         \A s \in Settlers : job'[s].done = job[s].done
  PROVE  CountFollows' /\ WinningsWithin'
<1>1. /\ now'["wallet"] = now["wallet"] /\ now'["rollover"] = now["rollover"]
      /\ db' = db /\ log' = log /\ verdict' = verdict
  BY Apart DEF Goes
<1>2. lock'["wallet"] = lock["wallet"] /\ lock'["rollover"] = lock["rollover"]
  BY Apart DEF Goes, BonusInv, BonusTypeOK
<1> QED
  BY <1>1, <1>2 DEF BonusInv, CountFollows, WinningsWithin

LEMMA ConfirmLiveKeeps ==
  ASSUME BonusInv, NEW t \in Tickets, ConfirmLive(t)
  PROVE  BonusInv' /\ (Ends(t) \/ Goes(t, t))
<1>1. /\ RowsOK(db) /\ RowsOK(now) /\ lock \in [Rows -> Owners \union {Nobody}]
      /\ job \in [Owners -> JobType] /\ now[t] \in TicketType /\ db[t] \in TicketType
  BY DEF BonusInv, BonusTypeOK, RowsOK
<1>2. job[t] = Idle /\ lock[t] = Nobody /\ now[t] = db[t] /\ \A r \in Rows : lock[r] # t
  BY Apart DEF BonusInv, Holding, ConfirmLive, Idle, Free
<1>3. CASE /\ db' = [db EXCEPT ![t].status = "OPEN"] /\ now' = [now EXCEPT ![t].status = "OPEN"]
           /\ UNCHANGED <<lock, job>>
  <2> DEFINE row == [now[t] EXCEPT !.status = "OPEN"]
  <2>1. row \in TicketType
    BY <1>1 DEF TicketType
  <2>2. db' = [db EXCEPT ![t] = row] /\ now' = [now EXCEPT ![t] = row]
    BY <1>2, <1>3
  <2> HIDE DEF row
  <2>3. /\ RowsOK(db') /\ RowsOK(now') /\ db'[t] = row /\ now'[t] = row
        /\ \A r \in Rows : r # t => db'[r] = db[r] /\ now'[r] = now[r]
    BY <1>1, <2>1, <2>2, Apart DEF RowsOK
  <2>4. job' = [job EXCEPT ![t] = Idle]
    BY <1>1, <1>2, <1>3
  <2>5. UNCHANGED <<log, verdict, crashes>>
    BY DEF ConfirmLive
  <2>6. \A r \in Rows : lock'[r] = Nobody => now'[r] = db'[r]
    BY <1>3, <2>3 DEF BonusInv, Holding
  <2>7. Ends(t)
    BY <1>1, <1>2, <1>3, <2>3, <2>4, <2>5, <2>6 DEF Ends, BonusInv, BonusTypeOK
  <2> QED
    BY <2>3, <2>5, <2>7, QuietEndKeeps, Apart
<1>4. CASE /\ Write(t, t, [now[t] EXCEPT !.status = "REJECTED", !.back = now[t].stake])
           /\ job' = [job EXCEPT ![t] = [Idle EXCEPT !.stage = "refund"]]
           /\ UNCHANGED db
  <2> DEFINE row == [now[t] EXCEPT !.status = "REJECTED", !.back = now[t].stake]
             new == [Idle EXCEPT !.stage = "refund"]
  <2>1. row \in TicketType
    BY <1>1 DEF TicketType
  <2>2. new \in JobType /\ new.stage = "refund"
    BY IdleJob DEF JobType, Idle
  <2>3. lock' = [lock EXCEPT ![t] = t] /\ now' = [now EXCEPT ![t] = row]
    BY <1>4 DEF Write
  <2>4. job' = [job EXCEPT ![t] = new] /\ UNCHANGED <<db, log, verdict, crashes>>
    BY <1>4 DEF ConfirmLive
  <2> HIDE DEF row, new
  <2>5. RowsOK(now') /\ \A r \in Rows : r # t => now'[r] = now[r]
    BY <1>1, <2>1, <2>3, Apart DEF RowsOK
  <2>6. Goes(t, t) /\ job'[t] = new
    BY <1>1, <2>2, <2>3, <2>4, <2>5, Apart DEF Goes
  <2>7. Free(t, t) /\ "refund" \in Stages(t)
    BY <1>2, StagesAre DEF Free
  <2>8. /\ BonusTypeOK' /\ JobsOK' /\ Holding'
        /\ \A s \in Settlers : (AtItsTicket(s) /\ HoldsForDone(s))'
    BY <2>2, <2>6, <2>7, GoesKeeps, Apart
  <2>9. \A s \in Settlers : job'[s].done = job[s].done
    BY <2>6, Apart DEF Goes
  <2>10. CountFollows' /\ WinningsWithin'
    BY <2>5, <2>6, <2>9, TicketRowIsQuiet, Apart
  <2> QED
    BY <2>6, <2>8, <2>10 DEF BonusInv, Underway
<1> QED
  BY <1>3, <1>4 DEF ConfirmLive

LEMMA CreditKeeps ==
  ASSUME BonusInv, NEW b \in Bonuses, Credit(b)
  PROVE  BonusInv' /\ Goes(b, "wallet") /\ lock["wallet"] = Nobody
<1> DEFINE w == [Credited(now["wallet"], BonusAmount[b]) EXCEPT !.credited = @ \union {b}]
           new == [Idle EXCEPT !.stage = "reset"]
<1>1. /\ RowsOK(db) /\ RowsOK(now) /\ lock \in [Rows -> Owners \union {Nobody}]
      /\ job \in [Owners -> JobType] /\ now["wallet"] \in WalletType
  BY DEF BonusInv, BonusTypeOK, RowsOK
<1>2. lock["wallet"] = Nobody /\ now["wallet"] = db["wallet"] /\ \A r \in Rows : lock[r] # b
  BY Apart DEF BonusInv, Holding, Credit, Idle, Free
<1>3. w \in WalletType /\ w.winnings = now["wallet"].winnings
  <2>1. BonusAmount[b] \in Nat
    BY BonusAssumption
  <2> DEFINE c == Credited(now["wallet"], BonusAmount[b])
  <2>2. c \in WalletType /\ c.winnings = now["wallet"].winnings
    BY <1>1, <2>1, CreditedType
  <2>3. w = [c EXCEPT !.credited = @ \union {b}]
    OBVIOUS
  <2> HIDE DEF w, c
  <2> QED
    BY <2>2, <2>3 DEF WalletType
<1>4. new \in JobType /\ new.stage = "reset"
  BY IdleJob DEF JobType, Idle
<1>5. /\ lock' = [lock EXCEPT !["wallet"] = b] /\ now' = [now EXCEPT !["wallet"] = w]
      /\ job' = [job EXCEPT ![b] = new] /\ UNCHANGED <<db, log, verdict, crashes>>
  BY DEF Credit, Write
<1> HIDE DEF w, new
<1>6. RowsOK(now') /\ now'["wallet"] = w /\ \A r \in Rows : r # "wallet" => now'[r] = now[r]
  BY <1>1, <1>3, <1>5, Apart DEF RowsOK
<1>7. Goes(b, "wallet") /\ job'[b] = new
  BY <1>1, <1>4, <1>5, <1>6, Apart DEF Goes
<1>8. Free(b, "wallet") /\ "reset" \in Stages(b)
  BY <1>2, StagesAre DEF Free
<1>9. /\ BonusTypeOK' /\ JobsOK' /\ Holding'
      /\ \A s \in Settlers : (AtItsTicket(s) /\ HoldsForDone(s))'
  BY <1>4, <1>7, <1>8, GoesKeeps, Apart
<1>10. /\ lock'["wallet"] = b /\ lock'["rollover"] = lock["rollover"]
       /\ \A s \in Settlers : job'[s] = job[s]
  BY <1>1, <1>5, Apart
<1>11. CountFollows'
  BY <1>5, <1>6, <1>10, Apart DEF BonusInv, CountFollows
<1>12. WinningsWithin'
  BY <1>2, <1>3, <1>5, <1>6, <1>10, Apart DEF BonusInv, WinningsWithin
<1> QED
  BY <1>2, <1>7, <1>9, <1>11, <1>12 DEF BonusInv, Underway

LEMMA ResetKeeps ==
  ASSUME BonusInv, NEW b \in Bonuses, Reset(b)
  PROVE  BonusInv' /\ Ends(b) /\ lock["rollover"] = Nobody
<1>1. /\ RowsOK(db) /\ RowsOK(now) /\ lock \in [Rows -> Owners \union {Nobody}]
      /\ now["wallet"] \in WalletType /\ log \in Seq(Tickets \union Bonuses)
  BY DEF BonusInv, BonusTypeOK, RowsOK
<1>2. /\ lock["wallet"] = b /\ lock["rollover"] = Nobody
      /\ \A r \in Rows : lock[r] = b => r = "wallet"
  <2>1. job[b].stage = "reset"
    BY DEF Reset
  <2>2. lock["rollover"] \in {b, Nobody}
    BY <2>1 DEF Reset, MayGoOn, Wants, Free
  <2> QED
    BY <2>1, <2>2, Apart DEF BonusInv, Holding
<1>3. /\ db' = [db EXCEPT !["wallet"] = now["wallet"], !["rollover"] = 0]
      /\ now' = [now EXCEPT !["rollover"] = 0]
      /\ lock' = [lock EXCEPT !["wallet"] = Nobody] /\ job' = [job EXCEPT ![b] = Idle]
      /\ log' = log \o <<b>> /\ UNCHANGED <<verdict, crashes>>
  BY <1>1 DEF Reset
<1>4. /\ DOMAIN db' = Rows /\ DOMAIN now' = Rows
      /\ db'["wallet"] = now["wallet"] /\ db'["rollover"] = 0
      /\ now'["wallet"] = now["wallet"] /\ now'["rollover"] = 0
      /\ \A t \in Tickets : db'[t] = db[t] /\ now'[t] = now[t]
  BY <1>1, <1>3, Apart DEF RowsOK
<1>5. 0 \in 0 .. WinsToConvert - 1
  BY BonusAssumption
<1>6. RowsOK(db') /\ RowsOK(now')
  BY <1>1, <1>4, <1>5 DEF RowsOK
<1>7. /\ lock' \in [Rows -> Owners \union {Nobody}]
      /\ \A r \in Rows : lock'[r] = IF lock[r] = b THEN Nobody ELSE lock[r]
  BY <1>1, <1>2, <1>3
<1>8. \A r \in Rows : lock'[r] = Nobody => now'[r] = db'[r]
  <2>1. \A t \in Tickets : lock'[t] = Nobody => now'[t] = db'[t]
    BY <1>2, <1>4, <1>7, Apart DEF BonusInv, Holding
  <2> QED
    BY <2>1, <1>4, Apart
<1>9. <<b>> \in Seq(Tickets \union Bonuses) /\ log' \in Seq(Tickets \union Bonuses)
  BY <1>1, <1>3
<1>10. Ends(b)
  BY <1>3, <1>6, <1>7, <1>8, <1>9 DEF Ends, BonusInv, BonusTypeOK
<1>11. BonusTypeOK' /\ JobsOK' /\ Holding' /\ Underway'
  BY <1>10, EndKeeps, Apart
<1>12. lock'["wallet"] = Nobody /\ lock'["rollover"] = Nobody
  BY <1>2, <1>7, Apart
<1>13. CountFollows'
  <2>1. log' # <<>> /\ log'[Len(log')] = b
    BY <1>1, <1>3
  <2>2. RunLength(verdict, log', Len(log')) = 0
    BY <1>9, <2>1, ResetEndsRun DEF ResetBy
  <2>3. 0 % WinsToConvert = 0
    BY BonusAssumption
  <2>4. Follows(db'["rollover"], verdict', log')
    BY <2>2, <2>3, <1>3, <1>4 DEF Follows
  <2>5. \A s \in Settlers : lock'["rollover"] # s
    BY <1>12, Apart
  <2> QED
    BY <2>4, <2>5 DEF CountFollows
<1>14. WinningsWithin'
  <2>1. now["wallet"].winnings = db["wallet"].winnings
    BY <1>2, Apart DEF BonusInv, WinningsWithin
  <2>2. Within(now["wallet"], verdict, log)
    BY <2>1 DEF BonusInv, WinningsWithin, Within
  <2>3. Within(now["wallet"], verdict, log \o <<b>>)
    BY <1>1, <1>9, <2>2, WithinStays
  <2> QED
    BY <2>3, <1>3, <1>4, <1>12, Apart DEF WinningsWithin
<1> QED
  BY <1>2, <1>10, <1>11, <1>13, <1>14 DEF BonusInv

-----------------------------------------------------------------------------
(* The steps of settling.                                                  *)

LEMMA VerdictIs ==
  ASSUME BonusTypeOK, NEW t \in Tickets
  PROVE  verdict[t] \in {"won", "lost", "void"}
  BY BonusAssumption DEF BonusTypeOK

LEMMA CurrentIs ==
  ASSUME BonusTypeOK, NEW s \in Settlers, job[s].todo # <<>>
  PROVE  Current(s) \in Tickets
<1>1. job[s].todo \in Seq(Tickets)
  BY Apart DEF BonusTypeOK, JobType
<1> QED
  BY <1>1 DEF Current

LEMMA GotoDoes ==
  ASSUME BonusTypeOK, NEW s \in Settlers, NEW stage \in {"pay", "count"}, Goto(s, stage)
  PROVE  /\ job' \in [Owners -> JobType] /\ \A p \in Owners : p # s => job'[p] = job[p]
         /\ job'[s].stage = stage /\ job'[s].todo = job[s].todo /\ job'[s].done = job[s].done
<1> DEFINE new == [job[s] EXCEPT !.stage = stage]
<1>1. job \in [Owners -> JobType] /\ job[s] \in JobType
  BY Apart DEF BonusTypeOK
<1>2. /\ new \in JobType /\ new.stage = stage
      /\ new.todo = job[s].todo /\ new.done = job[s].done
  BY <1>1 DEF JobType
<1>3. job' = [job EXCEPT ![s] = new]
  BY DEF Goto
<1> HIDE DEF new
<1> QED
  BY <1>1, <1>2, <1>3, Apart

LEMMA ProceedDoes ==
  ASSUME BonusTypeOK, NEW s \in Settlers, job[s].todo # <<>>, NEW settled \in BOOLEAN,
         Proceed(s, settled)
  PROVE  /\ job' \in [Owners -> JobType] /\ \A p \in Owners : p # s => job'[p] = job[p]
         /\ job'[s].stage = "ticket" /\ job'[s].todo = Tail(job[s].todo)
         /\ job'[s].done = IF settled THEN job[s].done \o <<Current(s)>> ELSE job[s].done
<1> DEFINE more == IF settled THEN <<Current(s)>> ELSE <<>>
           new == [job[s] EXCEPT !.stage = "ticket", !.todo = Tail(@), !.done = @ \o more]
<1>1. job \in [Owners -> JobType] /\ job[s] \in JobType
  BY Apart DEF BonusTypeOK
<1>2. job[s].todo \in Seq(Tickets) /\ job[s].done \in Seq(Tickets)
  BY <1>1 DEF JobType
<1>3. more \in Seq(Tickets)
  BY CurrentIs
<1>4. job[s].done \o more = IF settled THEN job[s].done \o <<Current(s)>> ELSE job[s].done
  <2>1. job[s].done \o <<>> = job[s].done
    BY <1>2
  <2> QED
    BY <2>1
<1>5. Tail(job[s].todo) \in Seq(Tickets) /\ job[s].done \o more \in Seq(Tickets)
  BY <1>2, <1>3
<1>6. job' = [job EXCEPT ![s] = new]
  BY DEF Proceed
<1> HIDE DEF more
<1>7. /\ new \in JobType /\ new.stage = "ticket"
      /\ new.todo = Tail(job[s].todo) /\ new.done = job[s].done \o more
  BY <1>1, <1>5 DEF JobType
<1> HIDE DEF new
<1> QED
  BY <1>1, <1>4, <1>6, <1>7, Apart

\* A ticket settled is LOST, or WON whatever it returns.
LEMMA SettledRow ==
  ASSUME NEW row \in TicketType, NEW won \in {"LOST", "WON"}, NEW back \in Nat
  PROVE  [row EXCEPT !.status = won, !.back = back] \in TicketType
  BY DEF TicketType

LEMMA LockTicketKeeps ==
  ASSUME BonusInv, NEW s \in Settlers, LockTicket(s)
  PROVE  BonusInv' /\ Goes(s, Current(s)) /\ Free(s, Current(s))
<1> DEFINE t == Current(s)
           row == View(s, t)
           lost == verdict[t] = "lost"
           back == CASE lost -> 0
                     [] verdict[t] = "won" -> Odds * row.stake
                     [] verdict[t] = "void" -> row.stake
           new == [row EXCEPT !.status = IF lost THEN "LOST" ELSE "WON", !.back = back]
<1>1. /\ job[s].stage = "ticket" /\ job[s].todo # <<>> /\ MayGoOn(s)
      /\ UNCHANGED <<db, log, verdict, crashes>>
      /\ IF row.status = "OPEN"
         THEN Write(s, t, new) /\ Goto(s, IF lost THEN "count" ELSE "pay")
         ELSE Write(s, t, row) /\ Proceed(s, FALSE)
  BY DEF LockTicket
<1>2. BonusTypeOK /\ t \in Tickets
  BY <1>1, CurrentIs DEF BonusInv
<1>3. Free(s, t)
  BY <1>1 DEF MayGoOn, Wants
<1>4. row \in TicketType
  BY <1>2 DEF View, BonusTypeOK, RowsOK
<1>5. back \in Nat
  <2>1. row.stake \in Nat
    BY <1>4 DEF TicketType
  <2>2. Odds * row.stake \in Nat
    BY <2>1, BonusAssumption
  <2> QED
    BY <2>1, <2>2, <1>2, VerdictIs
<1>6. new \in TicketType
  <2> HIDE DEF row, back
  <2> QED
    BY <1>4, <1>5, SettledRow
<1>7. \E x \in TicketType : Write(s, t, x)
  BY <1>1, <1>4, <1>6
<1> HIDE DEF new, back
<1>8. /\ job' \in [Owners -> JobType] /\ \A p \in Owners : p # s => job'[p] = job[p]
      /\ job'[s].done = job[s].done
      /\ \/ job'[s].stage = "ticket"
         \/ job'[s].stage = "count" /\ lost /\ job'[s].todo = job[s].todo
         \/ job'[s].stage = "pay" /\ ~ lost /\ job'[s].todo = job[s].todo
  BY <1>1, <1>2, GotoDoes, ProceedDoes
<1> HIDE DEF row
<1>9. /\ RowsOK(now') /\ (\A q \in Rows : q # t => now'[q] = now[q])
      /\ lock' = [lock EXCEPT ![t] = s]
  <2>1. PICK x \in TicketType : Write(s, t, x)
    BY <1>7
  <2>2. RowsOK(now)
    BY <1>2 DEF BonusTypeOK
  <2> HIDE DEF t
  <2>3. lock' = [lock EXCEPT ![t] = s] /\ now' = [now EXCEPT ![t] = x]
    BY <2>1 DEF Write
  <2>4. t \in Rows /\ t # "wallet" /\ t # "rollover"
    BY <1>2, Apart
  <2>5. RowsOK([now EXCEPT ![t] = x]) /\ \A q \in Rows : q # t => [now EXCEPT ![t] = x][q] = now[q]
    BY <2>2, <2>4, RowSet
  <2> QED
    BY <2>3, <2>5
<1>10. Goes(s, t)
  BY <1>1, <1>8, <1>9 DEF Goes
<1>11. job'[s].stage \in Stages(s) /\ job'[s].stage # "idle"
  BY <1>8, StagesAre
<1>12. /\ BonusTypeOK' /\ JobsOK' /\ Holding'
       /\ \A q \in Settlers : q # s => (AtItsTicket(q) /\ HoldsForDone(q))'
  <2> HIDE DEF t
  <2> QED
    BY <1>2, <1>3, <1>10, <1>11, GoesKeeps, Apart
<1>13. CountFollows' /\ WinningsWithin'
  <2>1. \A q \in Settlers : job'[q].done = job[q].done
    BY <1>8, Apart
  <2> HIDE DEF t
  <2> QED
    BY <2>1, <1>2, <1>9, <1>10, TicketRowIsQuiet, Apart
<1>14. (AtItsTicket(s) /\ HoldsForDone(s))'
  <2>1. lock'["wallet"] = lock["wallet"] /\ lock'["rollover"] = lock["rollover"]
    BY <1>2, <1>9, Apart DEF BonusTypeOK
  <2>2. HoldsForDone(s)'
    BY <2>1, <1>1, <1>8 DEF BonusInv, Underway, HoldsForDone
  <2>3. AtItsTicket(s)'
    BY <1>1, <1>8 DEF AtItsTicket, Current
  <2> QED
    BY <2>2, <2>3
<1> QED
  BY <1>3, <1>10, <1>12, <1>13, <1>14 DEF BonusInv, Underway

LEMMA DoneGrows ==
  ASSUME BonusTypeOK, NEW s \in Settlers, NEW t \in Tickets
  PROVE  /\ <<t>> \in Seq(Tickets \union Bonuses)
         /\ log \o (job[s].done \o <<t>>) = (log \o job[s].done) \o <<t>>
         /\ \A i \in DOMAIN (job[s].done \o <<t>>) :
              \/ i \in DOMAIN job[s].done /\ (job[s].done \o <<t>>)[i] = job[s].done[i]
              \/ (job[s].done \o <<t>>)[i] = t
         /\ job[s].done \o <<t>> # <<>>
<1> DEFINE d == job[s].done
<1>1. d \in Seq(Tickets) /\ d \in Seq(Tickets \union Bonuses) /\ log \in Seq(Tickets \union Bonuses)
  BY DoneIsResults
<1> HIDE DEF d
<1>2. log \o (d \o <<t>>) = (log \o d) \o <<t>>
  BY <1>1
<1>3. \A i \in DOMAIN (d \o <<t>>) : (i \in DOMAIN d /\ (d \o <<t>>)[i] = d[i]) \/ (d \o <<t>>)[i] = t
  BY <1>1
<1>4. d \o <<t>> # <<>>
  BY <1>1
<1>5. <<t>> \in Seq(Tickets \union Bonuses)
  OBVIOUS
<1> QED
  BY <1>2, <1>3, <1>4, <1>5 DEF d

(* What the transaction of s sees of the wallet has what the database has  *)
(* in Winnings, unless it holds the count too.                             *)
LEMMA WalletSeen ==
  ASSUME BonusInv, NEW s \in Settlers, Free(s, "wallet")
  PROVE  /\ View(s, "wallet") \in WalletType
         /\ lock["rollover"] # s => View(s, "wallet").winnings = db["wallet"].winnings
         /\ lock["rollover"] = s => Within(View(s, "wallet"), verdict, log \o job[s].done)
<1>1. db["wallet"] \in WalletType /\ now["wallet"] \in WalletType
  BY DEF BonusInv, BonusTypeOK, RowsOK
<1>2. CASE lock["wallet"] = s
  BY <1>1, <1>2 DEF View, BonusInv, WinningsWithin
<1>3. CASE lock["wallet"] # s
  <2>1. View(s, "wallet") = db["wallet"]
    BY <1>3 DEF View
  <2>2. Within(db["wallet"], verdict, log)
    BY DEF BonusInv, WinningsWithin
  <2>3. Within(db["wallet"], verdict, log \o job[s].done)
    BY <1>1, <2>2, WithinStays, DoneIsResults DEF BonusInv
  <2> QED
    BY <1>1, <2>1, <2>3
<1> QED
  BY <1>2, <1>3

LEMMA PayKeeps ==
  ASSUME BonusInv, NEW s \in Settlers, Pay(s)
  PROVE  BonusInv' /\ Goes(s, "wallet") /\ Free(s, "wallet")
<1> DEFINE t == Current(s)
           returned == IF verdict[t] = "won" THEN Odds * now[t].stake ELSE now[t].stake
           w == Credited(View(s, "wallet"), returned)
<1>1. /\ job[s].stage = "pay" /\ MayGoOn(s) /\ Write(s, "wallet", w)
      /\ IF Counts(t) THEN Goto(s, "count") ELSE Proceed(s, TRUE)
      /\ UNCHANGED <<db, log, verdict, crashes>>
  BY DEF Pay
<1>2. /\ BonusTypeOK /\ job[s].todo # <<>> /\ t \in Tickets /\ verdict[t] # "lost"
      /\ HoldsForDone(s)
  BY <1>1, CurrentIs DEF BonusInv, Underway, AtItsTicket
<1>3. Free(s, "wallet")
  BY <1>1 DEF MayGoOn, Wants
<1>4. returned \in Nat
  <2>1. now[t].stake \in Nat
    BY <1>2 DEF BonusTypeOK, RowsOK, TicketType
  <2>2. Odds * now[t].stake \in Nat
    BY <2>1, BonusAssumption
  <2> QED
    BY <2>1, <2>2
<1>5. w \in WalletType /\ w.winnings = View(s, "wallet").winnings
  <2> HIDE DEF returned
  <2> QED
    BY <1>3, <1>4, WalletSeen, CreditedType
<1>6. lock' = [lock EXCEPT !["wallet"] = s] /\ now' = [now EXCEPT !["wallet"] = w]
  BY <1>1 DEF Write
<1> HIDE DEF w, returned
<1>7. /\ RowsOK(now') /\ now'["wallet"] = w
      /\ \A q \in Rows : q # "wallet" => now'[q] = now[q]
  <2>1. RowsOK(now) /\ "wallet" \in Rows /\ "wallet" # "rollover" /\ "wallet" \notin Tickets
    BY <1>2, Apart DEF BonusTypeOK
  <2> DEFINE n == [now EXCEPT !["wallet"] = w]
  <2>2. RowsOK(n) /\ n["wallet"] = w /\ \A q \in Rows : q # "wallet" => n[q] = now[q]
    BY <2>1, <1>5, RowSet
  <2> QED
    BY <2>2, <1>6
<1>8. /\ job' \in [Owners -> JobType] /\ \A p \in Owners : p # s => job'[p] = job[p]
      /\ \/ /\ job'[s].stage = "count" /\ verdict[t] # "void"
            /\ job'[s].todo = job[s].todo /\ job'[s].done = job[s].done
         \/ /\ job'[s].stage = "ticket" /\ verdict[t] = "void"
            /\ job'[s].done = job[s].done \o <<t>>
  BY <1>1, <1>2, GotoDoes, ProceedDoes DEF Counts
<1>9. Goes(s, "wallet")
  BY <1>1, <1>6, <1>7, <1>8 DEF Goes
<1>10. job'[s].stage \in Stages(s) /\ job'[s].stage # "idle"
  BY <1>8, StagesAre
<1>11. /\ BonusTypeOK' /\ JobsOK' /\ Holding'
       /\ \A q \in Settlers : q # s => (AtItsTicket(q) /\ HoldsForDone(q))'
  BY <1>3, <1>9, <1>10, GoesKeeps, Apart
<1>12. lock'["wallet"] = s /\ lock'["rollover"] = lock["rollover"]
  BY <1>2, <1>6, Apart DEF BonusTypeOK
<1>13. (AtItsTicket(s) /\ HoldsForDone(s))'
  <2>1. AtItsTicket(s)'
    BY <1>1, <1>2, <1>8, <1>12 DEF AtItsTicket, Current
  <2>2. HoldsForDone(s)'
    <3>1. CASE job'[s].done = job[s].done
      BY <3>1, <1>1, <1>2, <1>12 DEF HoldsForDone
    <3>2. CASE verdict[t] = "void" /\ job'[s].done = job[s].done \o <<t>>
      <4>1. ASSUME NEW i \in DOMAIN job'[s].done
            PROVE  verdict[job'[s].done[i]] # "void" => lock'["rollover"] = s
        BY <4>1, <3>2, <1>2, <1>12, DoneGrows DEF HoldsForDone
      <4>2. job'[s].done # <<>>
        BY <3>2, <1>2, DoneGrows
      <4> QED
        BY <4>1, <4>2, <1>1, <1>12 DEF HoldsForDone
    <3> QED
      BY <3>1, <3>2, <1>8
  <2> QED
    BY <2>1, <2>2
<1>14. log \o job[s].done \in Seq(Tickets \union Bonuses)
  BY <1>2, DoneIsResults
<1>15. CountFollows'
  <2>1. ASSUME NEW q \in Settlers, lock'["rollover"] = q
        PROVE  Follows(now'["rollover"], verdict', log' \o job'[q].done)
    <3>1. now'["rollover"] = now["rollover"] /\ Follows(now["rollover"], verdict, log \o job[q].done)
      BY <2>1, <1>7, <1>12, Apart DEF BonusInv, CountFollows
    <3>2. CASE q # s \/ job'[s].done = job[s].done
      BY <3>1, <3>2, <1>1, <1>8, Apart
    <3>3. CASE q = s /\ verdict[t] = "void" /\ job'[s].done = job[s].done \o <<t>>
      <4> DEFINE r == log \o job[s].done
      <4>1. log' \o job'[s].done = r \o <<t>>
        BY <3>3, <1>1, <1>2, DoneGrows
      <4>2. \A i \in DOMAIN <<t>> : ~ WonBy(verdict, <<t>>[i]) /\ ~ ResetBy(verdict, <<t>>[i])
        BY <3>3, <1>2, Apart DEF WonBy, ResetBy
      <4>3. RunLength(verdict, r \o <<t>>, Len(r \o <<t>>)) = RunLength(verdict, r, Len(r))
        <5>1. <<t>> \in Seq(Tickets \union Bonuses) /\ r \in Seq(Tickets \union Bonuses)
          BY <1>2, <1>14, DoneGrows
        <5> HIDE DEF r, t
        <5> QED
          BY <4>2, <5>1, VoidsDoNotCount
      <4> QED
        BY <4>1, <4>3, <3>1, <3>3, <1>1 DEF Follows
    <3> QED
      BY <3>2, <3>3, <1>8
  <2> QED
    BY <2>1, <1>1 DEF BonusInv, CountFollows
<1>16. WinningsWithin'
  <2>1. ASSUME NEW q \in Settlers, lock'["rollover"] = q, lock'["wallet"] = q
        PROVE  Within(now'["wallet"], verdict', log' \o job'[q].done)
    <3>1. q = s /\ lock["rollover"] = s
      BY <2>1, <1>12
    <3>2. Within(w, verdict, log \o job[s].done)
      BY <3>1, <1>3, <1>5, WalletSeen DEF Within
    <3>3. Within(w, verdict, (log \o job[s].done) \o <<t>>)
      BY <3>2, <1>2, <1>5, <1>14, DoneGrows, WithinStays
    <3>4. log' \o job'[s].done \in {log \o job[s].done, (log \o job[s].done) \o <<t>>}
      BY <1>1, <1>2, <1>8, DoneGrows
    <3> QED
      BY <3>1, <3>2, <3>3, <3>4, <1>1, <1>7
  <2>2. lock'["wallet"] # lock'["rollover"] => now'["wallet"].winnings = db'["wallet"].winnings
    BY <1>1, <1>3, <1>5, <1>7, <1>12, WalletSeen
  <2> QED
    BY <2>1, <2>2, <1>1 DEF BonusInv, WinningsWithin
<1> QED
  BY <1>3, <1>9, <1>11, <1>13, <1>15, <1>16 DEF BonusInv, Underway

(* What the transaction of s sees of the count follows the results that    *)
(* are committed and its own.                                              *)
LEMMA CountSeen ==
  ASSUME BonusInv, NEW s \in Settlers
  PROVE  Follows(View(s, "rollover"), verdict, log \o job[s].done)
<1>1. CASE lock["rollover"] = s
  BY <1>1 DEF View, BonusInv, CountFollows
<1>2. CASE lock["rollover"] # s
  <2> DEFINE d == job[s].done
  <2>1. View(s, "rollover") = db["rollover"] /\ Follows(db["rollover"], verdict, log)
    BY <1>2 DEF View, BonusInv, CountFollows
  <2>2. \A i \in DOMAIN d : d[i] \in Tickets /\ verdict[d[i]] = "void"
    <3>1. d \in Seq(Tickets)
      BY DoneIsResults DEF BonusInv
    <3>2. \A i \in DOMAIN d : verdict[d[i]] = "void"
      BY <1>2 DEF BonusInv, Underway, HoldsForDone
    <3> QED
      BY <3>1, <3>2
  <2>3. log \in Seq(Tickets \union Bonuses) /\ d \in Seq(Tickets \union Bonuses)
    BY DoneIsResults DEF BonusInv
  <2>4. \A i \in DOMAIN d : ~ WonBy(verdict, d[i]) /\ ~ ResetBy(verdict, d[i])
    BY <2>2, Apart DEF WonBy, ResetBy
  <2>5. RunLength(verdict, log \o d, Len(log \o d)) = RunLength(verdict, log, Len(log))
    <3> HIDE DEF d
    <3> QED
      BY <2>3, <2>4, VoidsDoNotCount
  <2> QED
    BY <2>1, <2>5 DEF Follows
<1> QED
  BY <1>1, <1>2

LEMMA WalletMoved ==
  ASSUME NEW w \in WalletType, NEW a \in Nat, NEW b \in Nat
  PROVE  /\ [w EXCEPT !.bonus = 0, !.winnings = a, !.forfeited = b] \in WalletType
         /\ [w EXCEPT !.bonus = 0, !.winnings = a, !.forfeited = b].winnings = a
  BY DEF WalletType

LEMMA ConvertedIs ==
  ASSUME NEW w \in WalletType
  PROVE  Converted(w) \in WalletType /\ Converted(w).winnings <= w.winnings + MaxConversion
<1>1. MaxConversion \in Nat
  BY BonusAssumption
<1> DEFINE moved == IF w.bonus < MaxConversion THEN w.bonus ELSE MaxConversion
<1>2. /\ moved \in Nat /\ moved <= MaxConversion /\ moved <= w.bonus /\ w.bonus \in Nat
      /\ w.winnings \in Nat /\ w.forfeited \in Nat
  BY <1>1 DEF WalletType
<1>3. Converted(w) = [w EXCEPT !.bonus = 0, !.winnings = @ + moved, !.forfeited = @ + w.bonus - moved]
  BY DEF Converted
<1> HIDE DEF moved
<1> DEFINE gone == w.forfeited + w.bonus - moved
           paid == w.winnings + moved
<1>4. gone \in Nat /\ paid \in Nat
  BY <1>2
<1>5. Converted(w) = [w EXCEPT !.bonus = 0, !.winnings = paid, !.forfeited = gone]
  BY <1>3
<1> HIDE DEF gone, paid
<1> DEFINE x == [w EXCEPT !.bonus = 0, !.winnings = paid, !.forfeited = gone]
<1>5a. x \in WalletType /\ x.winnings = paid
  BY <1>4, WalletMoved
<1> HIDE DEF x
<1>6. Converted(w) \in WalletType /\ Converted(w).winnings = paid
  BY <1>5, <1>5a DEF x
<1> QED
  BY <1>1, <1>2, <1>6 DEF paid

(* A conversion that is due stays within the limit.                        *)
LEMMA ConversionWithin ==
  ASSUME NEW w \in WalletType, NEW v, NEW S, NEW s \in Seq(S), NEW x \in S, WonBy(v, x),
         RunLength(v, s \o <<x>>, Len(s) + 1) % WinsToConvert = 0, Within(w, v, s)
  PROVE  Within(Converted(w), v, s \o <<x>>)
<1> DEFINE a == Cardinality(Converting(v, s))
           b == Cardinality(Converting(v, s \o <<x>>))
<1>1. s \o <<x>> \in Seq(S)
  OBVIOUS
<1>2. a \in Nat /\ b \in Nat /\ a + 1 <= b
  BY <1>1, ConvertingType, WinConverts
<1>3. MaxConversion \in Nat /\ w.winnings \in Nat /\ Converted(w).winnings \in Nat
  BY ConvertedIs, BonusAssumption DEF WalletType
<1>4. w.winnings <= MaxConversion * a
  BY DEF Within
<1>5. Converted(w).winnings <= w.winnings + MaxConversion
  BY ConvertedIs
<1>6. MaxConversion * a + MaxConversion <= MaxConversion * b
  <2> HIDE DEF a, b
  <2>1. b = a + 1 + (b - a - 1) /\ b - a - 1 \in Nat
    BY <1>2
  <2>2. MaxConversion * b = MaxConversion * a + MaxConversion + MaxConversion * (b - a - 1)
    BY <2>1, <1>2, <1>3
  <2>3. MaxConversion * (b - a - 1) \in Nat /\ MaxConversion * a \in Nat
    BY <2>1, <1>2, <1>3
  <2> QED
    BY <2>2, <2>3, <1>3
<1>7. MaxConversion * a \in Nat /\ MaxConversion * b \in Nat
  BY <1>2, <1>3
<1> HIDE DEF a, b
<1>8. Converted(w).winnings <= MaxConversion * b
  BY <1>3, <1>4, <1>5, <1>6, <1>7
<1> QED
  BY <1>8 DEF b, Within

(* Counting one more result.                                               *)
LEMMA CountedFollows ==
  ASSUME NEW v, NEW S, NEW s \in Seq(S), NEW x \in S, NEW wins, Follows(wins, v, s),
         NEW won \in BOOLEAN, won => WonBy(v, x) /\ ~ ResetBy(v, x), ~ won => ResetBy(v, x)
  PROVE  /\ Follows(Counted(wins, won), v, s \o <<x>>)
         /\ Counted(wins, won) \in 0 .. WinsToConvert - 1
         /\ won /\ wins + 1 >= WinsToConvert =>
              RunLength(v, s \o <<x>>, Len(s) + 1) % WinsToConvert = 0
<1> DEFINE k == RunLength(v, s, Len(s))
           z == s \o <<x>>
<1>1. z \in Seq(S) /\ z # <<>> /\ Len(z) = Len(s) + 1 /\ z[Len(z)] = x /\ Len(s) \in Nat
  OBVIOUS
<1>2. WinsToConvert \in Nat \ {0}
  BY BonusAssumption
<1>3. k \in Nat
  BY <1>1, RunLengthType
<1>4. wins = k % WinsToConvert
  BY DEF Follows
<1>5. CASE won
  <2>1. RunLength(v, z, Len(s) + 1) = k + 1
    BY <1>5, WinExtendsRun
  <2> HIDE DEF k
  <2>2. (k + 1) % WinsToConvert = IF wins + 1 < WinsToConvert THEN wins + 1 ELSE 0
    BY <1>2, <1>3, <1>4, CountWraps
  <2>3. wins \in 0 .. WinsToConvert - 1
    BY <1>2, <1>3, <1>4
  <2>4. Counted(wins, won) = IF wins + 1 < WinsToConvert THEN wins + 1 ELSE 0
    BY <1>5 DEF Counted
  <2>5. wins + 1 >= WinsToConvert => ~ (wins + 1 < WinsToConvert)
    BY <2>3, <1>2
  <2> HIDE DEF z
  <2>6. Follows(Counted(wins, won), v, z)
    BY <1>1, <2>1, <2>2, <2>4 DEF Follows
  <2>7. Counted(wins, won) \in 0 .. WinsToConvert - 1
    BY <2>3, <2>4, <1>2
  <2> QED
    BY <2>1, <2>2, <2>5, <2>6, <2>7 DEF z
<1>6. CASE ~ won
  <2>1. RunLength(v, z, Len(z)) = 0
    BY <1>1, <1>6, ResetEndsRun
  <2>2. 0 % WinsToConvert = 0 /\ Counted(wins, won) = 0 /\ 0 \in 0 .. WinsToConvert - 1
    BY <1>2, <1>6 DEF Counted
  <2> QED
    BY <1>6, <2>1, <2>2 DEF Follows
<1> QED
  BY <1>5, <1>6

LEMMA CountKeeps ==
  ASSUME BonusInv, NEW s \in Settlers, Count(s)
  PROVE  BonusInv' /\ Goes(s, "rollover") /\ Free(s, "rollover")
<1> DEFINE t == Current(s)
           won == verdict[t] # "lost"
           wins == View(s, "rollover")
           converts == won /\ wins + 1 >= WinsToConvert
           counted == Counted(wins, won)
           w == IF converts THEN Converted(now["wallet"]) ELSE now["wallet"]
           r == log \o job[s].done
<1>1. /\ job[s].stage = "count" /\ MayGoOn(s) /\ Proceed(s, TRUE)
      /\ UNCHANGED <<db, log, verdict, crashes>>
  BY DEF Count
<1>2. /\ lock' = [lock EXCEPT !["rollover"] = s]
      /\ now' = [now EXCEPT !["rollover"] = counted,
                            !["wallet"] = IF converts THEN Converted(@) ELSE @]
  BY DEF Count
<1>3. /\ BonusTypeOK /\ job[s].todo # <<>> /\ t \in Tickets /\ verdict[t] # "void"
      /\ won => lock["wallet"] = s
      /\ HoldsForDone(s)
  BY <1>1, CurrentIs DEF BonusInv, Underway, AtItsTicket
<1>4. Free(s, "rollover")
  BY <1>1 DEF MayGoOn, Wants
<1>5. /\ r \in Seq(Tickets \union Bonuses) /\ <<t>> \in Seq(Tickets \union Bonuses)
      /\ log \o (job[s].done \o <<t>>) = r \o <<t>>
  BY <1>3, DoneIsResults, DoneGrows
<1>6. Follows(wins, verdict, r)
  BY <1>4, CountSeen
<1>7. won => WonBy(verdict, t) /\ ~ ResetBy(verdict, t)
  BY <1>3, VerdictIs, Apart DEF WonBy, ResetBy
<1>8. ~ won => ResetBy(verdict, t)
  BY DEF ResetBy
<1>9. now["wallet"] \in WalletType /\ lock \in [Rows -> Owners \union {Nobody}]
  BY <1>3 DEF BonusTypeOK, RowsOK
<1>10. /\ job' \in [Owners -> JobType] /\ \A p \in Owners : p # s => job'[p] = job[p]
       /\ job'[s].stage = "ticket" /\ job'[s].done = job[s].done \o <<t>>
  BY <1>1, <1>3, ProceedDoes
<1>11. /\ Follows(counted, verdict, r \o <<t>>) /\ counted \in 0 .. WinsToConvert - 1
       /\ converts => RunLength(verdict, r \o <<t>>, Len(r) + 1) % WinsToConvert = 0
  <2> HIDE DEF t, r, wins
  <2>1. t \in Tickets \union Bonuses /\ won \in BOOLEAN
    BY <1>3
  <2> HIDE DEF won
  <2> QED
    BY <2>1, <1>5, <1>6, <1>7, <1>8, CountedFollows
<1>12. w \in WalletType
  BY <1>9, ConvertedIs
<1>13. lock["wallet"] = s => Within(w, verdict, r \o <<t>>)
  <2> SUFFICES ASSUME lock["wallet"] = s PROVE Within(w, verdict, r \o <<t>>)
    OBVIOUS
  <2>1. View(s, "wallet") = now["wallet"] /\ Free(s, "wallet")
    BY DEF View, Free
  <2>2. Within(now["wallet"], verdict, r)
    <3>1. CASE lock["rollover"] = s
      BY <2>1, <3>1, WalletSeen
    <3>2. CASE lock["rollover"] # s
      <4>1. now["wallet"].winnings = db["wallet"].winnings
        BY <2>1, <3>2, WalletSeen
      <4>2. Within(now["wallet"], verdict, log)
        BY <4>1 DEF BonusInv, WinningsWithin, Within
      <4> QED
        BY <4>2, <1>3, <1>9, DoneIsResults, WithinStays
    <3> QED
      BY <3>1, <3>2
  <2>3. CASE converts
    <3> HIDE DEF t, r
    <3>1. t \in Tickets \union Bonuses /\ WonBy(verdict, t)
      BY <1>3, <1>7, <2>3
    <3>2. Within(Converted(now["wallet"]), verdict, r \o <<t>>)
      BY <1>5, <1>9, <1>11, <2>2, <2>3, <3>1, ConversionWithin
    <3> QED
      BY <2>3, <3>2
  <2>4. CASE ~ converts
    BY <2>2, <2>4, <1>5, <1>9, WithinStays
  <2> QED
    BY <2>3, <2>4
<1> HIDE DEF counted, r
<1>14. /\ RowsOK(now') /\ now'["rollover"] = counted /\ now'["wallet"] = w
       /\ \A q \in Tickets : now'[q] = now[q]
  <2>1. RowsOK(now)
    BY <1>3 DEF BonusTypeOK
  <2>2. DOMAIN now' = Rows /\ now'["rollover"] = counted /\ now'["wallet"] = w
    BY <1>2, <2>1, Apart DEF RowsOK
  <2>3. \A q \in Tickets : now'[q] = now[q]
    BY <1>2, <2>1, Apart DEF RowsOK
  <2> HIDE DEF w
  <2> QED
    BY <2>1, <2>2, <2>3, <1>11, <1>12 DEF RowsOK
<1>15. lock["wallet"] # s => w = now["wallet"]
  BY <1>3
<1> HIDE DEF w, t
<1>16. Goes(s, "rollover")
  <2>1. \A q \in Rows : q # "rollover" /\ lock[q] # s => now'[q] = now[q]
    BY <1>14, <1>15, Apart
  <2> QED
    BY <2>1, <1>1, <1>2, <1>10, <1>14 DEF Goes
<1>17. /\ BonusTypeOK' /\ JobsOK' /\ Holding'
       /\ \A q \in Settlers : q # s => (AtItsTicket(q) /\ HoldsForDone(q))'
  <2>1. "ticket" \in Stages(s)
    BY StagesAre
  <2> QED
    BY <2>1, <1>4, <1>10, <1>16, GoesKeeps, Apart
<1>18. lock'["rollover"] = s /\ lock'["wallet"] = lock["wallet"]
  BY <1>2, <1>9, Apart
<1>19. (AtItsTicket(s) /\ HoldsForDone(s))'
  <2>1. ASSUME NEW i \in DOMAIN job'[s].done
        PROVE  verdict[job'[s].done[i]] # "lost" => lock'["wallet"] = s
    BY <2>1, <1>3, <1>10, <1>18, DoneGrows DEF HoldsForDone
  <2>2. job'[s].done # <<>>
    BY <1>3, <1>10, DoneGrows
  <2>3. HoldsForDone(s)'
    BY <2>1, <2>2, <1>1, <1>18 DEF HoldsForDone
  <2>4. AtItsTicket(s)'
    BY <1>10 DEF AtItsTicket
  <2> QED
    BY <2>3, <2>4
<1>20. log' \o job'[s].done = r \o <<t>>
  BY <1>1, <1>5, <1>10
<1>21. CountFollows'
  <2>1. \A q \in Settlers : lock'["rollover"] = q => q = s
    BY <1>18
  <2> QED
    BY <2>1, <1>1, <1>11, <1>14, <1>20 DEF BonusInv, CountFollows
<1>22. WinningsWithin'
  <2>1. \A q \in Settlers : lock'["rollover"] = q => q = s
    BY <1>18
  <2>2. Within(db'["wallet"], verdict', log')
    BY <1>1 DEF BonusInv, WinningsWithin
  <2>3. lock'["wallet"] = s => Within(now'["wallet"], verdict', log' \o job'[s].done)
    BY <1>1, <1>13, <1>14, <1>18, <1>20
  <2>4. lock'["wallet"] # lock'["rollover"] => now'["wallet"].winnings = db'["wallet"].winnings
    <3> SUFFICES ASSUME lock["wallet"] # s PROVE now'["wallet"].winnings = db'["wallet"].winnings
      BY <1>18
    <3>1. now["wallet"].winnings = db["wallet"].winnings
      <4>1. CASE lock["wallet"] = Nobody
        BY <4>1, Apart DEF BonusInv, Holding
      <4>2. CASE lock["wallet"] # Nobody
        BY <4>2, <1>4 DEF Free, BonusInv, WinningsWithin
      <4> QED
        BY <4>1, <4>2
    <3> QED
      BY <3>1, <1>1, <1>14, <1>15
  <2> QED
    BY <2>1, <2>2, <2>3, <2>4 DEF WinningsWithin
<1> QED
  BY <1>4, <1>16, <1>17, <1>19, <1>21, <1>22 DEF BonusInv, Underway

(* A settlement that holds neither row is done with nothing; one that      *)
(* holds the count alone is done with lost tickets, and with one at least. *)
LEMMA DoneByLocks ==
  ASSUME BonusInv, NEW s \in Settlers
  PROVE  /\ lock["wallet"] # s /\ lock["rollover"] # s => job[s].done = <<>>
         /\ lock["wallet"] # s /\ lock["rollover"] = s =>
              RunLength(verdict, log \o job[s].done, Len(log \o job[s].done)) = 0
         /\ lock["rollover"] # s => \A i \in DOMAIN job[s].done : verdict[job[s].done[i]] = "void"
<1> DEFINE d == job[s].done
<1>1. HoldsForDone(s) /\ d \in Seq(Tickets \union Bonuses) /\ log \in Seq(Tickets \union Bonuses)
  BY DoneIsResults DEF BonusInv, Underway
<1>2. lock["rollover"] # s => \A i \in DOMAIN d : verdict[d[i]] = "void"
  BY <1>1 DEF HoldsForDone
<1>3. lock["wallet"] # s => \A i \in DOMAIN d : verdict[d[i]] = "lost"
  BY <1>1 DEF HoldsForDone
<1>4. lock["rollover"] = s => d # <<>>
  BY <1>1 DEF HoldsForDone
<1> HIDE DEF d
<1>5. ASSUME lock["wallet"] # s, lock["rollover"] # s
      PROVE  d = <<>>
  <2>1. DOMAIN d = {}
    BY <1>2, <1>3, <1>5
  <2> QED
    BY <2>1, <1>1
<1>6. ASSUME lock["wallet"] # s, lock["rollover"] = s
      PROVE  RunLength(verdict, log \o d, Len(log \o d)) = 0
  <2>1. d # <<>> /\ Len(d) \in DOMAIN d /\ verdict[d[Len(d)]] = "lost"
    BY <1>1, <1>3, <1>4, <1>6
  <2>2. log \o d \in Seq(Tickets \union Bonuses) /\ log \o d # <<>> /\ (log \o d)[Len(log \o d)] = d[Len(d)]
    BY <1>1, <2>1
  <2> QED
    BY <2>1, <2>2, ResetEndsRun DEF ResetBy
<1> QED
  BY <1>2, <1>5, <1>6 DEF d

\* What it sees of Winnings is within the limit of what it is about to commit.
LEMMA WalletSeenWithin ==
  ASSUME BonusInv, NEW s \in Settlers
  PROVE  Within(View(s, "wallet"), verdict, log \o job[s].done)
<1>1. /\ db["wallet"] \in WalletType /\ now["wallet"] \in WalletType
      /\ log \in Seq(Tickets \union Bonuses) /\ job[s].done \in Seq(Tickets \union Bonuses)
  BY DoneIsResults DEF BonusInv, BonusTypeOK, RowsOK
<1>2. CASE lock["wallet"] = s /\ lock["rollover"] = s
  BY <1>2, WalletSeen DEF Free
<1>3. CASE ~ (lock["wallet"] = s /\ lock["rollover"] = s)
  <2>1. View(s, "wallet").winnings = db["wallet"].winnings /\ View(s, "wallet") \in WalletType
    <3>1. CASE lock["wallet"] = s
      BY <1>3, <3>1, WalletSeen DEF Free
    <3>2. CASE lock["wallet"] # s
      BY <1>1, <3>2 DEF View
    <3> QED
      BY <3>1, <3>2
  <2>2. Within(View(s, "wallet"), verdict, log)
    BY <2>1 DEF BonusInv, WinningsWithin, Within
  <2> QED
    BY <1>1, <2>1, <2>2, WithinStays
<1> QED
  BY <1>2, <1>3

LEMMA FinishKeeps ==
  ASSUME BonusInv, NEW s \in Settlers, Finish(s)
  PROVE  BonusInv' /\ Ends(s)
<1> DEFINE d == job[s].done
<1>1. /\ RowsOK(db) /\ RowsOK(now) /\ lock \in [Rows -> Owners \union {Nobody}]
      /\ d \in Seq(Tickets \union Bonuses) /\ log \in Seq(Tickets \union Bonuses)
      /\ log \o d \in Seq(Tickets \union Bonuses)
  BY DoneIsResults DEF BonusInv, BonusTypeOK
<1>2. /\ db' = [r \in Rows |-> IF lock[r] = s THEN now[r] ELSE db[r]] /\ now' = now
      /\ lock' = [r \in Rows |-> IF lock[r] = s THEN Nobody ELSE lock[r]]
      /\ job' = [job EXCEPT ![s] = Idle] /\ log' = log \o d /\ UNCHANGED <<verdict, crashes>>
  BY DEF Finish, Commit
<1> HIDE DEF d
<1>3. RowsOK(db') /\ \A r \in Rows : db'[r] = View(s, r)
  BY <1>1, <1>2, Apart DEF RowsOK, View
<1>4. Ends(s)
  <2>1. \A r \in Rows : lock'[r] = Nobody => now'[r] = db'[r]
    BY <1>2 DEF BonusInv, Holding
  <2> QED
    BY <2>1, <1>1, <1>2, <1>3 DEF Ends, BonusInv, BonusTypeOK
<1>5. /\ BonusTypeOK' /\ JobsOK' /\ Holding' /\ Underway'
      /\ \A q \in Settlers :
           /\ q # s => job'[q] = job[q] /\ \A r \in Rows : lock'[r] = q <=> lock[r] = q
           /\ q = s => \A r \in Rows : lock'[r] # q
  BY <1>4, EndKeeps, Apart
<1>6. CountFollows'
  <2>1. Follows(db'["rollover"], verdict', log')
    BY <1>2, <1>3, CountSeen, Apart DEF d
  <2>2. ASSUME NEW q \in Settlers, lock'["rollover"] = q
        PROVE  Follows(now'["rollover"], verdict', log' \o job'[q].done)
    <3>1. q # s /\ lock["rollover"] = q /\ job'[q].done = job[q].done
      BY <1>5, <2>2, Apart
    <3>2. Follows(now["rollover"], verdict, log \o job[q].done)
      BY <3>1 DEF BonusInv, CountFollows
    <3>3. CASE d = <<>>
      <4>1. log' = log
        BY <1>1, <1>2, <3>3
      <4> QED
        BY <4>1, <3>1, <3>2, <1>2
    <3>4. CASE d # <<>>
      <4>1. lock["wallet"] = s
        BY <3>1, <3>4, DoneByLocks DEF d
      <4>2. RunLength(verdict, log \o job[q].done, Len(log \o job[q].done)) = 0
        BY <3>1, <4>1, DoneByLocks
      <4>3. RunLength(verdict, log' \o job[q].done, Len(log' \o job[q].done)) = 0
        <5> DEFINE e == job[q].done
        <5>1. HoldsForDone(q) /\ e \in Seq(Tickets \union Bonuses)
          BY DoneIsResults DEF BonusInv, Underway
        <5>2. e # <<>> /\ \A i \in DOMAIN e : verdict[e[i]] = "lost"
          BY <5>1, <3>1, <4>1 DEF HoldsForDone
        <5>3. log' \in Seq(Tickets \union Bonuses)
          BY <1>1, <1>2
        <5> HIDE DEF e
        <5>4. Len(e) \in DOMAIN e /\ verdict[e[Len(e)]] = "lost"
          BY <5>1, <5>2
        <5>5. /\ log' \o e \in Seq(Tickets \union Bonuses) /\ log' \o e # <<>>
              /\ (log' \o e)[Len(log' \o e)] = e[Len(e)]
          BY <5>1, <5>2, <5>3
        <5>6. RunLength(verdict, log' \o e, Len(log' \o e)) = 0
          BY <5>4, <5>5, ResetEndsRun DEF ResetBy
        <5> QED
          BY <5>6 DEF e
      <4> QED
        BY <3>1, <3>2, <4>2, <4>3, <1>2 DEF Follows
    <3> QED
      BY <3>3, <3>4
  <2> QED
    BY <2>1, <2>2 DEF CountFollows
<1>7. WinningsWithin'
  <2>1. Within(db'["wallet"], verdict', log')
    BY <1>2, <1>3, WalletSeenWithin, Apart DEF d
  <2>2. ASSUME NEW q \in Settlers, lock'["rollover"] = q, lock'["wallet"] = q
        PROVE  Within(now'["wallet"], verdict', log' \o job'[q].done)
    <3>1. q # s /\ lock["rollover"] = q /\ lock["wallet"] = q /\ job'[q].done = job[q].done
      BY <1>5, <2>2, Apart
    <3>2. d = <<>>
      BY <3>1, DoneByLocks DEF d
    <3>3. log' = log
      BY <1>1, <1>2, <3>2
    <3> QED
      BY <3>1, <3>3, <1>2 DEF BonusInv, WinningsWithin
  <2>3. ASSUME lock'["wallet"] # lock'["rollover"]
        PROVE  now'["wallet"].winnings = db'["wallet"].winnings
    <3>1. CASE lock["wallet"] = s
      BY <3>1, <1>2, Apart
    <3>2. CASE lock["wallet"] # s
      <4>1. lock["wallet"] # lock["rollover"]
        BY <3>2, <2>3, <1>2, Apart
      <4> QED
        BY <3>2, <4>1, <1>2, Apart DEF BonusInv, WinningsWithin
    <3> QED
      BY <3>1, <3>2
  <2> QED
    BY <2>1, <2>2, <2>3 DEF WinningsWithin
<1> QED
  BY <1>4, <1>5, <1>6, <1>7 DEF BonusInv

-----------------------------------------------------------------------------
(* The invariant holds.                                                    *)

LEMMA BonusNextKeeps == BonusInv /\ [BonusNext]_bonusVars => BonusInv'
<1> SUFFICES ASSUME BonusInv, [BonusNext]_bonusVars PROVE BonusInv'
  OBVIOUS
<1>1. ASSUME NEW t \in Tickets, Check(t) \/ Stake(t) \/ ConfirmLive(t) \/ Refund(t)
      PROVE  BonusInv'
  BY <1>1, CheckKeeps, StakeKeeps, ConfirmLiveKeeps, RefundKeeps
<1>2. ASSUME NEW b \in Bonuses, Credit(b) \/ Reset(b)
      PROVE  BonusInv'
  BY <1>2, CreditKeeps, ResetKeeps
<1>3. ASSUME NEW s \in Settlers, Begin(s) \/ LockTicket(s) \/ Pay(s) \/ Count(s) \/ Finish(s)
      PROVE  BonusInv'
  BY <1>3, BeginKeeps, LockTicketKeeps, PayKeeps, CountKeeps, FinishKeeps
<1>4. ASSUME NEW o \in Owners, DeadlockAbort(o) \/ Crash(o)
      PROVE  BonusInv'
  <2>1. Rollback(o) /\ crashes' \in 0 .. MaxCrashes
    BY <1>4, BonusAssumption DEF DeadlockAbort, Crash, BonusInv, BonusTypeOK
  <2> QED
    BY <2>1, RollbackKeeps
<1>5. ASSUME UNCHANGED bonusVars
      PROVE  BonusInv'
  BY <1>5 DEF bonusVars, BonusInv, BonusTypeOK, RowsOK, JobsOK, Holding, Underway, AtItsTicket,
              HoldsForDone, Current, CountFollows, WinningsWithin
<1>6. CASE Done
  BY <1>5, <1>6 DEF Done
<1> QED
  BY <1>1, <1>2, <1>3, <1>4, <1>5, <1>6 DEF BonusNext

(* The inductive invariant of the Bonus wallet, for any tickets, bonuses,  *)
(* amounts, verdicts, odds, limits, settlements and crashes.               *)
THEOREM BonusInvariance == BonusSpec => []BonusInv
<1>1. BonusInit => BonusInv
  BY BonusInitHolds
<1>2. BonusInv /\ [BonusNext]_bonusVars => BonusInv'
  BY BonusNextKeeps
<1> QED
  BY <1>1, <1>2, PTL DEF BonusSpec

(* However placing, crediting and settling interleave, and whichever of    *)
(* them are rolled back, the count is the number of tickets won in a row   *)
(* since the last conversion, lost ticket or new bonus, and Winnings       *)
(* received at most the limit per conversion (ticket_settled, reset,       *)
(* _convert).                                                              *)
THEOREM CountFollowsResults == BonusSpec => []RolloverFollowsResults
<1>1. BonusInv => RolloverFollowsResults
  <2> SUFFICES ASSUME BonusInv PROVE RolloverFollowsResults
    OBVIOUS
  <2>1. InARow(log, Len(log)) = RunLength(verdict, log, Len(log))
    BY DEF InARow, RunLength, Run, Won, WonBy, Resets, ResetBy
  <2>2. Conversions(log) = Cardinality(Converting(verdict, log))
    BY DEF Conversions, Converting, InARow, RunLength, Run, Won, WonBy, Resets, ResetBy
  <2> QED
    BY <2>1, <2>2 DEF BonusInv, CountFollows, Follows, WinningsWithin, Within, RolloverFollowsResults
<1> QED
  BY <1>1, BonusInvariance, PTL

-----------------------------------------------------------------------------
(* The money in the Bonus wallet.                                          *)

(* What came into the Bonus wallet and left it, but for the bonuses, is    *)
(* what its tickets returned less what they staked.                        *)
Worth(w)    == w.bonus + w.winnings + w.forfeited - SumFunctionOnSet(BonusAmount, w.credited)
Nets(v)     == [t \in Tickets |-> v[t].back - v[t].stake]
NetSum(v)   == SumFunctionOnSet(Nets(v), Tickets)
AddsUp(v, owed) == Worth(v["wallet"]) + owed = NetSum(v)

(* The rows as the transaction of o sees them, and what it has written     *)
(* into a ticket's row and not yet into the wallet.                        *)
Sees(d, n, l, o) == [r \in Rows |-> IF l[r] = o THEN n[r] ELSE d[r]]
Seen(o) == Sees(db, now, lock, o)
Owes(o) ==
  CASE job[o].stage = "refund" -> now[o].stake
    [] job[o].stage = "pay"    -> now[Current(o)].back
    [] OTHER -> 0

SeenAddsUp == \A o \in Owners : AddsUp(Seen(o), Owes(o))

(* A ticket returns nothing before it is settled, and has no stake before  *)
(* it is placed; one that is not placed yet is nobody's; and what is to be *)
(* paid for a ticket is what its row, which the settlement holds, says.    *)
TicketFits(x) ==
  /\ x.status = "none" => x.stake = 0
  /\ x.status \in {"none", "ACCEPTING", "OPEN"} => x.back = 0
Returns(v, x) == IF v = "won" THEN Odds * x.stake ELSE x.stake

NotPlacedIsFree(t) ==
  db[t].status = "none" =>
    /\ lock[t] = Nobody
    /\ \A s \in Settlers : \A i \in DOMAIN job[s].todo : job[s].todo[i] # t
PaysWhatItWrote(s) ==
  job[s].stage = "pay" =>
    /\ lock[Current(s)] = s
    /\ now[Current(s)].back = Returns(verdict[Current(s)], now[Current(s)])

Placement ==
  /\ \A t \in Tickets :
       /\ TicketFits(db[t]) /\ TicketFits(now[t])
       /\ now[t].status = "none" => db[t].status = "none"
       /\ NotPlacedIsFree(t)
       /\ job[t].stage = "stake" => db[t].status = "none"
  /\ \A s \in Settlers : PaysWhatItWrote(s)

MoneyInv == BonusInv /\ Placement /\ SeenAddsUp /\ AddsUp(db, 0)

(* The money in a wallet and in tickets is a number.                       *)
LEMMA WorthType ==
  ASSUME NEW w \in WalletType
  PROVE  Worth(w) \in Int /\ IsFiniteSet(w.credited)
         /\ \A b \in Bonuses : BonusAmount[b] \in Int
<1>1. w.credited \subseteq Bonuses /\ w.bonus \in Nat /\ w.winnings \in Nat /\ w.forfeited \in Nat
  BY DEF WalletType
<1>2. IsFiniteSet(w.credited)
  BY <1>1, BonusAssumption, FS_Subset
<1>3. \A b \in Bonuses : BonusAmount[b] \in Int
  BY BonusAssumption
<1>4. SumFunctionOnSet(BonusAmount, w.credited) \in Int
  BY <1>1, <1>2, <1>3, SumFacts
<1> QED
  BY <1>1, <1>2, <1>3, <1>4 DEF Worth

LEMMA NetsType ==
  ASSUME NEW v, RowsOK(v)
  PROVE  /\ \A t \in Tickets : Nets(v)[t] = v[t].back - v[t].stake /\ Nets(v)[t] \in Int
         /\ NetSum(v) \in Int /\ v["wallet"] \in WalletType
<1>1. \A t \in Tickets : v[t].back \in Nat /\ v[t].stake \in Nat
  BY DEF RowsOK, TicketType
<1>2. \A t \in Tickets : Nets(v)[t] = v[t].back - v[t].stake /\ Nets(v)[t] \in Int
  BY <1>1 DEF Nets
<1>3. NetSum(v) \in Int
  BY <1>2, BonusAssumption, SumFacts DEF NetSum
<1> QED
  BY <1>2, <1>3 DEF RowsOK

(* What a transaction sees are rows again.                                 *)
LEMMA SeenRows ==
  ASSUME NEW d, NEW n, RowsOK(d), RowsOK(n), NEW l, NEW o
  PROVE  /\ RowsOK(Sees(d, n, l, o))
         /\ \A r \in Rows : Sees(d, n, l, o)[r] = IF l[r] = o THEN n[r] ELSE d[r]
<1> DEFINE v == Sees(d, n, l, o)
<1>1. DOMAIN v = Rows /\ \A r \in Rows : v[r] = IF l[r] = o THEN n[r] ELSE d[r]
  BY DEF Sees
<1> HIDE DEF v
<1>2. RowsOK(v)
  BY <1>1, Apart DEF RowsOK
<1> QED
  BY <1>1, <1>2 DEF v

(* Rows that have the same money in them add up the same.                  *)
LEMMA SameMoney ==
  ASSUME NEW u, NEW v, RowsOK(u), RowsOK(v), NEW owed,
         \A t \in Tickets : v[t].back - v[t].stake = u[t].back - u[t].stake,
         Worth(v["wallet"]) = Worth(u["wallet"]), AddsUp(u, owed)
  PROVE  AddsUp(v, owed)
<1>1. \A t \in Tickets : Nets(u)[t] \in Int /\ Nets(u)[t] = Nets(v)[t]
  BY NetsType
<1>2. NetSum(u) = NetSum(v)
  BY <1>1, BonusAssumption, SumCongruence DEF NetSum
<1> QED
  BY <1>2 DEF AddsUp

(* One ticket's row gets what changes its money by so much.                *)
LEMMA OneTicketMoves ==
  ASSUME NEW u, NEW v, RowsOK(u), RowsOK(v), NEW t \in Tickets,
         \A q \in Tickets : q # t => v[q] = u[q]
  PROVE  NetSum(v) = NetSum(u) + ((v[t].back - v[t].stake) - (u[t].back - u[t].stake))
<1>1. \A x \in Tickets : Nets(u)[x] \in Int /\ Nets(v)[x] \in Int
  BY NetsType
<1>2. \A x \in Tickets \ {t} : Nets(u)[x] = Nets(v)[x]
  BY NetsType
<1>3. NetSum(v) = NetSum(u) + (Nets(v)[t] - Nets(u)[t])
  <2> DEFINE f == Nets(u)
             g == Nets(v)
  <2>1. /\ IsFiniteSet(Tickets)
        /\ \A x \in Tickets : f[x] \in Int /\ g[x] \in Int
        /\ \A x \in Tickets \ {t} : f[x] = g[x]
    BY <1>1, <1>2, BonusAssumption
  <2> HIDE DEF f, g
  <2>2. SumFunctionOnSet(g, Tickets) = SumFunctionOnSet(f, Tickets) + (g[t] - f[t])
    BY <2>1, SumChange
  <2> QED
    BY <2>2 DEF f, g, NetSum
<1>4. Nets(v)[t] = v[t].back - v[t].stake /\ Nets(u)[t] = u[t].back - u[t].stake
  BY NetsType
<1> QED
  BY <1>3, <1>4

(* When one transaction publishes its rows, those another has seen and     *)
(* written still add up: they have no row in common.                       *)
LEMMA SeenStillAddsUp ==
  ASSUME NEW was, NEW u, NEW v, NEW w, RowsOK(was), RowsOK(u), RowsOK(v), RowsOK(w),
         NEW owed \in Int,
         \A r \in Rows : (u[r] = was[r] /\ w[r] = v[r]) \/ (v[r] = was[r] /\ w[r] = u[r]),
         AddsUp(was, 0), AddsUp(u, owed), AddsUp(v, 0)
  PROVE  AddsUp(w, owed)
<1>1. /\ Worth(was["wallet"]) \in Int /\ Worth(u["wallet"]) \in Int /\ Worth(v["wallet"]) \in Int
      /\ NetSum(was) \in Int /\ NetSum(u) \in Int /\ NetSum(v) \in Int
  BY NetsType, WorthType
<1>2. Worth(w["wallet"]) = Worth(u["wallet"]) + Worth(v["wallet"]) - Worth(was["wallet"])
  BY <1>1, Apart
<1>3. \A t \in Tickets :
        /\ Nets(u)[t] \in Int /\ Nets(v)[t] \in Int /\ Nets(was)[t] \in Int
        /\ Nets(w)[t] = Nets(u)[t] + Nets(v)[t] - Nets(was)[t]
  <2> SUFFICES ASSUME NEW t \in Tickets
               PROVE  /\ Nets(u)[t] \in Int /\ Nets(v)[t] \in Int /\ Nets(was)[t] \in Int
                      /\ Nets(w)[t] = Nets(u)[t] + Nets(v)[t] - Nets(was)[t]
    OBVIOUS
  <2>1. /\ Nets(u)[t] \in Int /\ Nets(v)[t] \in Int /\ Nets(was)[t] \in Int
        /\ Nets(u)[t] = u[t].back - u[t].stake /\ Nets(v)[t] = v[t].back - v[t].stake
        /\ Nets(was)[t] = was[t].back - was[t].stake /\ Nets(w)[t] = w[t].back - w[t].stake
    BY NetsType
  <2>2. (u[t] = was[t] /\ w[t] = v[t]) \/ (v[t] = was[t] /\ w[t] = u[t])
    BY Apart
  <2>3. \/ Nets(u)[t] = Nets(was)[t] /\ Nets(w)[t] = Nets(v)[t]
        \/ Nets(v)[t] = Nets(was)[t] /\ Nets(w)[t] = Nets(u)[t]
    BY <2>1, <2>2
  <2> QED
    BY <2>1, <2>3
<1>4. NetSum(w) = NetSum(u) + NetSum(v) - NetSum(was)
  BY <1>3, BonusAssumption, SumCombines DEF NetSum
<1> QED
  BY <1>1, <1>2, <1>4 DEF AddsUp

(* A transaction owes a number.                                            *)
LEMMA OwesType ==
  ASSUME BonusInv, NEW o \in Owners
  PROVE  Owes(o) \in Int
<1>1. \A t \in Tickets : now[t].stake \in Nat /\ now[t].back \in Nat
  BY DEF BonusInv, BonusTypeOK, RowsOK, TicketType
<1>2. CASE job[o].stage = "refund"
  <2>1. o \in Tickets
    BY <1>2, StagesAre, Apart DEF BonusInv, JobsOK
  <2> QED
    BY <1>1, <1>2, <2>1 DEF Owes
<1>3. CASE job[o].stage = "pay"
  <2>1. o \in Settlers
    BY <1>3, StagesAre, Apart DEF BonusInv, JobsOK
  <2>2. Current(o) \in Tickets
    BY <1>3, <2>1, CurrentIs DEF BonusInv, Underway, AtItsTicket
  <2> QED
    BY <1>1, <1>3, <2>2 DEF Owes
<1>4. CASE job[o].stage \notin {"refund", "pay"}
  BY <1>4 DEF Owes
<1> QED
  BY <1>2, <1>3, <1>4

(* What a transaction owes stays, as long as its job and its rows do.      *)
LEMMA OwesStays ==
  ASSUME MoneyInv, NEW o \in Owners, job'[o] = job[o],
         \A t \in Tickets : lock[t] = o => now'[t] = now[t]
  PROVE  Owes(o)' = Owes(o)
<1>1. CASE job[o].stage = "refund"
  <2>1. o \in Tickets
    BY <1>1, StagesAre, Apart DEF MoneyInv, BonusInv, JobsOK
  <2>2. lock[o] = o
    BY <1>1, <2>1 DEF MoneyInv, BonusInv, Holding
  <2> QED
    BY <1>1, <2>1, <2>2 DEF Owes
<1>2. CASE job[o].stage = "pay"
  <2>1. o \in Settlers
    BY <1>2, StagesAre, Apart DEF MoneyInv, BonusInv, JobsOK
  <2>2. Current(o) \in Tickets
    BY <1>2, <2>1, CurrentIs DEF MoneyInv, BonusInv, Underway, AtItsTicket
  <2>3. lock[Current(o)] = o
    BY <1>2, <2>1 DEF MoneyInv, Placement, PaysWhatItWrote
  <2>4. Current(o)' = Current(o) /\ now'[Current(o)] = now[Current(o)]
    BY <2>2, <2>3 DEF Current
  <2> QED
    BY <1>2, <2>4 DEF Owes
<1>3. CASE job[o].stage \notin {"refund", "pay"}
  BY <1>3 DEF Owes
<1> QED
  BY <1>1, <1>2, <1>3

(* The same of what it pays.                                               *)
LEMMA PaysStays ==
  ASSUME MoneyInv, NEW s \in Settlers, job'[s] = job[s], verdict' = verdict,
         \A t \in Tickets : lock[t] = s => now'[t] = now[t] /\ lock'[t] = s
  PROVE  PaysWhatItWrote(s)'
<1> SUFFICES ASSUME job[s].stage = "pay"
             PROVE  /\ lock'[Current(s)'] = s
                    /\ now'[Current(s)'].back = Returns(verdict'[Current(s)'], now'[Current(s)'])
  BY DEF PaysWhatItWrote
<1>1. Current(s) \in Tickets
  BY CurrentIs DEF MoneyInv, BonusInv, Underway, AtItsTicket
<1>2. /\ lock[Current(s)] = s
      /\ now[Current(s)].back = Returns(verdict[Current(s)], now[Current(s)])
  BY DEF MoneyInv, Placement, PaysWhatItWrote
<1>3. Current(s)' = Current(s)
  BY DEF Current
<1> QED
  BY <1>1, <1>2, <1>3

(* A transaction that ends publishes rows that add up, and leaves the rows *)
(* of the others alone.                                                    *)
LEMMA EndMoney ==
  ASSUME MoneyInv, BonusInv', NEW o \in Owners, Ends(o), AddsUp(db', 0),
         \A r \in Rows : lock[r] \notin {o, Nobody} => db'[r] = db[r] /\ now'[r] = now[r],
         \A t \in Tickets :
           /\ TicketFits(db'[t])
           /\ db[t].status # "none" => db'[t].status # "none"
           /\ t # o /\ db[t].status = "none" => db'[t].status = "none"
  PROVE  MoneyInv'
<1>1. /\ RowsOK(db) /\ RowsOK(now) /\ RowsOK(db') /\ RowsOK(now')
      /\ job \in [Owners -> JobType] /\ lock \in [Rows -> Owners \union {Nobody}]
  BY DEF MoneyInv, BonusInv, BonusTypeOK, Ends
<1>2. /\ job'[o] = Idle /\ \A p \in Owners : p # o => job'[p] = job[p]
      /\ \A r \in Rows : lock'[r] = IF lock[r] = o THEN Nobody ELSE lock[r]
      /\ \A r \in Rows : lock'[r] = Nobody => now'[r] = db'[r]
      /\ verdict' = verdict
  BY <1>1 DEF Ends
<1>3. Idle.stage = "idle" /\ Idle.todo = <<>>
  BY DEF Idle
<1>4. \A r \in Rows : lock[r] \in {o, Nobody} => now'[r] = db'[r]
  BY <1>2
<1>5. ASSUME NEW p \in Owners
      PROVE  AddsUp(Seen(p)', Owes(p)')
  <2>1. /\ RowsOK(Seen(p)) /\ RowsOK(Seen(p)')
        /\ \A r \in Rows : Seen(p)[r] = IF lock[r] = p THEN now[r] ELSE db[r]
        /\ \A r \in Rows : Seen(p)'[r] = IF lock'[r] = p THEN now'[r] ELSE db'[r]
    BY <1>1, SeenRows DEF Seen
  <2>2. CASE p = o
    <3>1. Owes(p)' = 0
      BY <1>2, <1>3, <2>2 DEF Owes
    <3>2. \A r \in Rows : Seen(p)'[r] = db'[r]
      BY <1>2, <2>1, <2>2, Apart
    <3>3. AddsUp(Seen(p)', 0)
      BY <1>1, <2>1, <3>2, SameMoney, Apart
    <3> QED
      BY <3>1, <3>3
  <2>3. CASE p # o
    <3>1. Owes(p)' = Owes(p)
      <4>1. \A t \in Tickets : lock[t] = p => now'[t] = now[t]
        BY <2>3, Apart
      <4> QED
        BY <1>2, <2>3, <4>1, OwesStays
    <3>2. Owes(p) \in Int /\ AddsUp(Seen(p), Owes(p)) /\ AddsUp(db, 0)
      BY OwesType DEF MoneyInv, SeenAddsUp
    <3>3. \A r \in Rows : \/ Seen(p)[r] = db[r] /\ Seen(p)'[r] = db'[r]
                          \/ db'[r] = db[r] /\ Seen(p)'[r] = Seen(p)[r]
      <4> SUFFICES ASSUME NEW r \in Rows
                   PROVE  \/ Seen(p)[r] = db[r] /\ Seen(p)'[r] = db'[r]
                          \/ db'[r] = db[r] /\ Seen(p)'[r] = Seen(p)[r]
        OBVIOUS
      <4>1. CASE lock[r] = p
        <5>1. lock'[r] = p /\ db'[r] = db[r] /\ now'[r] = now[r]
          BY <1>2, <2>3, <4>1, Apart
        <5> QED
          BY <2>1, <4>1, <5>1
      <4>2. CASE lock[r] # p
        <5>1. lock'[r] # p
          BY <1>2, <4>2, Apart
        <5> QED
          BY <2>1, <4>2, <5>1
      <4> QED
        BY <4>1, <4>2
    <3>4. AddsUp(Seen(p)', Owes(p))
      <4> HIDE DEF Seen
      <4> QED
        BY <1>1, <2>1, <3>2, <3>3, SeenStillAddsUp
    <3> QED
      BY <3>1, <3>4
  <2> QED
    BY <2>2, <2>3
<1>6. SeenAddsUp'
  BY <1>5 DEF SeenAddsUp
<1>7. ASSUME NEW t \in Tickets
      PROVE  /\ TicketFits(db'[t]) /\ TicketFits(now'[t])
             /\ now'[t].status = "none" => db'[t].status = "none"
             /\ NotPlacedIsFree(t)'
             /\ job'[t].stage = "stake" => db'[t].status = "none"
  <2>1. /\ TicketFits(now[t]) /\ (now[t].status = "none" => db[t].status = "none")
        /\ NotPlacedIsFree(t) /\ (job[t].stage = "stake" => db[t].status = "none")
    BY DEF MoneyInv, Placement
  <2>2. TicketFits(now'[t]) /\ (now'[t].status = "none" => db'[t].status = "none")
    <3>1. CASE lock[t] \in {o, Nobody}
      BY <1>4, <3>1, Apart
    <3>2. CASE lock[t] \notin {o, Nobody}
      BY <2>1, <3>2, Apart
    <3> QED
      BY <3>1, <3>2
  <2>3. NotPlacedIsFree(t)'
    <3> SUFFICES ASSUME db'[t].status = "none"
                 PROVE  /\ lock'[t] = Nobody
                        /\ \A s \in Settlers : \A i \in DOMAIN job'[s].todo : job'[s].todo[i] # t
      BY DEF NotPlacedIsFree
    <3>1. db[t].status = "none"
      OBVIOUS
    <3>2. lock[t] = Nobody /\ \A s \in Settlers : \A i \in DOMAIN job[s].todo : job[s].todo[i] # t
      BY <2>1, <3>1 DEF NotPlacedIsFree
    <3>3. ASSUME NEW s \in Settlers, NEW i \in DOMAIN job'[s].todo
          PROVE  job'[s].todo[i] # t
      BY <1>2, <1>3, <3>2, <3>3, Apart
    <3> QED
      BY <1>2, <3>2, <3>3, Apart
  <2>4. job'[t].stage = "stake" => db'[t].status = "none"
    BY <1>2, <1>3, <2>1, Apart
  <2> QED
    BY <2>2, <2>3, <2>4
<1>8. ASSUME NEW s \in Settlers
      PROVE  PaysWhatItWrote(s)'
  <2>1. CASE s = o
    BY <1>2, <1>3, <2>1 DEF PaysWhatItWrote
  <2>2. CASE s # o
    <3>1. \A t \in Tickets : lock[t] = s => now'[t] = now[t] /\ lock'[t] = s
      BY <1>2, <2>2, Apart
    <3> QED
      BY <1>2, <2>2, <3>1, PaysStays, Apart
  <2> QED
    BY <2>1, <2>2
<1>9. Placement'
  BY <1>7, <1>8 DEF Placement
<1> QED
  BY <1>6, <1>9 DEF MoneyInv

(* A transaction that goes on only has to see to its own rows.             *)
LEMMA GoMoney ==
  ASSUME MoneyInv, BonusInv', NEW o \in Owners, NEW r \in Rows, Goes(o, r), Free(o, r),
         \A t \in Tickets : t # r => now'[t] = now[t],
         r \in Tickets =>
           TicketFits(now'[r]) /\ db[r].status # "none" /\ now'[r].status # "none",
         job'[o].stage # "stake",
         o \in Settlers =>
           /\ PaysWhatItWrote(o)'
           /\ \A i \in DOMAIN job'[o].todo : \E j \in DOMAIN job[o].todo : job'[o].todo[i] = job[o].todo[j],
         AddsUp(Seen(o)', Owes(o)')
  PROVE  MoneyInv'
<1>1. /\ RowsOK(db) /\ RowsOK(now) /\ RowsOK(now') /\ lock \in [Rows -> Owners \union {Nobody}]
      /\ db' = db /\ verdict' = verdict
      /\ \A q \in Rows : lock'[q] = IF q = r THEN o ELSE lock[q]
      /\ \A p \in Owners : p # o => job'[p] = job[p]
      /\ \A q \in Rows : q # r /\ lock[q] # o => now'[q] = now[q]
  BY DEF MoneyInv, BonusInv, BonusTypeOK, Goes
<1>2. lock[r] = o \/ lock[r] = Nobody
  BY DEF Free
<1>3. \A p \in Owners : p # o => \A q \in Rows : (lock'[q] = p <=> lock[q] = p) /\ (lock[q] = p => now'[q] = now[q])
  BY <1>1, <1>2, Apart
<1>4. ASSUME NEW p \in Owners
      PROVE  AddsUp(Seen(p)', Owes(p)')
  <2>1. CASE p # o
    <3>1. Owes(p)' = Owes(p)
      BY <1>1, <1>3, <2>1, OwesStays, Apart
    <3>2. Seen(p)' = Seen(p)
      BY <1>1, <1>3, <2>1 DEF Seen, Sees
    <3> QED
      BY <3>1, <3>2 DEF MoneyInv, SeenAddsUp
  <2> QED
    BY <2>1
<1>5. AddsUp(db', 0) /\ SeenAddsUp'
  BY <1>1, <1>4 DEF MoneyInv, SeenAddsUp
<1>6. ASSUME NEW t \in Tickets
      PROVE  /\ TicketFits(db'[t]) /\ TicketFits(now'[t])
             /\ now'[t].status = "none" => db'[t].status = "none"
             /\ NotPlacedIsFree(t)'
             /\ job'[t].stage = "stake" => db'[t].status = "none"
  <2>1. /\ TicketFits(db[t]) /\ TicketFits(now[t]) /\ (now[t].status = "none" => db[t].status = "none")
        /\ NotPlacedIsFree(t) /\ (job[t].stage = "stake" => db[t].status = "none")
    BY DEF MoneyInv, Placement
  <2>2. TicketFits(now'[t]) /\ (now'[t].status = "none" => db'[t].status = "none")
    BY <1>1, <2>1
  <2>3. NotPlacedIsFree(t)'
    <3> SUFFICES ASSUME db'[t].status = "none"
                 PROVE  /\ lock'[t] = Nobody
                        /\ \A s \in Settlers : \A i \in DOMAIN job'[s].todo : job'[s].todo[i] # t
      BY DEF NotPlacedIsFree
    <3>1. db[t].status = "none" /\ t # r
      BY <1>1
    <3>2. lock[t] = Nobody /\ \A s \in Settlers : \A i \in DOMAIN job[s].todo : job[s].todo[i] # t
      BY <2>1, <3>1 DEF NotPlacedIsFree
    <3>3. ASSUME NEW s \in Settlers, NEW i \in DOMAIN job'[s].todo
          PROVE  job'[s].todo[i] # t
      <4>1. \E j \in DOMAIN job[s].todo : job'[s].todo[i] = job[s].todo[j]
        BY <1>1, <3>3, Apart
      <4> QED
        BY <3>2, <4>1
    <3> QED
      BY <1>1, <3>1, <3>2, <3>3, Apart
  <2>4. job'[t].stage = "stake" => db'[t].status = "none"
    BY <1>1, <2>1, Apart
  <2> QED
    BY <1>1, <2>1, <2>2, <2>3, <2>4
<1>7. ASSUME NEW s \in Settlers
      PROVE  PaysWhatItWrote(s)'
  <2>1. CASE s # o
    <3>1. \A t \in Tickets : lock[t] = s => now'[t] = now[t] /\ lock'[t] = s
      BY <1>3, <2>1, Apart
    <3> QED
      BY <1>1, <2>1, <3>1, PaysStays, Apart
  <2> QED
    BY <2>1
<1>8. Placement'
  BY <1>6, <1>7 DEF Placement
<1> QED
  BY <1>5, <1>8 DEF MoneyInv

(* A transaction that begins has seen what the database has.               *)
LEMMA BeginMoney ==
  ASSUME MoneyInv, BonusInv', UNCHANGED <<db, now, lock, verdict>>, NEW o \in Owners,
         \A p \in Owners : p # o => job'[p] = job[p],
         job[o] = Idle, job'[o].stage \in {"stake", "ticket"},
         o \in Tickets => db[o].status = "none",
         o \in Settlers => \A i \in DOMAIN job'[o].todo : db[job'[o].todo[i]].status # "none"
  PROVE  MoneyInv'
<1>1. ASSUME NEW p \in Owners
      PROVE  Owes(p)' = Owes(p)
  <2>1. CASE p = o
    BY <2>1 DEF Owes, Idle
  <2>2. CASE p # o
    BY <2>2, OwesStays
  <2> QED
    BY <2>1, <2>2
<1>2. \A p \in Owners : Seen(p)' = Seen(p)
  BY DEF Seen, Sees
<1>3. AddsUp(db', 0) /\ SeenAddsUp'
  BY <1>1, <1>2 DEF MoneyInv, SeenAddsUp
<1>4. ASSUME NEW t \in Tickets
      PROVE  /\ TicketFits(db'[t]) /\ TicketFits(now'[t])
             /\ now'[t].status = "none" => db'[t].status = "none"
             /\ NotPlacedIsFree(t)'
             /\ job'[t].stage = "stake" => db'[t].status = "none"
  <2>1. /\ TicketFits(db[t]) /\ TicketFits(now[t]) /\ (now[t].status = "none" => db[t].status = "none")
        /\ NotPlacedIsFree(t) /\ (job[t].stage = "stake" => db[t].status = "none")
    BY DEF MoneyInv, Placement
  <2>2. NotPlacedIsFree(t)'
    BY <2>1, Apart DEF NotPlacedIsFree
  <2>3. job'[t].stage = "stake" => db'[t].status = "none"
    BY <2>1, Apart
  <2> QED
    BY <2>1, <2>2, <2>3
<1>5. ASSUME NEW s \in Settlers
      PROVE  PaysWhatItWrote(s)'
  <2>1. CASE s = o
    BY <2>1 DEF PaysWhatItWrote
  <2>2. CASE s # o
    BY <2>2, PaysStays, Apart
  <2> QED
    BY <2>1, <2>2
<1>6. Placement'
  BY <1>4, <1>5 DEF Placement
<1> QED
  BY <1>3, <1>6 DEF MoneyInv

(* The money of a wallet that keeps its bonuses.                           *)
LEMMA WorthMoves ==
  ASSUME NEW w \in WalletType, NEW x \in WalletType, x.credited = w.credited, NEW d \in Int,
         x.bonus + x.winnings + x.forfeited = w.bonus + w.winnings + w.forfeited + d
  PROVE  Worth(x) = Worth(w) + d
<1> DEFINE c == SumFunctionOnSet(BonusAmount, w.credited)
<1>1. c \in Int
  BY WorthType, SumFacts DEF WalletType
<1> DEFINE a == w.bonus + w.winnings + w.forfeited
           b == x.bonus + x.winnings + x.forfeited
<1>2. a \in Int /\ b \in Int /\ b = a + d
  BY DEF WalletType
<1>3. Worth(w) = a - c /\ Worth(x) = b - c
  <2>1. /\ w.bonus \in Int /\ w.winnings \in Int /\ w.forfeited \in Int
        /\ x.bonus \in Int /\ x.winnings \in Int /\ x.forfeited \in Int
    BY DEF WalletType
  <2>2. SumFunctionOnSet(BonusAmount, x.credited) = c
    OBVIOUS
  <2> HIDE DEF c
  <2>3. Worth(x) = b - c
    BY <1>1, <2>1, <2>2 DEF Worth
  <2>4. Worth(w) = a - c
    BY <1>1, <2>1 DEF Worth, c
  <2> QED
    BY <2>3, <2>4
<1> HIDE DEF a, b, c
<1> QED
  BY <1>1, <1>2, <1>3

LEMMA CreditedWorth ==
  ASSUME NEW w \in WalletType, NEW amt \in Nat
  PROVE  Worth(Credited(w, amt)) = Worth(w) + amt
<1> DEFINE x == Credited(w, amt)
<1>1. x \in WalletType
  BY CreditedType
<1>2. x.credited = w.credited /\ x.bonus = w.bonus + amt /\ x.winnings = w.winnings /\ x.forfeited = w.forfeited
  BY DEF Credited, WalletType
<1>3. w.bonus \in Int /\ w.winnings \in Int /\ w.forfeited \in Int
  BY DEF WalletType
<1> HIDE DEF x
<1>4. Worth(x) = Worth(w) + amt
  BY <1>1, <1>2, <1>3, WorthMoves
<1> QED
  BY <1>4 DEF x

(* A conversion moves money and loses none.                                *)
LEMMA ConvertedWorth ==
  ASSUME NEW w \in WalletType
  PROVE  Worth(Converted(w)) = Worth(w)
<1> DEFINE x == Converted(w)
           moved == IF w.bonus < MaxConversion THEN w.bonus ELSE MaxConversion
<1>1. x \in WalletType
  BY ConvertedIs
<1>2. w.bonus \in Nat /\ w.winnings \in Nat /\ w.forfeited \in Nat /\ moved \in Nat
  BY BonusAssumption DEF WalletType
<1>3. x = [w EXCEPT !.bonus = 0, !.winnings = @ + moved, !.forfeited = @ + w.bonus - moved]
  BY DEF Converted
<1> HIDE DEF x, moved
<1>4. /\ x.credited = w.credited /\ x.bonus = 0
      /\ x.winnings = w.winnings + moved /\ x.forfeited = w.forfeited + w.bonus - moved
  BY <1>3 DEF WalletType
<1>5. Worth(x) = Worth(w) + 0
  BY <1>1, <1>2, <1>4, WorthMoves
<1> QED
  BY <1>1, <1>5, WorthType DEF x

(* A bonus that is credited is in the wallet and among the credited.       *)
LEMMA BonusWorth ==
  ASSUME NEW w \in WalletType, NEW b \in Bonuses, b \notin w.credited
  PROVE  Worth([Credited(w, BonusAmount[b]) EXCEPT !.credited = @ \union {b}]) = Worth(w)
<1> DEFINE c == Credited(w, BonusAmount[b])
           x == [c EXCEPT !.credited = @ \union {b}]
           was == w.credited
<1>1. c \in WalletType /\ Worth(c) = Worth(w) + BonusAmount[b] /\ BonusAmount[b] \in Nat
  BY BonusAssumption, CreditedWorth, CreditedType
<1>2. c.credited = was
  BY DEF Credited, WalletType
<1>3. IsFiniteSet(was) /\ (\A y \in was \union {b} : BonusAmount[y] \in Int) /\ b \notin was
  BY WorthType DEF WalletType
<1> HIDE DEF c, was
<1>4. /\ x.credited = was \union {b}
      /\ x.bonus = c.bonus /\ x.winnings = c.winnings /\ x.forfeited = c.forfeited
  BY <1>1, <1>2 DEF WalletType
<1> HIDE DEF x
<1>5. SumFunctionOnSet(BonusAmount, was \union {b}) = SumFunctionOnSet(BonusAmount, was) + BonusAmount[b]
  BY <1>3, SumAdd
<1>6. SumFunctionOnSet(BonusAmount, was) \in Int
  BY <1>3, SumFacts
<1>7. c.bonus \in Int /\ c.winnings \in Int /\ c.forfeited \in Int /\ Worth(w) \in Int
  BY <1>1, WorthType DEF WalletType
<1>8. Worth(x) = Worth(c) - BonusAmount[b]
  BY <1>1, <1>2, <1>4, <1>5, <1>6, <1>7 DEF Worth
<1> QED
  BY <1>1, <1>7, <1>8 DEF x, c

-----------------------------------------------------------------------------
(* The money in each step of the Bonus wallet.                             *)

LEMMA InitMoney == BonusInit => MoneyInv
<1> SUFFICES ASSUME BonusInit PROVE MoneyInv
  OBVIOUS
<1> DEFINE empty == [bonus |-> 0, winnings |-> 0, forfeited |-> 0, credited |-> {}]
<1>1. BonusInv
  BY BonusInitHolds
<1>2. RowsOK(db) /\ RowsOK(now)
  BY <1>1 DEF BonusInv, BonusTypeOK
<1>3. /\ db["wallet"] = empty /\ now = db /\ \A r \in Rows : lock[r] = Nobody
      /\ \A t \in Tickets : db[t] = [status |-> "none", stake |-> 0, back |-> 0]
      /\ \A o \in Owners : job[o] = Idle
  BY Apart DEF BonusInit
<1>4. AddsUp(db, 0)
  <2>1. SumFunctionOnSet(BonusAmount, {}) = 0
    BY SumFacts, FS_EmptySet
  <2>2. Worth(db["wallet"]) = 0
    BY <1>3, <2>1 DEF Worth
  <2>3. \A t \in Tickets : Nets(db)[t] = 0
    BY <1>3 DEF Nets
  <2>4. NetSum(db) = 0
    BY <2>3, BonusAssumption, SumOfZeros DEF NetSum
  <2> QED
    BY <2>2, <2>4 DEF AddsUp
<1>5. ASSUME NEW o \in Owners
      PROVE  AddsUp(Seen(o), Owes(o))
  <2>1. RowsOK(Seen(o)) /\ \A r \in Rows : Seen(o)[r] = db[r]
    BY <1>2, <1>3, SeenRows, Apart DEF Seen
  <2>2. Owes(o) = 0
    BY <1>3 DEF Owes, Idle
  <2>3. AddsUp(Seen(o), 0)
    BY <1>2, <1>4, <2>1, SameMoney, Apart
  <2> QED
    BY <2>2, <2>3
<1>6. Placement
  <2>1. \A o \in Owners : job[o].stage = "idle" /\ job[o].todo = <<>>
    BY <1>3 DEF Idle
  <2>2. ASSUME NEW t \in Tickets
        PROVE  /\ TicketFits(db[t]) /\ TicketFits(now[t])
               /\ now[t].status = "none" => db[t].status = "none"
               /\ NotPlacedIsFree(t)
               /\ job[t].stage = "stake" => db[t].status = "none"
    BY <1>3, <2>1, Apart DEF TicketFits, NotPlacedIsFree
  <2>3. \A s \in Settlers : PaysWhatItWrote(s)
    BY <2>1, Apart DEF PaysWhatItWrote
  <2> QED
    BY <2>2, <2>3 DEF Placement
<1> QED
  BY <1>1, <1>4, <1>5, <1>6 DEF MoneyInv, SeenAddsUp

LEMMA CheckMoney ==
  ASSUME MoneyInv, NEW t \in Tickets, Check(t)
  PROVE  MoneyInv'
<1>1. BonusInv'
  BY CheckKeeps DEF MoneyInv
<1>2. job \in [Owners -> JobType]
  BY DEF MoneyInv, BonusInv, BonusTypeOK
<1>3. /\ job[t] = Idle /\ db[t].status = "none" /\ UNCHANGED <<db, now, lock, verdict>>
      /\ job'[t].stage = "stake" /\ \A p \in Owners : p # t => job'[p] = job[p]
  BY <1>2, Apart DEF Check, Idle
<1> QED
  BY <1>1, <1>3, BeginMoney, Apart

LEMMA SettleMoney ==
  ASSUME MoneyInv, NEW s \in Settlers, Begin(s)
  PROVE  MoneyInv'
<1>1. BonusInv'
  BY BeginKeeps DEF MoneyInv
<1>2. job \in [Owners -> JobType]
  BY DEF MoneyInv, BonusInv, BonusTypeOK
<1>3. PICK todo \in Touched : job' = [job EXCEPT ![s] = [Idle EXCEPT !.stage = "ticket", !.todo = todo]]
  BY DEF Begin
<1> DEFINE Open == {t \in Tickets : db[t].status \in {"OPEN", "ACCEPTING"}}
<1>4. \A i \in DOMAIN todo : db[todo[i]].status # "none"
  <2>1. PICK T \in SUBSET Open : todo \in SetToSeqs(T)
    BY <1>3 DEF Touched, SetToAllKPermutations
  <2>2. \A i \in DOMAIN todo : todo[i] \in T
    BY <2>1 DEF SetToSeqs
  <2> QED
    BY <2>1, <2>2
<1>5. /\ job[s] = Idle /\ UNCHANGED <<db, now, lock, verdict>>
      /\ job'[s].stage = "ticket" /\ job'[s].todo = todo
      /\ \A p \in Owners : p # s => job'[p] = job[p]
  BY <1>2, <1>3, Apart DEF Begin, Idle
<1> QED
  BY <1>1, <1>4, <1>5, BeginMoney, Apart

LEMMA StakeMoney ==
  ASSUME MoneyInv, NEW t \in Tickets, Stake(t)
  PROVE  MoneyInv'
<1> DEFINE w == db["wallet"]
           stake == job[t].amount
<1>1. BonusInv' /\ Ends(t) /\ lock["wallet"] = Nobody
  BY StakeKeeps DEF MoneyInv
<1>2. /\ RowsOK(db) /\ RowsOK(now) /\ RowsOK(db') /\ w \in WalletType /\ stake \in Nat
  BY <1>1, Apart DEF MoneyInv, BonusInv, BonusTypeOK, RowsOK, JobType, Ends
<1>3. db[t].status = "none" /\ lock[t] = Nobody /\ db[t].stake = 0 /\ db[t].back = 0
  <2>1. job[t].stage = "stake"
    BY DEF Stake
  <2>2. db[t].status = "none"
    BY <2>1 DEF MoneyInv, Placement
  <2> QED
    BY <2>2 DEF MoneyInv, Placement, NotPlacedIsFree, TicketFits
<1>4. AddsUp(db, 0) /\ \A q \in Tickets : TicketFits(db[q])
  BY DEF MoneyInv, Placement
<1>5. CASE w.bonus >= stake
  <2>1. PICK made_as \in {"OPEN", "ACCEPTING"} :
          LET made == [status |-> made_as, stake |-> stake, back |-> 0]
              paid == [w EXCEPT !.bonus = @ - stake]
          IN  /\ db' = [db EXCEPT !["wallet"] = paid, ![t] = made]
              /\ now' = [now EXCEPT !["wallet"] = paid, ![t] = made]
    BY <1>5 DEF Stake
  <2> DEFINE made == [status |-> made_as, stake |-> stake, back |-> 0]
             paid == [w EXCEPT !.bonus = @ - stake]
  <2>2. made.stake = stake /\ made.back = 0 /\ made.status # "none" /\ TicketFits(made)
    BY <2>1 DEF TicketFits
  <2>3. Worth(paid) = Worth(w) - stake
    <3>1. /\ paid.credited = w.credited /\ paid.bonus = w.bonus - stake
          /\ paid.winnings = w.winnings /\ paid.forfeited = w.forfeited
      BY <1>2 DEF WalletType
    <3>2. paid \in WalletType
      BY <1>2, <1>5 DEF WalletType
    <3>3. w.bonus \in Int /\ w.winnings \in Int /\ w.forfeited \in Int
      BY <1>2 DEF WalletType
    <3> HIDE DEF paid, w, stake
    <3>4. Worth(paid) = Worth(w) + (0 - stake)
      BY <1>2, <3>1, <3>2, <3>3, WorthMoves
    <3> QED
      BY <1>2, <3>4, WorthType
  <2>4. db' = [db EXCEPT !["wallet"] = paid, ![t] = made] /\ now' = [now EXCEPT !["wallet"] = paid, ![t] = made]
    BY <2>1
  <2> HIDE DEF made, paid, w, stake
  <2>5. /\ db'["wallet"] = paid /\ db'[t] = made
        /\ \A r \in Rows : r # "wallet" /\ r # t => db'[r] = db[r] /\ now'[r] = now[r]
    BY <1>2, <2>4, Apart DEF RowsOK
  <2>6. AddsUp(db', 0)
    <3>1. NetSum(db') = NetSum(db) + ((0 - stake) - (0 - 0))
      <4>1. \A q \in Tickets : q # t => db'[q] = db[q]
        BY <2>5, Apart
      <4>2. NetSum(db') = NetSum(db) + ((db'[t].back - db'[t].stake) - (db[t].back - db[t].stake))
        BY <1>2, <4>1, OneTicketMoves
      <4> QED
        BY <1>3, <2>2, <2>5, <4>2
    <3>2. Worth(w) + 0 = NetSum(db) /\ Worth(w) \in Int /\ NetSum(db) \in Int
      BY <1>2, <1>4, WorthType, NetsType DEF AddsUp, w
    <3>3. Worth(db'["wallet"]) = Worth(w) - stake
      BY <2>3, <2>5
    <3> QED
      BY <1>2, <3>1, <3>2, <3>3 DEF AddsUp
  <2>7. \A r \in Rows : lock[r] \notin {t, Nobody} => db'[r] = db[r] /\ now'[r] = now[r]
    BY <1>1, <1>3, <2>5
  <2>8. \A q \in Tickets :
          /\ TicketFits(db'[q])
          /\ db[q].status # "none" => db'[q].status # "none"
          /\ q # t /\ db[q].status = "none" => db'[q].status = "none"
    BY <1>3, <1>4, <2>2, <2>5, Apart
  <2> QED
    BY <1>1, <2>6, <2>7, <2>8, EndMoney, Apart
<1>6. CASE ~ (w.bonus >= stake)
  <2>1. db' = db /\ now' = now
    BY <1>6 DEF Stake
  <2> QED
    BY <1>1, <1>4, <2>1, EndMoney, Apart
<1> QED
  BY <1>5, <1>6

LEMMA ConfirmLiveMoney ==
  ASSUME MoneyInv, NEW t \in Tickets, ConfirmLive(t)
  PROVE  MoneyInv'
<1>1. BonusInv'
  BY ConfirmLiveKeeps DEF MoneyInv
<1>2. /\ RowsOK(db) /\ RowsOK(now) /\ lock \in [Rows -> Owners \union {Nobody}]
      /\ job \in [Owners -> JobType] /\ db[t] \in TicketType
  BY DEF MoneyInv, BonusInv, BonusTypeOK, RowsOK
<1>3. job[t] = Idle /\ lock[t] = Nobody /\ now[t] = db[t] /\ \A r \in Rows : lock[r] # t
  BY Apart DEF MoneyInv, BonusInv, Holding, ConfirmLive, Idle, Free
<1>4. db[t].status = "ACCEPTING" /\ db[t].back = 0 /\ db[t].stake \in Nat
  <2>1. db[t].status = "ACCEPTING"
    BY DEF ConfirmLive
  <2> QED
    BY <1>2, <2>1 DEF MoneyInv, Placement, TicketFits, TicketType
<1>5. AddsUp(db, 0) /\ \A q \in Tickets : TicketFits(db[q])
  BY DEF MoneyInv, Placement
<1>6. CASE /\ db' = [db EXCEPT ![t].status = "OPEN"] /\ now' = [now EXCEPT ![t].status = "OPEN"]
           /\ UNCHANGED <<lock, job>>
  <2>1. /\ db'[t].status = "OPEN" /\ db'[t].back = db[t].back /\ db'[t].stake = db[t].stake
        /\ \A r \in Rows : r # t => db'[r] = db[r] /\ now'[r] = now[r]
    BY <1>2, <1>6, Apart DEF RowsOK, TicketType
  <2>2. RowsOK(db')
    BY <1>1 DEF BonusInv, BonusTypeOK
  <2>3. Ends(t)
    <3>1. job' = [job EXCEPT ![t] = Idle]
      BY <1>2, <1>3, <1>6
    <3>2. \A r \in Rows : lock'[r] = Nobody => now'[r] = db'[r]
      BY <1>1 DEF BonusInv, Holding
    <3>3. RowsOK(now') /\ lock' \in [Rows -> Owners \union {Nobody}] /\ log' \in Seq(Tickets \union Bonuses)
      BY <1>1 DEF BonusInv, BonusTypeOK
    <3>4. verdict' = verdict /\ crashes' \in 0 .. MaxCrashes
      BY <1>1 DEF ConfirmLive, BonusInv, BonusTypeOK
    <3> QED
      BY <1>3, <1>6, <2>2, <3>1, <3>2, <3>3, <3>4 DEF Ends
  <2>4. AddsUp(db', 0)
    <3>1. \A q \in Tickets : db'[q].back - db'[q].stake = db[q].back - db[q].stake
      BY <2>1, Apart
    <3>2. db'["wallet"] = db["wallet"]
      BY <2>1, Apart
    <3> QED
      BY <1>2, <1>5, <2>2, <3>1, <3>2, SameMoney
  <2>5. \A r \in Rows : lock[r] \notin {t, Nobody} => db'[r] = db[r] /\ now'[r] = now[r]
    BY <1>3, <2>1
  <2>6. \A q \in Tickets :
          /\ TicketFits(db'[q])
          /\ db[q].status # "none" => db'[q].status # "none"
          /\ q # t /\ db[q].status = "none" => db'[q].status = "none"
    <3>1. TicketFits(db'[t]) /\ db'[t].status # "none"
      BY <1>4, <2>1 DEF TicketFits
    <3> QED
      BY <1>5, <2>1, <3>1, Apart
  <2> QED
    BY <1>1, <2>3, <2>4, <2>5, <2>6, EndMoney, Apart
<1>7. CASE /\ Write(t, t, [now[t] EXCEPT !.status = "REJECTED", !.back = now[t].stake])
           /\ job' = [job EXCEPT ![t] = [Idle EXCEPT !.stage = "refund"]]
           /\ UNCHANGED db
  <2> DEFINE row == [now[t] EXCEPT !.status = "REJECTED", !.back = now[t].stake]
  <2>1. row.status = "REJECTED" /\ row.back = db[t].stake /\ row.stake = db[t].stake /\ TicketFits(row)
    BY <1>2, <1>3 DEF TicketType, TicketFits
  <2>2. lock' = [lock EXCEPT ![t] = t] /\ now' = [now EXCEPT ![t] = row]
    BY <1>7 DEF Write
  <2> HIDE DEF row
  <2>3. now'[t] = row /\ \A r \in Rows : r # t => now'[r] = now[r]
    BY <1>2, <2>2, Apart DEF RowsOK
  <2>4. job'[t].stage = "refund" /\ \A p \in Owners : p # t => job'[p] = job[p]
    BY <1>2, <1>7, Apart DEF Idle
  <2>5. RowsOK(now') /\ RowsOK(db') /\ job' \in [Owners -> JobType]
    BY <1>1 DEF BonusInv, BonusTypeOK
  <2>6. Goes(t, t) /\ Free(t, t)
    <3>1. db' = db /\ log' = log /\ verdict' = verdict /\ crashes' = crashes
      BY <1>7 DEF ConfirmLive
    <3> QED
      BY <1>3, <2>2, <2>3, <2>4, <2>5, <3>1 DEF Goes, Free
  <2>7. AddsUp(Seen(t)', Owes(t)')
    <3>1. Owes(t)' = db[t].stake
      BY <2>1, <2>3, <2>4 DEF Owes
    <3>2. /\ RowsOK(Seen(t)')
          /\ \A r \in Rows : Seen(t)'[r] = IF lock'[r] = t THEN now'[r] ELSE db'[r]
      BY <2>5, SeenRows DEF Seen
    <3>3. Seen(t)'[t] = row /\ \A r \in Rows : r # t => Seen(t)'[r] = db[r]
      BY <1>2, <1>3, <1>7, <2>2, <2>3, <3>2, Apart
    <3> DEFINE v == Seen(t)'
    <3> HIDE DEF v
    <3>4. RowsOK(v) /\ v[t] = row /\ (\A q \in Tickets : q # t => v[q] = db[q]) /\ v["wallet"] = db["wallet"]
      BY <3>2, <3>3, Apart DEF v
    <3>5. NetSum(v) = NetSum(db) + ((v[t].back - v[t].stake) - (db[t].back - db[t].stake))
      BY <1>2, <3>4, OneTicketMoves
    <3>6. NetSum(v) = NetSum(db) + db[t].stake
      BY <1>2, <1>4, <2>1, <3>4, <3>5, NetsType
    <3>7. AddsUp(v, db[t].stake)
      BY <1>2, <1>4, <1>5, <3>4, <3>6, NetsType, WorthType DEF AddsUp
    <3> QED
      BY <3>1, <3>7 DEF v
  <2>8. /\ \A q \in Tickets : q # t => now'[q] = now[q]
        /\ TicketFits(now'[t]) /\ db[t].status # "none" /\ now'[t].status # "none"
    BY <1>4, <2>1, <2>3, Apart
  <2> QED
    BY <1>1, <2>4, <2>6, <2>7, <2>8, GoMoney, Apart
<1> QED
  BY <1>6, <1>7 DEF ConfirmLive

LEMMA RefundMoney ==
  ASSUME MoneyInv, NEW t \in Tickets, Refund(t)
  PROVE  MoneyInv'
<1> DEFINE w == Credited(db["wallet"], now[t].stake)
<1>1. BonusInv' /\ Ends(t) /\ lock["wallet"] = Nobody
  BY RefundKeeps DEF MoneyInv
<1>2. /\ RowsOK(db) /\ RowsOK(now) /\ RowsOK(db') /\ RowsOK(now')
      /\ db["wallet"] \in WalletType /\ now[t].stake \in Nat
  BY <1>1 DEF MoneyInv, BonusInv, BonusTypeOK, RowsOK, TicketType, Ends
<1>3. job[t].stage = "refund" /\ lock[t] = t /\ \A r \in Rows : lock[r] = t => r = t
  <2>1. job[t].stage = "refund"
    BY DEF Refund
  <2> QED
    BY <2>1, Apart DEF MoneyInv, BonusInv, Holding
<1>4. Worth(w) = Worth(db["wallet"]) + now[t].stake
  BY <1>2, CreditedWorth
<1>5. db' = [db EXCEPT !["wallet"] = w, ![t] = now[t]] /\ now' = [now EXCEPT !["wallet"] = w]
  BY DEF Refund
<1> HIDE DEF w
<1>6. /\ db'["wallet"] = w /\ db'[t] = now[t] /\ \A r \in Rows : r # "wallet" => now'[r] = now[r]
      /\ \A r \in Rows : r # "wallet" /\ r # t => db'[r] = db[r]
  BY <1>2, <1>5, Apart DEF RowsOK
<1>7. AddsUp(db', 0)
  <2>1. AddsUp(Seen(t), now[t].stake)
    <3>1. Owes(t) = now[t].stake
      BY <1>3 DEF Owes
    <3> QED
      BY <3>1, Apart DEF MoneyInv, SeenAddsUp
  <2>2. RowsOK(Seen(t)) /\ \A r \in Rows : Seen(t)[r] = IF lock[r] = t THEN now[r] ELSE db[r]
    BY <1>2, SeenRows DEF Seen
  <2>3. Seen(t)["wallet"] = db["wallet"] /\ \A q \in Tickets : db'[q] = Seen(t)[q]
    BY <1>3, <1>6, <2>2, Apart
  <2>4. NetSum(db') = NetSum(Seen(t))
    BY <2>3 DEF NetSum, Nets
  <2>5. Worth(db["wallet"]) \in Int
    BY <1>2, WorthType
  <2> HIDE DEF Seen
  <2> QED
    BY <1>2, <1>4, <1>6, <2>1, <2>3, <2>4, <2>5 DEF AddsUp
<1>8. \A r \in Rows : lock[r] \notin {t, Nobody} => db'[r] = db[r] /\ now'[r] = now[r]
  BY <1>1, <1>3, <1>6
<1>9. \A q \in Tickets :
        /\ TicketFits(db'[q])
        /\ db[q].status # "none" => db'[q].status # "none"
        /\ q # t /\ db[q].status = "none" => db'[q].status = "none"
  <2>1. /\ \A q \in Tickets : TicketFits(db[q]) /\ TicketFits(now[q])
        /\ now[t].status = "none" => db[t].status = "none"
    BY DEF MoneyInv, Placement
  <2> QED
    BY <1>6, <2>1, Apart
<1> QED
  BY <1>1, <1>7, <1>8, <1>9, EndMoney, Apart

LEMMA CreditMoney ==
  ASSUME MoneyInv, NEW b \in Bonuses, Credit(b)
  PROVE  MoneyInv'
<1> DEFINE w == [Credited(db["wallet"], BonusAmount[b]) EXCEPT !.credited = @ \union {b}]
<1>1. BonusInv' /\ Goes(b, "wallet") /\ lock["wallet"] = Nobody
  BY CreditKeeps DEF MoneyInv
<1>2. /\ RowsOK(db) /\ RowsOK(now) /\ RowsOK(db') /\ RowsOK(now')
      /\ lock \in [Rows -> Owners \union {Nobody}] /\ db["wallet"] \in WalletType
      /\ job \in [Owners -> JobType]
  <2>1. RowsOK(db') /\ RowsOK(now')
    BY <1>1 DEF BonusInv, BonusTypeOK
  <2> QED
    BY <2>1 DEF MoneyInv, BonusInv, BonusTypeOK, RowsOK
<1>3. now["wallet"] = db["wallet"] /\ \A r \in Rows : lock[r] # b
  BY <1>1, Apart DEF MoneyInv, BonusInv, Holding, Credit, Idle
<1>4. Worth(w) = Worth(db["wallet"])
  BY <1>2, BonusWorth DEF Credit
<1>5. /\ lock' = [lock EXCEPT !["wallet"] = b] /\ now' = [now EXCEPT !["wallet"] = w]
      /\ db' = db /\ job'[b].stage = "reset"
  BY <1>2, <1>3, Apart DEF Credit, Write, Idle
<1> HIDE DEF w
<1>6. now'["wallet"] = w /\ \A r \in Rows : r # "wallet" => now'[r] = now[r]
  BY <1>2, <1>5, Apart DEF RowsOK
<1>7. AddsUp(Seen(b)', Owes(b)')
  <2>1. Owes(b)' = 0
    BY <1>5 DEF Owes
  <2>2. /\ RowsOK(Seen(b)')
        /\ \A r \in Rows : Seen(b)'[r] = IF lock'[r] = b THEN now'[r] ELSE db'[r]
    BY <1>2, SeenRows DEF Seen
  <2>3. Seen(b)'["wallet"] = w /\ \A t \in Tickets : Seen(b)'[t] = db[t]
    BY <1>2, <1>3, <1>5, <1>6, <2>2, Apart
  <2>4. AddsUp(db, 0)
    BY DEF MoneyInv
  <2>5. AddsUp(Seen(b)', 0)
    <3> DEFINE v == Seen(b)'
    <3> HIDE DEF v
    <3>1. RowsOK(v) /\ v["wallet"] = w /\ \A t \in Tickets : v[t] = db[t]
      BY <2>2, <2>3 DEF v
    <3>2. AddsUp(v, 0)
      BY <1>2, <1>4, <2>4, <3>1, SameMoney
    <3> QED
      BY <3>2 DEF v
  <2> QED
    BY <2>1, <2>5
<1>8. \A t \in Tickets : t # "wallet" => now'[t] = now[t]
  BY <1>6, Apart
<1>9. Free(b, "wallet")
  BY <1>1 DEF Free
<1> QED
  BY <1>1, <1>5, <1>7, <1>8, <1>9, GoMoney, Apart

LEMMA ResetMoney ==
  ASSUME MoneyInv, NEW b \in Bonuses, Reset(b)
  PROVE  MoneyInv'
<1>1. BonusInv' /\ Ends(b) /\ lock["rollover"] = Nobody
  BY ResetKeeps DEF MoneyInv
<1>2. /\ RowsOK(db) /\ RowsOK(now) /\ RowsOK(db') /\ now["wallet"] \in WalletType
  BY <1>1 DEF MoneyInv, BonusInv, BonusTypeOK, RowsOK, Ends
<1>3. /\ job[b].stage = "reset" /\ lock["wallet"] = b
      /\ \A r \in Rows : lock[r] = b => r = "wallet"
  <2>1. job[b].stage = "reset"
    BY DEF Reset
  <2> QED
    BY <2>1, Apart DEF MoneyInv, BonusInv, Holding
<1>4. db' = [db EXCEPT !["wallet"] = now["wallet"], !["rollover"] = 0] /\ now' = [now EXCEPT !["rollover"] = 0]
  BY DEF Reset
<1>5. /\ db'["wallet"] = now["wallet"] /\ now'["wallet"] = now["wallet"]
      /\ \A t \in Tickets : db'[t] = db[t] /\ now'[t] = now[t]
  BY <1>2, <1>4, Apart DEF RowsOK
<1>6. AddsUp(db', 0)
  <2>1. AddsUp(Seen(b), 0)
    <3>1. Owes(b) = 0
      BY <1>3 DEF Owes
    <3> QED
      BY <3>1, Apart DEF MoneyInv, SeenAddsUp
  <2>2. RowsOK(Seen(b)) /\ \A r \in Rows : Seen(b)[r] = IF lock[r] = b THEN now[r] ELSE db[r]
    BY <1>2, SeenRows DEF Seen
  <2>3. Seen(b)["wallet"] = db'["wallet"] /\ \A t \in Tickets : db'[t] = Seen(b)[t]
    BY <1>3, <1>5, <2>2, Apart
  <2> HIDE DEF Seen
  <2> QED
    BY <1>2, <2>1, <2>2, <2>3, SameMoney
<1>7. \A r \in Rows : lock[r] \notin {b, Nobody} => db'[r] = db[r] /\ now'[r] = now[r]
  BY <1>1, <1>3, <1>5, Apart
<1>8. \A t \in Tickets : TicketFits(db[t])
  BY DEF MoneyInv, Placement
<1> QED
  BY <1>1, <1>5, <1>6, <1>7, <1>8, EndMoney, Apart

LEMMA RollbackMoney ==
  ASSUME MoneyInv, NEW o \in Owners, Rollback(o), crashes' \in 0 .. MaxCrashes
  PROVE  MoneyInv'
<1>1. BonusInv' /\ Ends(o)
  BY RollbackKeeps DEF MoneyInv
<1>2. db' = db /\ \A r \in Rows : lock[r] # o => now'[r] = now[r]
  BY DEF Rollback
<1>3. AddsUp(db', 0) /\ \A t \in Tickets : TicketFits(db[t])
  BY <1>2 DEF MoneyInv, Placement
<1> QED
  BY <1>1, <1>2, <1>3, EndMoney, Apart

LEMMA FinishMoney ==
  ASSUME MoneyInv, NEW s \in Settlers, Finish(s)
  PROVE  MoneyInv'
<1>1. BonusInv' /\ Ends(s)
  BY FinishKeeps DEF MoneyInv
<1>2. RowsOK(db) /\ RowsOK(now) /\ RowsOK(db')
  BY <1>1 DEF MoneyInv, BonusInv, BonusTypeOK, Ends
<1>3. /\ job[s].stage = "ticket" /\ now' = now
      /\ \A r \in Rows : db'[r] = IF lock[r] = s THEN now[r] ELSE db[r]
  BY DEF Finish, Commit
<1>4. AddsUp(db', 0)
  <2>1. AddsUp(Seen(s), 0)
    <3>1. Owes(s) = 0
      BY <1>3 DEF Owes
    <3> QED
      BY <3>1, Apart DEF MoneyInv, SeenAddsUp
  <2>2. RowsOK(Seen(s)) /\ \A r \in Rows : Seen(s)[r] = db'[r]
    BY <1>2, <1>3, SeenRows DEF Seen
  <2> HIDE DEF Seen
  <2> QED
    BY <1>2, <2>1, <2>2, SameMoney, Apart
<1>5. \A r \in Rows : lock[r] \notin {s, Nobody} => db'[r] = db[r] /\ now'[r] = now[r]
  BY <1>3
<1>6. \A t \in Tickets :
        /\ TicketFits(db'[t])
        /\ db[t].status # "none" => db'[t].status # "none"
        /\ t # s /\ db[t].status = "none" => db'[t].status = "none"
  <2> SUFFICES ASSUME NEW t \in Tickets
               PROVE  /\ TicketFits(db'[t])
                      /\ db[t].status # "none" => db'[t].status # "none"
                      /\ db[t].status = "none" => db'[t].status = "none"
    OBVIOUS
  <2>1. /\ TicketFits(db[t]) /\ TicketFits(now[t]) /\ (now[t].status = "none" => db[t].status = "none")
        /\ db[t].status = "none" => lock[t] = Nobody
    BY DEF MoneyInv, Placement, NotPlacedIsFree
  <2> QED
    BY <1>3, <2>1, Apart
<1> QED
  BY <1>1, <1>4, <1>5, <1>6, EndMoney, Apart

(* What is left to do after a ticket was to be done before.                *)
LEMMA TailIsPart ==
  ASSUME BonusTypeOK, NEW s \in Settlers, job[s].todo # <<>>
  PROVE  \A i \in DOMAIN Tail(job[s].todo) :
           \E j \in DOMAIN job[s].todo : Tail(job[s].todo)[i] = job[s].todo[j]
<1> DEFINE q == job[s].todo
<1>1. q \in Seq(Tickets) /\ q # <<>>
  BY Apart DEF BonusTypeOK, JobType
<1> HIDE DEF q
<1>2. ASSUME NEW i \in DOMAIN Tail(q)
      PROVE  \E j \in DOMAIN q : Tail(q)[i] = q[j]
  <2>1. i + 1 \in DOMAIN q /\ Tail(q)[i] = q[i + 1]
    BY <1>1
  <2> QED
    BY <2>1
<1> QED
  BY <1>2 DEF q

LEMMA LockTicketMoney ==
  ASSUME MoneyInv, NEW s \in Settlers, LockTicket(s)
  PROVE  MoneyInv'
<1> DEFINE t == Current(s)
           row == View(s, t)
           lost == verdict[t] = "lost"
           back == CASE lost -> 0
                     [] verdict[t] = "won" -> Odds * row.stake
                     [] verdict[t] = "void" -> row.stake
           new == [row EXCEPT !.status = IF lost THEN "LOST" ELSE "WON", !.back = back]
<1>1. BonusInv' /\ Goes(s, t) /\ Free(s, t)
  BY LockTicketKeeps DEF MoneyInv
<1>2. /\ job[s].stage = "ticket" /\ job[s].todo # <<>>
      /\ UNCHANGED <<db, log, verdict, crashes>>
      /\ IF row.status = "OPEN"
         THEN Write(s, t, new) /\ Goto(s, IF lost THEN "count" ELSE "pay")
         ELSE Write(s, t, row) /\ Proceed(s, FALSE)
  BY DEF LockTicket
<1>3. /\ BonusTypeOK /\ t \in Tickets
      /\ RowsOK(db) /\ RowsOK(now) /\ RowsOK(db') /\ RowsOK(now')
      /\ lock \in [Rows -> Owners \union {Nobody}] /\ job[s].todo \in Seq(Tickets)
  <2>1. RowsOK(db') /\ RowsOK(now')
    BY <1>1 DEF BonusInv, BonusTypeOK
  <2> QED
    BY <1>2, <2>1, CurrentIs, Apart DEF MoneyInv, BonusInv, BonusTypeOK, JobType
<1>4. RowsOK(Seen(s)) /\ \A r \in Rows : Seen(s)[r] = IF lock[r] = s THEN now[r] ELSE db[r]
  BY <1>3, SeenRows DEF Seen
<1>5. row = Seen(s)[t] /\ row \in TicketType
  BY <1>3, <1>4, Apart DEF View, RowsOK
<1>6. TicketFits(row) /\ row.status # "none" /\ db[t].status # "none"
  <2>1. 1 \in DOMAIN job[s].todo /\ job[s].todo[1] = t
    BY <1>2, <1>3 DEF Current
  <2>2. db[t].status # "none"
    BY <1>3, <2>1 DEF MoneyInv, Placement, NotPlacedIsFree
  <2> QED
    BY <1>3, <2>2 DEF MoneyInv, Placement, View
<1>7. AddsUp(Seen(s), 0)
  <2>1. Owes(s) = 0
    BY <1>2 DEF Owes
  <2> QED
    BY <2>1, Apart DEF MoneyInv, SeenAddsUp
<1>8. /\ RowsOK(Seen(s)')
      /\ \A r \in Rows : Seen(s)'[r] = IF lock'[r] = s THEN now'[r] ELSE db'[r]
  BY <1>3, SeenRows DEF Seen
<1>9. ASSUME NEW x, Write(s, t, x)
      PROVE  /\ now'[t] = x /\ Seen(s)'[t] = x
             /\ \A r \in Rows : r # t => now'[r] = now[r] /\ Seen(s)'[r] = Seen(s)[r]
  <2> HIDE DEF t
  <2>1. lock' = [lock EXCEPT ![t] = s] /\ now' = [now EXCEPT ![t] = x]
    BY <1>9 DEF Write
  <2>2. now'[t] = x /\ lock'[t] = s
    BY <1>3, <2>1, Apart DEF RowsOK
  <2>3. \A r \in Rows : r # t => now'[r] = now[r] /\ lock'[r] = lock[r]
    BY <1>3, <2>1, Apart DEF RowsOK
  <2> HIDE DEF Seen
  <2> QED
    BY <1>2, <1>3, <1>4, <1>8, <2>2, <2>3, Apart
<1>10. CASE row.status # "OPEN"
  <2>1. Write(s, t, row) /\ Proceed(s, FALSE)
    BY <1>2, <1>10
  <2>2. job'[s].stage = "ticket" /\ job'[s].todo = Tail(job[s].todo)
    BY <1>2, <1>3, <2>1, ProceedDoes
  <2>3. now'[t] = row /\ (\A r \in Rows : r # t => now'[r] = now[r])
        /\ \A r \in Rows : Seen(s)'[r] = Seen(s)[r]
    BY <1>5, <1>9, <2>1
  <2>4. AddsUp(Seen(s)', Owes(s)')
    <3>1. Owes(s)' = 0
      BY <2>2 DEF Owes
    <3> DEFINE v == Seen(s)'
               u == Seen(s)
    <3>2. RowsOK(u) /\ RowsOK(v) /\ AddsUp(u, 0) /\ \A r \in Rows : v[r] = u[r]
      BY <1>4, <1>7, <1>8, <2>3
    <3> HIDE DEF u, v
    <3>3. AddsUp(v, 0)
      BY <3>2, SameMoney, Apart
    <3> QED
      BY <3>1, <3>3 DEF v
  <2>5. PaysWhatItWrote(s)'
    BY <2>2 DEF PaysWhatItWrote
  <2>6. \A i \in DOMAIN job'[s].todo : \E j \in DOMAIN job[s].todo : job'[s].todo[i] = job[s].todo[j]
    BY <1>2, <1>3, <2>2, TailIsPart
  <2>7. TicketFits(now'[t]) /\ now'[t].status # "none"
    BY <1>6, <2>3
  <2>8. (\A q \in Tickets : q # t => now'[q] = now[q]) /\ t \in Rows /\ job'[s].stage # "stake"
    BY <1>3, <2>2, <2>3, Apart
  <2> HIDE DEF t, row
  <2> QED
    BY <1>1, <1>6, <2>4, <2>5, <2>6, <2>7, <2>8, GoMoney, Apart
<1>11. CASE row.status = "OPEN"
  <2>1. Write(s, t, new) /\ Goto(s, IF lost THEN "count" ELSE "pay")
    BY <1>2, <1>11
  <2>2. job'[s].stage = (IF lost THEN "count" ELSE "pay") /\ job'[s].todo = job[s].todo
    BY <1>3, <2>1, GotoDoes
  <2>3. /\ new.back = back /\ new.stake = row.stake /\ new.status # "none" /\ TicketFits(new)
        /\ row.back = 0 /\ row.stake \in Nat
    BY <1>5, <1>6, <1>11 DEF TicketFits, TicketType
  <2>4. back \in Nat /\ (lost => back = 0) /\ (~ lost => back = Returns(verdict[t], row))
    <3>1. Odds * row.stake \in Nat
      BY <2>3, BonusAssumption
    <3> QED
      BY <1>3, <2>3, <3>1, VerdictIs DEF Returns
  <2>5. /\ now'[t] = new /\ Seen(s)'[t] = new
        /\ \A r \in Rows : r # t => now'[r] = now[r] /\ Seen(s)'[r] = Seen(s)[r]
    BY <1>9, <2>1
  <2>6. Current(s)' = t
    BY <2>2 DEF Current
  <2>7. Owes(s)' = back
    <3> HIDE DEF back, new
    <3>1. CASE lost
      BY <2>2, <2>4, <3>1 DEF Owes
    <3>2. CASE ~ lost
      <4> HIDE DEF lost
      <4> QED
        BY <2>2, <2>3, <2>5, <2>6, <3>2 DEF Owes
    <3> QED
      BY <3>1, <3>2
  <2>8. AddsUp(Seen(s)', back)
    <3> DEFINE v == Seen(s)'
               u == Seen(s)
    <3>1. /\ RowsOK(u) /\ RowsOK(v) /\ AddsUp(u, 0) /\ u["wallet"] = v["wallet"]
          /\ u[t] = row /\ v[t] = new /\ \A q \in Tickets : q # t => v[q] = u[q]
      BY <1>3, <1>4, <1>5, <1>7, <1>8, <2>5, Apart
    <3> HIDE DEF u, v, t, row, new, back, lost
    <3>2. NetSum(v) = NetSum(u) + ((v[t].back - v[t].stake) - (u[t].back - u[t].stake))
      BY <1>3, <3>1, OneTicketMoves
    <3>3. NetSum(v) = NetSum(u) + ((back - row.stake) - (0 - row.stake))
      BY <2>3, <3>1, <3>2
    <3>4. NetSum(u) \in Int /\ Worth(u["wallet"]) \in Int
      BY <3>1, NetsType, WorthType
    <3>5. AddsUp(v, back)
      BY <2>3, <2>4, <3>1, <3>3, <3>4 DEF AddsUp
    <3> QED
      BY <3>5 DEF v
  <2>9. PaysWhatItWrote(s)'
    <3>1. CASE lost
      BY <2>2, <3>1 DEF PaysWhatItWrote
    <3>2. CASE ~ lost
      <4>1. lock'[t] = s
        BY <1>1, <1>3, Apart DEF Goes
      <4>2. now'[t].back = Returns(verdict[t], now'[t])
        BY <2>3, <2>4, <2>5, <3>2 DEF Returns
      <4> HIDE DEF t
      <4> QED
        BY <1>2, <2>6, <4>1, <4>2 DEF PaysWhatItWrote
    <3> QED
      BY <3>1, <3>2
  <2>10. \A i \in DOMAIN job'[s].todo : \E j \in DOMAIN job[s].todo : job'[s].todo[i] = job[s].todo[j]
    BY <2>2
  <2>11. (\A q \in Tickets : q # t => now'[q] = now[q]) /\ t \in Rows /\ job'[s].stage # "stake"
    BY <1>3, <2>2, <2>5, Apart
  <2>12. AddsUp(Seen(s)', Owes(s)')
    BY <2>7, <2>8
  <2>13. TicketFits(now'[t]) /\ now'[t].status # "none"
    BY <2>3, <2>5
  <2> HIDE DEF t, row, new, back, lost
  <2> QED
    BY <1>1, <1>6, <2>9, <2>10, <2>11, <2>12, <2>13, GoMoney, Apart
<1> QED
  BY <1>10, <1>11

(* Steps that write the wallet or the count only: what a settlement sees   *)
(* of the tickets stays, and the wallet makes up for what it owed.         *)
LEMMA SettlerMoney ==
  ASSUME MoneyInv, BonusInv', NEW s \in Settlers, NEW r \in {"wallet", "rollover"},
         Goes(s, r), Free(s, r), \A t \in Tickets : now'[t] = now[t],
         job'[s].stage \in {"ticket", "count"}, job[s].todo # <<>>,
         job'[s].todo = job[s].todo \/ job'[s].todo = Tail(job[s].todo),
         Worth(View(s, "wallet")') = Worth(View(s, "wallet")) + Owes(s)
  PROVE  MoneyInv'
<1>1. /\ BonusTypeOK /\ RowsOK(db) /\ RowsOK(now) /\ RowsOK(db') /\ RowsOK(now')
      /\ lock \in [Rows -> Owners \union {Nobody}] /\ db' = db /\ s \in Owners /\ r \in Rows
  <2>1. RowsOK(db') /\ RowsOK(now')
    BY DEF BonusInv, BonusTypeOK
  <2> QED
    BY <2>1, Apart DEF MoneyInv, BonusInv, BonusTypeOK, Goes
<1>2. \A t \in Tickets : t # r /\ lock'[t] = lock[t]
  BY <1>1, Apart DEF Goes
<1>3. /\ RowsOK(Seen(s)) /\ \A q \in Rows : Seen(s)[q] = IF lock[q] = s THEN now[q] ELSE db[q]
      /\ RowsOK(Seen(s)') /\ \A q \in Rows : Seen(s)'[q] = IF lock'[q] = s THEN now'[q] ELSE db'[q]
  <2>1. RowsOK(Seen(s)) /\ \A q \in Rows : Seen(s)[q] = IF lock[q] = s THEN now[q] ELSE db[q]
    <3>1. RowsOK(db) /\ RowsOK(now)
      BY <1>1
    <3> QED
      BY <3>1, SeenRows DEF Seen
  <2>2. RowsOK(Seen(s)') /\ \A q \in Rows : Seen(s)'[q] = IF lock'[q] = s THEN now'[q] ELSE db'[q]
    BY <1>1, SeenRows DEF Seen
  <2> QED
    BY <2>1, <2>2
<1>4. AddsUp(Seen(s)', Owes(s)')
  <2> DEFINE v == Seen(s)'
             u == Seen(s)
  <2>1. Owes(s)' = 0
    BY DEF Owes
  <2>2. RowsOK(u) /\ RowsOK(v) /\ AddsUp(u, Owes(s)) /\ \A t \in Tickets : v[t] = u[t]
    BY <1>1, <1>2, <1>3, Apart DEF MoneyInv, SeenAddsUp
  <2>3. Worth(v["wallet"]) = Worth(u["wallet"]) + Owes(s)
    BY <1>3, Apart DEF View
  <2> HIDE DEF u, v
  <2>4. NetSum(v) = NetSum(u)
    BY <2>2 DEF NetSum, Nets
  <2>5. NetSum(u) \in Int
    BY <2>2, NetsType
  <2>6. AddsUp(v, 0)
    BY <2>2, <2>3, <2>4, <2>5 DEF AddsUp
  <2> QED
    BY <2>1, <2>6 DEF v
<1>5. PaysWhatItWrote(s)'
  BY DEF PaysWhatItWrote
<1>6. \A i \in DOMAIN job'[s].todo : \E j \in DOMAIN job[s].todo : job'[s].todo[i] = job[s].todo[j]
  <2>1. CASE job'[s].todo = job[s].todo
    BY <2>1
  <2>2. CASE job'[s].todo = Tail(job[s].todo)
    <3>1. \A i \in DOMAIN Tail(job[s].todo) :
            \E j \in DOMAIN job[s].todo : Tail(job[s].todo)[i] = job[s].todo[j]
      BY <1>1, TailIsPart
    <3> QED
      BY <2>2, <3>1
  <2> QED
    BY <2>1, <2>2
<1>7. r \notin Tickets /\ job'[s].stage # "stake"
  BY Apart
<1> QED
  BY <1>1, <1>4, <1>5, <1>6, <1>7, GoMoney

LEMMA PayMoney ==
  ASSUME MoneyInv, NEW s \in Settlers, Pay(s)
  PROVE  MoneyInv'
<1> DEFINE t == Current(s)
           returned == IF verdict[t] = "won" THEN Odds * now[t].stake ELSE now[t].stake
           w == View(s, "wallet")
<1>1. BonusInv' /\ Goes(s, "wallet") /\ Free(s, "wallet")
  BY PayKeeps DEF MoneyInv
<1>2. /\ job[s].stage = "pay" /\ Write(s, "wallet", Credited(w, returned))
      /\ IF Counts(t) THEN Goto(s, "count") ELSE Proceed(s, TRUE)
  BY DEF Pay
<1>3. BonusTypeOK /\ job[s].todo # <<>> /\ t \in Tickets
  BY <1>2, CurrentIs DEF MoneyInv, BonusInv, Underway, AtItsTicket
<1>4. RowsOK(now) /\ RowsOK(db) /\ now[t].back \in Nat /\ w \in WalletType
  BY <1>3 DEF BonusTypeOK, RowsOK, TicketType, View
<1>5. returned = now[t].back /\ Owes(s) = now[t].back
  BY <1>2 DEF MoneyInv, Placement, PaysWhatItWrote, Returns, Owes
<1> HIDE DEF returned, w
<1>6. Worth(Credited(w, returned)) = Worth(w) + Owes(s)
  BY <1>4, <1>5, CreditedWorth
<1>7. /\ now' = [now EXCEPT !["wallet"] = Credited(w, returned)]
      /\ lock' = [lock EXCEPT !["wallet"] = s]
  BY <1>2 DEF Write
<1>8. View(s, "wallet")' = Credited(w, returned) /\ \A q \in Tickets : now'[q] = now[q]
  <2>1. lock'["wallet"] = s
    BY <1>3, <1>7, Apart DEF BonusTypeOK
  <2> QED
    BY <1>4, <1>7, <2>1, Apart DEF RowsOK, View
<1>9. /\ job'[s].stage \in {"ticket", "count"}
      /\ job'[s].todo = job[s].todo \/ job'[s].todo = Tail(job[s].todo)
  BY <1>2, <1>3, GotoDoes, ProceedDoes
<1>10. Worth(View(s, "wallet")') = Worth(View(s, "wallet")) + Owes(s)
  BY <1>6, <1>8 DEF w
<1> QED
  BY <1>1, <1>3, <1>8, <1>9, <1>10, SettlerMoney

LEMMA CountMoney ==
  ASSUME MoneyInv, NEW s \in Settlers, Count(s)
  PROVE  MoneyInv'
<1>1. BonusInv' /\ Goes(s, "rollover") /\ Free(s, "rollover")
  BY CountKeeps DEF MoneyInv
<1>2. job[s].stage = "count" /\ Proceed(s, TRUE) /\ db' = db
  BY DEF Count
<1>3. /\ BonusTypeOK /\ job[s].todo # <<>>
      /\ verdict[Current(s)] # "lost" => lock["wallet"] = s
  BY <1>2 DEF MoneyInv, BonusInv, Underway, AtItsTicket
<1>4. /\ RowsOK(now) /\ now["wallet"] \in WalletType /\ db["wallet"] \in WalletType
      /\ lock \in [Rows -> Owners \union {Nobody}]
  BY <1>3 DEF BonusTypeOK, RowsOK
<1> DEFINE wins == View(s, "rollover")
           won == verdict[Current(s)] # "lost"
           converts == won /\ wins + 1 >= WinsToConvert
           counted == Counted(wins, won)
<1>5. /\ lock' = [lock EXCEPT !["rollover"] = s]
      /\ now' = [now EXCEPT !["rollover"] = counted,
                            !["wallet"] = IF converts THEN Converted(@) ELSE @]
  BY DEF Count
<1>6. converts => lock["wallet"] = s
  BY <1>3
<1> HIDE DEF converts, counted
<1>7. /\ now'["wallet"] = (IF converts THEN Converted(now["wallet"]) ELSE now["wallet"])
      /\ (\A q \in Tickets : now'[q] = now[q]) /\ lock'["wallet"] = lock["wallet"]
  BY <1>4, <1>5, Apart DEF RowsOK
<1>8. Owes(s) = 0
  BY <1>2 DEF Owes
<1>9. Worth(View(s, "wallet")') = Worth(View(s, "wallet")) + Owes(s)
  <2>1. Worth(now["wallet"]) \in Int /\ Worth(db["wallet"]) \in Int
    BY <1>4, WorthType
  <2>2. CASE lock["wallet"] = s
    <3>1. View(s, "wallet")' = now'["wallet"] /\ View(s, "wallet") = now["wallet"]
      BY <1>7, <2>2 DEF View
    <3>2. Worth(now'["wallet"]) = Worth(now["wallet"])
      BY <1>4, <1>7, ConvertedWorth
    <3> QED
      BY <1>8, <2>1, <3>1, <3>2
  <2>3. CASE lock["wallet"] # s
    <3>1. View(s, "wallet")' = db["wallet"] /\ View(s, "wallet") = db["wallet"]
      BY <1>2, <1>7, <2>3 DEF View
    <3> QED
      BY <1>8, <2>1, <3>1
  <2> QED
    BY <2>2, <2>3
<1>10. job'[s].stage = "ticket" /\ job'[s].todo = Tail(job[s].todo)
  BY <1>2, <1>3, ProceedDoes
<1> QED
  BY <1>1, <1>3, <1>7, <1>9, <1>10, SettlerMoney

LEMMA MoneyNextKeeps == MoneyInv /\ [BonusNext]_bonusVars => MoneyInv'
<1> SUFFICES ASSUME MoneyInv, [BonusNext]_bonusVars PROVE MoneyInv'
  OBVIOUS
<1>1. ASSUME NEW t \in Tickets, Check(t) \/ Stake(t) \/ ConfirmLive(t) \/ Refund(t)
      PROVE  MoneyInv'
  BY <1>1, CheckMoney, StakeMoney, ConfirmLiveMoney, RefundMoney
<1>2. ASSUME NEW b \in Bonuses, Credit(b) \/ Reset(b)
      PROVE  MoneyInv'
  BY <1>2, CreditMoney, ResetMoney
<1>3. ASSUME NEW s \in Settlers, Begin(s) \/ LockTicket(s) \/ Pay(s) \/ Count(s) \/ Finish(s)
      PROVE  MoneyInv'
  BY <1>3, SettleMoney, LockTicketMoney, PayMoney, CountMoney, FinishMoney
<1>4. ASSUME NEW o \in Owners, DeadlockAbort(o) \/ Crash(o)
      PROVE  MoneyInv'
  <2>1. Rollback(o) /\ crashes' \in 0 .. MaxCrashes
    BY <1>4, BonusAssumption DEF DeadlockAbort, Crash, MoneyInv, BonusInv, BonusTypeOK
  <2> QED
    BY <2>1, RollbackMoney
<1>5. ASSUME UNCHANGED bonusVars
      PROVE  MoneyInv'
  <2>1. BonusInv'
    BY <1>5, BonusNextKeeps DEF MoneyInv
  <2> QED
    BY <1>5, <2>1 DEF bonusVars, MoneyInv, SeenAddsUp, Seen, Sees, Owes, Current, Placement,
                      NotPlacedIsFree, PaysWhatItWrote
<1>6. CASE Done
  BY <1>5, <1>6 DEF Done
<1> QED
  BY <1>1, <1>2, <1>3, <1>4, <1>5, <1>6 DEF BonusNext

(* The inductive invariant of the money of the Bonus wallet: as each       *)
(* transaction sees the rows they add up, but for what it still owes.      *)
THEOREM MoneyInvariance == BonusSpec => []MoneyInv
<1>1. BonusInit => MoneyInv
  BY InitMoney
<1>2. MoneyInv /\ [BonusNext]_bonusVars => MoneyInv'
  BY MoneyNextKeeps
<1> QED
  BY <1>1, <1>2, PTL DEF BonusSpec

(* Whatever stakes, refunds, payouts, credits and conversions interleave,  *)
(* and whichever of them are rolled back, what was credited, plus what     *)
(* tickets returned, less what they staked, is in the Bonus wallet, was    *)
(* moved to Winnings or was forfeited (place_accumulator, pay_out,         *)
(* _reject_accepting, _convert).                                           *)
THEOREM NoBonusMoneyLost == BonusSpec => []MoneyAddsUp
<1>1. MoneyInv => MoneyAddsUp
  <2> SUFFICES ASSUME MoneyInv PROVE MoneyAddsUp
    OBVIOUS
  <2> DEFINE w == db["wallet"]
             c == SumFunctionOnSet(BonusAmount, w.credited)
             n == SumFunctionOnSet(Nets(db), Tickets)
             a == w.bonus + w.winnings + w.forfeited
  <2>1. RowsOK(db) /\ w \in WalletType
    BY DEF MoneyInv, BonusInv, BonusTypeOK, RowsOK
  <2>2. n \in Int /\ Worth(w) \in Int /\ Worth(w) + 0 = n
    BY <2>1, NetsType, WorthType DEF MoneyInv, AddsUp, NetSum
  <2>3. c \in Int
    BY <2>1, WorthType, SumFacts DEF WalletType
  <2>4. a \in Int
    BY <2>1 DEF WalletType
  <2>5. Worth(w) = a - c
    <3>1. w.bonus \in Int /\ w.winnings \in Int /\ w.forfeited \in Int
      BY <2>1 DEF WalletType
    <3> HIDE DEF w, n
    <3> QED
      BY <2>3, <3>1 DEF Worth
  <2>6. SumFunction([t \in Tickets |-> db[t].back - db[t].stake]) = n
    BY DEF SumFunction, SumFunctionOnSet, FoldFunction, FoldFunctionOnSet, Nets
  <2> HIDE DEF n, a, c
  <2>7. a = c + n
    BY <2>2, <2>3, <2>4, <2>5
  <2> QED
    BY <2>6, <2>7 DEF MoneyAddsUp, a, c
<1> QED
  BY <1>1, MoneyInvariance, PTL

-----------------------------------------------------------------------------
(* Waiting in circles.                                                     *)

(* In a finite set each of which waits for another of the set, a circle    *)
(* waits: a smallest such subset is one, since a member nobody waits for   *)
(* could be left out.                                                      *)
LEMMA SomeWaitInACircle ==
  ASSUME NEW S \in SUBSET Owners, S # {}, \A p \in S : \E q \in S : WaitsFor(p, q)
  PROVE  \E o \in Owners : InACircle(o)
<1> DEFINE Waiting == {T \in SUBSET S : T # {} /\ \A p \in T : \E q \in T : WaitsFor(p, q)}
           Sizes == {Cardinality(T) : T \in Waiting}
<1>1. IsFiniteSet(Owners)
  <2>1. IsFiniteSet(Tickets \union Bonuses)
    BY BonusAssumption, FS_Union
  <2> QED
    BY <2>1, BonusAssumption, FS_Union DEF Owners
<1>2. \A T \in SUBSET S : IsFiniteSet(T) /\ Cardinality(T) \in Nat
  BY <1>1, FS_Subset, FS_CardinalityType
<1>3. Sizes \in SUBSET Nat /\ Sizes # {}
  <2>1. S \in Waiting
    OBVIOUS
  <2> QED
    BY <2>1, <1>2
<1>4. PICK circle \in Waiting : \A T \in Waiting : ~(Cardinality(T) < Cardinality(circle))
  <2>1. PICK n \in Sizes : \A m \in Sizes : ~(m < n)
    BY <1>3, LeastOf
  <2> QED
    BY <2>1
<1>5. /\ circle \in SUBSET S /\ circle # {}
      /\ \A p \in circle : \E q \in circle : WaitsFor(p, q)
  BY <1>4
<1>6. ASSUME NEW p \in circle
      PROVE  \E q \in circle : WaitsFor(q, p)
  <2> SUFFICES ASSUME \A q \in circle : ~ WaitsFor(q, p) PROVE FALSE
    OBVIOUS
  <2> DEFINE rest == circle \ {p}
  <2>1. \A x \in rest : \E q \in rest : WaitsFor(x, q)
    BY <1>5
  <2>2. PICK q \in circle : WaitsFor(p, q)
    BY <1>5
  <2>3. q # p
    BY <2>2
  <2>4. rest \in Waiting
    BY <1>5, <2>1, <2>2, <2>3
  <2>5. IsFiniteSet(circle) /\ Cardinality(circle) \in Nat
    BY <1>2, <1>5
  <2>6. Cardinality(rest) = Cardinality(circle) - 1
    BY <2>5, FS_RemoveElement
  <2>7. Cardinality(rest) < Cardinality(circle)
    BY <2>5, <2>6
  <2> QED
    BY <1>4, <2>4, <2>7
<1>7. circle \in SUBSET {p \in Owners : \E q \in Owners : WaitsFor(p, q)}
  BY <1>5
<1>8. PICK o \in circle : TRUE
  BY <1>5
<1>9. InACircle(o) /\ o \in Owners
  BY <1>5, <1>6, <1>7, <1>8 DEF InACircle
<1> QED
  BY <1>9

(* Transactions never all wait for each other: one that is under way can   *)
(* go on, or waits in a circle that the database breaks.                   *)
THEOREM NobodyStandsStill == BonusSpec => []NoStandstill
<1>1. BonusInv => NoStandstill
  <2> SUFFICES ASSUME BonusInv, \E o \in Owners : job[o] # Idle,
                      \A o \in Owners : ~ MayGoOn(o)
               PROVE  \E o \in Owners : InACircle(o)
    BY DEF NoStandstill
  <2> DEFINE S == {o \in Owners : job[o].stage # "idle"}
  <2>1. S # {}
    BY DEF BonusInv, JobsOK
  <2>2. ASSUME NEW p \in S
        PROVE  \E q \in S : WaitsFor(p, q)
    <3>1. p \in Owners /\ job[p].stage # "idle"
      OBVIOUS
    <3>2. PICK r \in Wants(p) : ~ Free(p, r)
      BY <3>1 DEF MayGoOn
    <3>3. r \in Rows
      <4>1. CASE job[p].stage = "ticket" /\ job[p].todo # <<>>
        <5>1. p \in Settlers
          BY <3>1, <4>1, StagesAre, Apart DEF BonusInv, JobsOK
        <5>2. Current(p) \in Tickets
          BY <4>1, <5>1, CurrentIs DEF BonusInv
        <5>3. Wants(p) = {Current(p)}
          BY <4>1 DEF Wants
        <5> QED
          BY <3>2, <5>2, <5>3, Apart
      <4>2. CASE ~ (job[p].stage = "ticket" /\ job[p].todo # <<>>)
        <5>1. Wants(p) \in {{"wallet"}, {"rollover"}, {}}
          BY <4>2 DEF Wants
        <5> QED
          BY <3>2, <5>1, Apart
      <4> QED
        BY <4>1, <4>2
    <3>4. lock[r] # p /\ lock[r] \in Owners
      BY <3>2, <3>3 DEF Free, BonusInv, BonusTypeOK
    <3>5. job[lock[r]].stage # "idle"
      BY <3>3, <3>4, Apart DEF BonusInv, Holding
    <3>6. WaitsFor(p, lock[r])
      BY <3>2, <3>4 DEF WaitsFor
    <3> QED
      BY <3>4, <3>5, <3>6
  <2>3. S \in SUBSET Owners
    OBVIOUS
  <2> HIDE DEF S
  <2> QED
    BY <2>1, <2>2, <2>3, SomeWaitInACircle
<1> QED
  BY <1>1, BonusInvariance, PTL

=============================================================================
