------------------------------ MODULE SumLemmas ------------------------------
(***************************************************************************)
(* What the proofs need of sums over a finite set of indices: a sum is     *)
(* taken apart at any of its indices, whichever order the community        *)
(* modules' SumFunctionOnSet takes them in.  Each induction is on the size *)
(* of a set, as the absence of a smallest counterexample.                  *)
(***************************************************************************)
EXTENDS Functions, FiniteSetTheorems, WellFoundedInduction, TLAPS

Pick(s) == CHOOSE x \in s : TRUE

(* The recursive function a sum is the last value of.                      *)
IsSum(F, f, S) ==
  F = [s \in SUBSET S |-> IF s = {} THEN 0 ELSE f[Pick(s)] + F[s \ {Pick(s)}]]

SumUpTo(F, f, S, n) ==
  /\ F \in [SUBSET S -> Int]
  /\ F[{}] = 0
  /\ \A s \in SUBSET S : s # {} /\ Cardinality(s) <= n => F[s] = f[Pick(s)] + F[s \ {Pick(s)}]

AnyOrder(F, f, S) == \A s \in SUBSET S : \A c \in s : F[s] = f[c] + F[s \ {c}]

IsNumeric(f, S) == IsFiniteSet(S) /\ \A x \in S : f[x] \in Int

(* A sum is the last value of the function that adds one index at a time.  *)
LEMMA SumIsLast ==
  ASSUME NEW f, NEW S
  PROVE  SumFunctionOnSet(f, S) = (CHOOSE F : IsSum(F, f, S))[S]
BY DEF SumFunctionOnSet, FoldFunctionOnSet, MapThenFoldSet, IsSum, Pick

(* A set of numbers has a smallest one.                                    *)
LEMMA SmallestNumber ==
  ASSUME NEW N \in SUBSET Nat, N # {}
  PROVE  \E n \in N : \A m \in N : n <= m
<1>1. PICK n \in N : \A m \in N : <<m, n>> \notin OpToRel(<, Nat)
  BY NatLessThanWellFounded, WFMin
<1>2. ASSUME NEW m \in N, m < n PROVE FALSE
  <2>1. <<m, n>> \in Nat \X Nat /\ <<m, n>>[1] < <<m, n>>[2]
    BY <1>2
  <2>2. <<m, n>> \in OpToRel(<, Nat)
    BY <2>1 DEF OpToRel
  <2> QED BY <1>1, <2>2
<1> QED BY <1>2

(* A collection of subsets of a finite set has a member with fewest        *)
(* elements.                                                               *)
LEMMA SmallestSet ==
  ASSUME NEW S, IsFiniteSet(S), NEW C \in SUBSET SUBSET S, C # {}
  PROVE  \E s \in C : \A t \in C : Cardinality(s) <= Cardinality(t)
<1> DEFINE N == {Cardinality(s) : s \in C}
<1>1. \A s \in C : Cardinality(s) \in Nat
  BY FS_Subset, FS_CardinalityType
<1>2. N \in SUBSET Nat /\ N # {}
  BY <1>1
<1>3. PICK n \in N : \A m \in N : n <= m
  <2> HIDE DEF N
  <2> QED BY <1>2, SmallestNumber
<1>4. PICK s \in C : n = Cardinality(s)
  OBVIOUS
<1> QED BY <1>3, <1>4

(* An index out of a set leaves a smaller one.                             *)
LEMMA OneLess ==
  ASSUME NEW S, IsFiniteSet(S), NEW s \in SUBSET S, NEW x \in s
  PROVE  /\ s \ {x} \in SUBSET S
         /\ Cardinality(s) \in Nat
         /\ Cardinality(s \ {x}) \in Nat
         /\ Cardinality(s \ {x}) = Cardinality(s) - 1
<1>1. IsFiniteSet(s)
  BY FS_Subset
<1>2. IsFiniteSet(s \ {x}) /\ Cardinality(s \ {x}) = Cardinality(s) - 1
  BY <1>1, FS_RemoveElement
<1> QED BY <1>1, <1>2, FS_CardinalityType

(* A set that is not empty has a picked element.                           *)
LEMMA Picked ==
  ASSUME NEW s, s # {}
  PROVE  Pick(s) \in s
BY DEF Pick

(* The adding function can be taken one size further.                      *)
LEMMA SumOneMore ==
  ASSUME NEW f, NEW S, IsNumeric(f, S), NEW n \in Nat, NEW F, SumUpTo(F, f, S, n)
  PROVE  \E G : SumUpTo(G, f, S, n + 1)
<1> DEFINE G == [s \in SUBSET S |-> IF Cardinality(s) <= n THEN F[s] ELSE f[Pick(s)] + F[s \ {Pick(s)}]]
<1>0. IsFiniteSet(S)
  BY DEF IsNumeric
<1>1. \A s \in SUBSET S : s # {} =>
        /\ Pick(s) \in S
        /\ s \ {Pick(s)} \in SUBSET S
        /\ Cardinality(s) \in Nat
        /\ Cardinality(s \ {Pick(s)}) = Cardinality(s) - 1
  BY <1>0, Picked, OneLess
<1>2. Cardinality({}) = 0
  BY FS_EmptySet
<1>3. G \in [SUBSET S -> Int]
  <2>1. ASSUME NEW s \in SUBSET S PROVE G[s] \in Int
    <3>1. CASE Cardinality(s) <= n
      BY <3>1 DEF SumUpTo
    <3>2. CASE ~(Cardinality(s) <= n)
      <4>1. s # {}
        BY <3>2, <1>2
      <4> QED BY <4>1, <3>2, <1>1 DEF SumUpTo, IsNumeric
    <3> QED BY <3>1, <3>2
  <2> QED BY <2>1
<1>4. G[{}] = 0
  BY <1>2 DEF SumUpTo
<1>5. ASSUME NEW s \in SUBSET S, s # {}, Cardinality(s) <= n + 1
      PROVE  G[s] = f[Pick(s)] + G[s \ {Pick(s)}]
  <2>1. Cardinality(s \ {Pick(s)}) <= n
    BY <1>1, <1>5
  <2>2. G[s \ {Pick(s)}] = F[s \ {Pick(s)}]
    BY <2>1, <1>1, <1>5
  <2>3. G[s] = f[Pick(s)] + F[s \ {Pick(s)}]
    BY <1>5 DEF SumUpTo
  <2> QED BY <2>2, <2>3
<1>6. SumUpTo(G, f, S, n + 1)
  <2> HIDE DEF G
  <2> QED BY <1>3, <1>4, <1>5 DEF SumUpTo
<1> QED BY <1>6

(* There is a function that adds all the way.                              *)
LEMMA SumExists ==
  ASSUME NEW f, NEW S, IsNumeric(f, S)
  PROVE  \E F : IsSum(F, f, S) /\ F \in [SUBSET S -> Int]
<1> DEFINE Bad == {n \in Nat : ~\E F : SumUpTo(F, f, S, n)}
<1>0. IsFiniteSet(S)
  BY DEF IsNumeric
<1>1. ASSUME Bad # {} PROVE FALSE
  <2>1. PICK n \in Bad : \A m \in Bad : n <= m
    <3>1. Bad \in SUBSET Nat
      OBVIOUS
    <3> HIDE DEF Bad
    <3> QED BY <1>1, <3>1, SmallestNumber
  <2>2. CASE n = 0
    <3> DEFINE Z == [s \in SUBSET S |-> 0]
    <3>1. \A s \in SUBSET S : s # {} => ~(Cardinality(s) <= 0)
      <4>1. ASSUME NEW s \in SUBSET S, s # {}, Cardinality(s) <= 0 PROVE FALSE
        <5>1. IsFiniteSet(s) /\ Cardinality(s) \in Nat
          BY <1>0, FS_Subset, FS_CardinalityType
        <5>2. Cardinality(s) = 0
          BY <5>1, <4>1
        <5> QED BY <5>1, <5>2, <4>1, FS_EmptySet
      <4> QED BY <4>1
    <3>2. SumUpTo(Z, f, S, 0)
      BY <3>1 DEF SumUpTo
    <3> QED BY <2>2, <3>2
  <2>3. CASE n # 0
    <3>1. n - 1 \in Nat /\ ~(n <= n - 1)
      BY <2>3
    <3>2. n - 1 \notin Bad
      BY <3>1, <2>1
    <3>3. PICK F : SumUpTo(F, f, S, n - 1)
      BY <3>1, <3>2
    <3>4. \E G : SumUpTo(G, f, S, n - 1 + 1)
      BY <3>1, <3>3, SumOneMore
    <3>5. n - 1 + 1 = n
      BY <3>1
    <3> QED BY <3>4, <3>5
  <2> QED BY <2>2, <2>3
<1>2. Cardinality(S) \in Nat
  BY <1>0, FS_CardinalityType
<1>3. PICK F : SumUpTo(F, f, S, Cardinality(S))
  BY <1>1, <1>2
<1>4. \A s \in SUBSET S : Cardinality(s) <= Cardinality(S)
  BY <1>0, FS_Subset
<1>5. IsSum(F, f, S)
  <2>1. \A s \in SUBSET S : F[s] = IF s = {} THEN 0 ELSE f[Pick(s)] + F[s \ {Pick(s)}]
    BY <1>3, <1>4 DEF SumUpTo
  <2>2. F = [s \in SUBSET S |-> F[s]]
    BY <1>3 DEF SumUpTo
  <2> QED BY <2>1, <2>2 DEF IsSum
<1> QED BY <1>3, <1>5 DEF SumUpTo

(* What the adding function says of each subset.                           *)
LEMMA SumStep ==
  ASSUME NEW f, NEW S, NEW F, IsSum(F, f, S), NEW s \in SUBSET S
  PROVE  F[s] = IF s = {} THEN 0 ELSE f[Pick(s)] + F[s \ {Pick(s)}]
<1> DEFINE G == [t \in SUBSET S |-> IF t = {} THEN 0 ELSE f[Pick(t)] + F[t \ {Pick(t)}]]
<1>1. F = G
  BY DEF IsSum
<1>2. F[s] = G[s]
  <2> HIDE DEF G
  <2> QED BY <1>1
<1>3. G[s] = IF s = {} THEN 0 ELSE f[Pick(s)] + F[s \ {Pick(s)}]
  OBVIOUS
<1> QED BY <1>2, <1>3

(* The sum over a subset does not depend on the set it is taken from, nor  *)
(* on what is not summed.                                                  *)
LEMMA SumUnique ==
  ASSUME NEW f, NEW S, IsFiniteSet(S), NEW F, IsSum(F, f, S),
         NEW g, NEW T \in SUBSET S, NEW G, IsSum(G, g, T), \A x \in T : f[x] = g[x]
  PROVE  \A s \in SUBSET T : F[s] = G[s]
<1> DEFINE Bad == {s \in SUBSET T : F[s] # G[s]}
<1>0. IsFiniteSet(T)
  BY FS_Subset
<1>1. ASSUME Bad # {} PROVE FALSE
  <2>1. PICK s \in Bad : \A t \in Bad : Cardinality(s) <= Cardinality(t)
    <3>1. Bad \in SUBSET SUBSET T
      OBVIOUS
    <3> HIDE DEF Bad
    <3> QED BY <1>0, <1>1, <3>1, SmallestSet
  <2>2. s \in SUBSET T /\ s \in SUBSET S
    OBVIOUS
  <2>3. F[s] = IF s = {} THEN 0 ELSE f[Pick(s)] + F[s \ {Pick(s)}]
    BY <2>2, SumStep
  <2>4. G[s] = IF s = {} THEN 0 ELSE g[Pick(s)] + G[s \ {Pick(s)}]
    BY <2>2, SumStep
  <2>5. s # {}
    BY <2>3, <2>4
  <2>6. Pick(s) \in s /\ Pick(s) \in T
    BY <2>5, <2>2, Picked
  <2>7. s \ {Pick(s)} \notin Bad
    <3>1. Cardinality(s) \in Nat /\ Cardinality(s \ {Pick(s)}) = Cardinality(s) - 1
      BY <1>0, <2>2, <2>6, OneLess
    <3>2. ~(Cardinality(s) <= Cardinality(s \ {Pick(s)}))
      BY <3>1
    <3> QED BY <3>2, <2>1
  <2>8. F[s \ {Pick(s)}] = G[s \ {Pick(s)}]
    BY <2>7, <2>2
  <2> QED BY <2>3, <2>4, <2>5, <2>6, <2>8
<1> QED BY <1>1

(* A sum can be taken apart at any index.                                  *)
LEMMA SumAnyOrder ==
  ASSUME NEW f, NEW S, IsNumeric(f, S), NEW F \in [SUBSET S -> Int], IsSum(F, f, S)
  PROVE  AnyOrder(F, f, S)
<1> DEFINE Bad == {s \in SUBSET S : \E c \in s : F[s] # f[c] + F[s \ {c}]}
<1>0. IsFiniteSet(S) /\ \A x \in S : f[x] \in Int
  BY DEF IsNumeric
<1>1. ASSUME Bad # {} PROVE FALSE
  <2>1. PICK s \in Bad : \A t \in Bad : Cardinality(s) <= Cardinality(t)
    <3>1. Bad \in SUBSET SUBSET S
      OBVIOUS
    <3> HIDE DEF Bad
    <3> QED BY <1>0, <1>1, <3>1, SmallestSet
  <2>2. PICK c \in s : F[s] # f[c] + F[s \ {c}]
    OBVIOUS
  <2> DEFINE x == Pick(s)
  <2>3. s \in SUBSET S /\ s # {} /\ x \in s
    BY <2>2, Picked
  <2>4. F[s] = f[x] + F[s \ {x}]
    BY <2>3, SumStep
  <2>5. c # x
    BY <2>2, <2>4
  <2> HIDE DEF x
  <2>6. \A y \in s : s \ {y} \in SUBSET S /\ s \ {y} \notin Bad
    <3>1. ASSUME NEW y \in s PROVE s \ {y} \in SUBSET S /\ ~(Cardinality(s) <= Cardinality(s \ {y}))
      BY <1>0, <2>3, OneLess
    <3> HIDE DEF Bad
    <3> QED BY <3>1, <2>1
  <2>7. F[s \ {x}] = f[c] + F[(s \ {x}) \ {c}]
    BY <2>6, <2>5, <2>3, <2>2
  <2>8. F[s \ {c}] = f[x] + F[(s \ {c}) \ {x}]
    BY <2>6, <2>5, <2>3, <2>2
  <2>9. (s \ {x}) \ {c} = (s \ {c}) \ {x} /\ (s \ {c}) \ {x} \in SUBSET S
    BY <2>3
  <2>10. f[x] \in Int /\ f[c] \in Int /\ F[(s \ {c}) \ {x}] \in Int
    BY <1>0, <2>2, <2>3, <2>9
  <2> DEFINE rest == F[(s \ {c}) \ {x}]
  <2>11. F[s] = f[x] + (f[c] + rest) /\ F[s \ {c}] = f[x] + rest
    BY <2>4, <2>7, <2>8, <2>9
  <2>12. rest \in Int
    BY <2>10
  <2> HIDE DEF rest
  <2>13. f[x] + (f[c] + rest) = f[c] + (f[x] + rest)
    BY <2>10, <2>12
  <2> QED BY <2>2, <2>11, <2>13
<1> QED BY <1>1 DEF AnyOrder

(* The function a sum is the last value of, for every finite set of        *)
(* numbers.                                                                *)
LEMMA SumFunctionIs ==
  ASSUME NEW f, NEW S, IsNumeric(f, S)
  PROVE  \E F \in [SUBSET S -> Int] : IsSum(F, f, S) /\ SumFunctionOnSet(f, S) = F[S]
<1>1. PICK G : IsSum(G, f, S) /\ G \in [SUBSET S -> Int]
  BY SumExists
<1> DEFINE F == CHOOSE F : IsSum(F, f, S)
<1>2. IsSum(F, f, S)
  BY <1>1
<1> HIDE DEF F
<1>3. IsFiniteSet(S)
  BY DEF IsNumeric
<1>4. \A s \in SUBSET S : F[s] = G[s]
  BY <1>1, <1>2, <1>3, SumUnique
<1>5. F \in [SUBSET S -> Int]
  <2>1. F = [s \in SUBSET S |-> F[s]]
    BY <1>2 DEF IsSum
  <2> QED BY <2>1, <1>4, <1>1
<1>6. SumFunctionOnSet(f, S) = F[S]
  BY SumIsLast DEF F
<1> QED BY <1>2, <1>5, <1>6

-----------------------------------------------------------------------------
(* What is cited elsewhere.                                                *)

(* A sum of numbers is a number.                                           *)
LEMMA SumInt ==
  ASSUME NEW f, NEW S, IsNumeric(f, S)
  PROVE  SumFunctionOnSet(f, S) \in Int
<1>1. PICK F \in [SUBSET S -> Int] : SumFunctionOnSet(f, S) = F[S]
  BY SumFunctionIs
<1>2. S \in SUBSET S
  OBVIOUS
<1> QED BY <1>1, <1>2

(* A sum over nothing is nothing.                                          *)
LEMMA SumNone ==
  ASSUME NEW f
  PROVE  SumFunctionOnSet(f, {}) = 0
<1>1. IsNumeric(f, {})
  BY FS_EmptySet DEF IsNumeric
<1>2. PICK F \in [SUBSET {} -> Int] : IsSum(F, f, {}) /\ SumFunctionOnSet(f, {}) = F[{}]
  BY <1>1, SumFunctionIs
<1>3. {} \in SUBSET {}
  OBVIOUS
<1> QED BY <1>2, <1>3, SumStep

(* A sum only depends on what is summed.                                   *)
LEMMA SumSame ==
  ASSUME NEW f, NEW g, NEW S, IsNumeric(f, S), \A x \in S : f[x] = g[x]
  PROVE  SumFunctionOnSet(f, S) = SumFunctionOnSet(g, S)
<1>1. IsNumeric(g, S) /\ IsFiniteSet(S)
  BY DEF IsNumeric
<1>2. PICK F \in [SUBSET S -> Int] : IsSum(F, f, S) /\ SumFunctionOnSet(f, S) = F[S]
  BY SumFunctionIs
<1>3. PICK G \in [SUBSET S -> Int] : IsSum(G, g, S) /\ SumFunctionOnSet(g, S) = G[S]
  BY <1>1, SumFunctionIs
<1>4. \A s \in SUBSET S : F[s] = G[s]
  BY <1>1, <1>2, <1>3, SumUnique
<1> QED BY <1>2, <1>3, <1>4

(* One index is taken out of a sum.                                        *)
LEMMA SumOut ==
  ASSUME NEW f, NEW S, IsNumeric(f, S), NEW c \in S
  PROVE  /\ IsNumeric(f, S \ {c})
         /\ f[c] \in Int
         /\ SumFunctionOnSet(f, S) = f[c] + SumFunctionOnSet(f, S \ {c})
<1>0. IsFiniteSet(S) /\ \A x \in S : f[x] \in Int
  BY DEF IsNumeric
<1>1. IsNumeric(f, S \ {c}) /\ S \ {c} \in SUBSET S
  BY <1>0, FS_Subset DEF IsNumeric
<1>2. PICK F \in [SUBSET S -> Int] : IsSum(F, f, S) /\ SumFunctionOnSet(f, S) = F[S]
  BY SumFunctionIs
<1>3. PICK G \in [SUBSET (S \ {c}) -> Int] : IsSum(G, f, S \ {c}) /\ SumFunctionOnSet(f, S \ {c}) = G[S \ {c}]
  BY <1>1, SumFunctionIs
<1>4. F[S \ {c}] = G[S \ {c}]
  <2>1. \A s \in SUBSET (S \ {c}) : F[s] = G[s]
    BY <1>0, <1>1, <1>2, <1>3, SumUnique
  <2> QED BY <2>1
<1>5. F[S] = f[c] + F[S \ {c}]
  <2>1. AnyOrder(F, f, S)
    BY <1>2, SumAnyOrder
  <2>2. S \in SUBSET S
    OBVIOUS
  <2> QED BY <2>1, <2>2 DEF AnyOrder
<1> QED BY <1>0, <1>1, <1>2, <1>3, <1>4, <1>5

(* One index more.                                                         *)
LEMMA SumWith ==
  ASSUME NEW f, NEW S, IsNumeric(f, S), NEW c, c \notin S, f[c] \in Int
  PROVE  /\ IsNumeric(f, S \union {c})
         /\ SumFunctionOnSet(f, S \union {c}) = f[c] + SumFunctionOnSet(f, S)
<1>1. IsNumeric(f, S \union {c})
  BY FS_AddElement DEF IsNumeric
<1>2. (S \union {c}) \ {c} = S
  OBVIOUS
<1> QED BY <1>1, <1>2, SumOut

(* Where nothing summed is negative, neither is the sum.                   *)
LEMMA SumNat ==
  ASSUME NEW f, NEW S, IsFiniteSet(S), \A x \in S : f[x] \in Nat
  PROVE  SumFunctionOnSet(f, S) \in Nat
<1> DEFINE Bad == {s \in SUBSET S : SumFunctionOnSet(f, s) \notin Nat}
<1>1. \A s \in SUBSET S : IsNumeric(f, s)
  BY FS_Subset DEF IsNumeric
<1>2. ASSUME Bad # {} PROVE FALSE
  <2>1. PICK s \in Bad : \A t \in Bad : Cardinality(s) <= Cardinality(t)
    <3>1. Bad \in SUBSET SUBSET S
      OBVIOUS
    <3> HIDE DEF Bad
    <3> QED BY <1>2, <3>1, SmallestSet
  <2>2. s \in SUBSET S /\ SumFunctionOnSet(f, s) \notin Nat
    OBVIOUS
  <2>3. PICK c \in s : TRUE
    BY <2>2, SumNone
  <2>4. s \ {c} \in SUBSET S /\ ~(Cardinality(s) <= Cardinality(s \ {c}))
    BY <2>2, OneLess
  <2>5. SumFunctionOnSet(f, s \ {c}) \in Nat
    <3>1. s \ {c} \notin Bad
      <4> HIDE DEF Bad
      <4> QED BY <2>1, <2>4
    <3> QED BY <2>4, <3>1
  <2>6. SumFunctionOnSet(f, s) = f[c] + SumFunctionOnSet(f, s \ {c})
    BY <1>1, <2>2, SumOut
  <2>7. f[c] \in Nat
    BY <2>2
  <2> QED BY <2>2, <2>5, <2>6, <2>7
<1> QED BY <1>2

(* A function that is nowhere above another has no greater a sum.          *)
LEMMA SumMonotone ==
  ASSUME NEW f, NEW g, NEW S, IsNumeric(f, S), IsNumeric(g, S), \A x \in S : f[x] <= g[x]
  PROVE  SumFunctionOnSet(f, S) <= SumFunctionOnSet(g, S)
<1> DEFINE Bad == {s \in SUBSET S : ~(SumFunctionOnSet(f, s) <= SumFunctionOnSet(g, s))}
<1>1. \A s \in SUBSET S : IsNumeric(f, s) /\ IsNumeric(g, s)
  BY FS_Subset DEF IsNumeric
<1>2. ASSUME Bad # {} PROVE FALSE
  <2>1. PICK s \in Bad : \A t \in Bad : Cardinality(s) <= Cardinality(t)
    <3>1. Bad \in SUBSET SUBSET S /\ IsFiniteSet(S)
      BY DEF IsNumeric
    <3> HIDE DEF Bad
    <3> QED BY <1>2, <3>1, SmallestSet
  <2>2. s \in SUBSET S /\ ~(SumFunctionOnSet(f, s) <= SumFunctionOnSet(g, s))
    OBVIOUS
  <2>3. PICK c \in s : TRUE
    BY <2>2, SumNone
  <2>4. s \ {c} \in SUBSET S /\ ~(Cardinality(s) <= Cardinality(s \ {c}))
    BY <2>2, OneLess DEF IsNumeric
  <2>5. SumFunctionOnSet(f, s \ {c}) <= SumFunctionOnSet(g, s \ {c})
    <3>1. s \ {c} \notin Bad
      <4> HIDE DEF Bad
      <4> QED BY <2>1, <2>4
    <3> QED BY <2>4, <3>1
  <2>6. /\ SumFunctionOnSet(f, s) = f[c] + SumFunctionOnSet(f, s \ {c})
        /\ SumFunctionOnSet(g, s) = g[c] + SumFunctionOnSet(g, s \ {c})
    BY <1>1, <2>2, SumOut
  <2>7. f[c] \in Int /\ g[c] \in Int /\ f[c] <= g[c]
    BY <2>2 DEF IsNumeric
  <2>8. SumFunctionOnSet(f, s \ {c}) \in Int /\ SumFunctionOnSet(g, s \ {c}) \in Int
    BY <1>1, <2>4, SumInt
  <2> QED BY <2>2, <2>5, <2>6, <2>7, <2>8
<1> QED BY <1>2

(* Zeros sum to zero.                                                      *)
LEMMA SumZero ==
  ASSUME NEW f, NEW S, IsFiniteSet(S), \A x \in S : f[x] = 0
  PROVE  SumFunctionOnSet(f, S) = 0
<1> DEFINE Bad == {s \in SUBSET S : SumFunctionOnSet(f, s) # 0}
<1>1. \A s \in SUBSET S : IsNumeric(f, s)
  BY FS_Subset DEF IsNumeric
<1>2. ASSUME Bad # {} PROVE FALSE
  <2>1. PICK s \in Bad : \A t \in Bad : Cardinality(s) <= Cardinality(t)
    <3>1. Bad \in SUBSET SUBSET S
      OBVIOUS
    <3> HIDE DEF Bad
    <3> QED BY <1>2, <3>1, SmallestSet
  <2>2. s \in SUBSET S /\ SumFunctionOnSet(f, s) # 0
    OBVIOUS
  <2>3. PICK c \in s : TRUE
    BY <2>2, SumNone
  <2>4. s \ {c} \in SUBSET S /\ ~(Cardinality(s) <= Cardinality(s \ {c}))
    BY <2>2, OneLess
  <2>5. SumFunctionOnSet(f, s \ {c}) = 0
    <3>1. s \ {c} \notin Bad
      <4> HIDE DEF Bad
      <4> QED BY <2>1, <2>4
    <3> QED BY <2>4, <3>1
  <2>6. SumFunctionOnSet(f, s) = f[c] + SumFunctionOnSet(f, s \ {c})
    BY <1>1, <2>2, SumOut
  <2> QED BY <2>2, <2>5, <2>6
<1> QED BY <1>2

(* A function that changes at one point changes its sum by as much.        *)
LEMMA SumUpdate ==
  ASSUME NEW S, IsFiniteSet(S), NEW f \in [S -> Int], NEW c \in S, NEW a \in Int
  PROVE  /\ SumFunction(f) \in Int
         /\ SumFunction([f EXCEPT ![c] = a]) = SumFunction(f) - f[c] + a
<1> DEFINE g == [f EXCEPT ![c] = a]
<1>1. g \in [S -> Int] /\ g[c] = a /\ \A x \in S \ {c} : f[x] = g[x]
  OBVIOUS
<1>2. IsNumeric(f, S) /\ IsNumeric(g, S)
  <2> HIDE DEF g
  <2> QED BY <1>1 DEF IsNumeric
<1> HIDE DEF g
<1>3. SumFunction(f) = SumFunctionOnSet(f, S) /\ SumFunction(g) = SumFunctionOnSet(g, S)
  BY <1>1 DEF SumFunction
<1>4. /\ SumFunctionOnSet(f, S) = f[c] + SumFunctionOnSet(f, S \ {c})
      /\ SumFunctionOnSet(g, S) = g[c] + SumFunctionOnSet(g, S \ {c})
      /\ IsNumeric(f, S \ {c})
      /\ f[c] \in Int
  BY <1>2, SumOut
<1>5. SumFunctionOnSet(f, S \ {c}) = SumFunctionOnSet(g, S \ {c})
  BY <1>1, <1>4, SumSame
<1>6. SumFunctionOnSet(f, S \ {c}) \in Int
  BY <1>4, SumInt
<1>7. SumFunction(g) = SumFunction(f) - f[c] + a /\ SumFunction(f) \in Int
  BY <1>1, <1>3, <1>4, <1>5, <1>6
<1> QED BY <1>7 DEF g
=============================================================================
