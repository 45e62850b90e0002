----------------------------- MODULE FiniteSums -----------------------------
(* Lemmas about finite sets for the proofs of the components: the smallest   *)
(* member of a set of sets or numbers, sums over a set in any order, and     *)
(* counting a set by its parts. None of them mentions the system.            *)
EXTENDS Integers, FiniteSets, TLAPS, FiniteSetTheorems

---------------------------------------------------------------------------
(* Sums over finite sets. MapThenSumSet unfolds to a recursive function; its *)
(* equation, its type, its independence of the order and its growth follow   *)
(* from the well-foundedness of the subset ordering.                         *)

AnyOf(s) == CHOOSE x \in s : TRUE
SumFn(F, S) ==
  CHOOSE f : f = [s \in SUBSET S |->
                    IF s = {} THEN 0 ELSE F[AnyOf(s)] + f[s \ {AnyOf(s)}]]
SumOf(F, S) == SumFn(F, S)[S]

\* a set of finite subsets has one of which no proper subset is in the set
LEMMA SmallestSubset ==
  ASSUME NEW S, IsFiniteSet(S), NEW B \in SUBSET SUBSET S, B # {}
  PROVE  \E T \in B : \A U \in B : U \subseteq T => U = T
<1> DEFINE R == StrictSubsetOrdering(S)
<1>1. IsWellFoundedOn(R, SUBSET S)
  BY FS_StrictSubsetOrderingWellFounded, FS_FiniteSubsetsOfFinite
<1>2. \E T \in B : \A U \in B : ~(<<U, T>> \in R)
  BY <1>1, WFMin
<1> QED BY <1>2 DEF StrictSubsetOrdering

LEMMA SmallestNumber ==
  ASSUME NEW B \in SUBSET Nat, B # {}
  PROVE  \E n \in B : \A m \in B : n <= m
<1>1. PICK b \in B : TRUE
  OBVIOUS
<1> DEFINE C == {1 .. m : m \in {x \in B : x <= b}}
<1>2. IsFiniteSet(1 .. b)
  BY FS_Interval
<1>3. C \in SUBSET SUBSET (1 .. b) /\ C # {}
  OBVIOUS
<1>4. PICK T \in C : \A U \in C : U \subseteq T => U = T
  <2> DEFINE I == 1 .. b
  <2>1. IsFiniteSet(I) /\ C \in SUBSET SUBSET I /\ C # {}
    BY <1>2, <1>3
  <2> HIDE DEF C, I
  <2> QED BY <2>1, SmallestSubset
<1>5. PICK n \in B : n <= b /\ T = 1 .. n
  BY <1>4
<1>6. ASSUME NEW m \in B, m < n PROVE FALSE
  <2>1. 1 .. m \in C /\ 1 .. m \subseteq 1 .. n
    BY <1>5, <1>6
  <2>2. 1 .. m = 1 .. n
    BY <1>4, <1>5, <2>1
  <2>3. n \in 1 .. n /\ n \notin 1 .. m
    BY <1>6
  <2> QED BY <2>2, <2>3
<1> QED BY <1>5, <1>6

LEMMA SumFnExists ==
  ASSUME NEW F, NEW S, IsFiniteSet(S)
  PROVE  \A s \in SUBSET S :
           SumFn(F, S)[s] = IF s = {} THEN 0
                            ELSE F[AnyOf(s)] + SumFn(F, S)[s \ {AnyOf(s)}]
<1> DEFINE Sub(n) == {s \in SUBSET S : Cardinality(s) <= n}
           Body(f, s) == IF s = {} THEN 0 ELSE F[AnyOf(s)] + f[s \ {AnyOf(s)}]
           Stuck == {n \in Nat : ~\E f : f = [s \in Sub(n) |-> Body(f, s)]}
<1>0. \A s \in SUBSET S : IsFiniteSet(s) /\ Cardinality(s) \in Nat
  BY FS_Subset, FS_CardinalityType
<1>1. Stuck = {}
  <2> SUFFICES ASSUME Stuck # {} PROVE FALSE
    OBVIOUS
  <2>1. PICK n \in Stuck : \A m \in Stuck : n <= m
    <3>1. Stuck \in SUBSET Nat
      OBVIOUS
    <3> HIDE DEF Stuck
    <3> QED BY <3>1, SmallestNumber
  <2>2. n # 0
    <3> DEFINE z == [s \in Sub(0) |-> 0]
    <3>1. \A s \in Sub(0) : s = {}
      BY <1>0, FS_EmptySet
    <3>2. z = [s \in Sub(0) |-> Body(z, s)]
      BY <3>1
    <3> HIDE DEF z, Body, Sub
    <3> QED BY <3>2, <2>1
  <2>3. n \in Nat /\ n - 1 \in Nat /\ n - 1 \notin Stuck
    <3>1. n \in Nat
      BY <2>1
    <3> HIDE DEF Stuck
    <3> QED BY <2>1, <2>2, <3>1
  <2>4. PICK f : f = [s \in Sub(n - 1) |-> Body(f, s)]
    BY <2>3
  <2> DEFINE g == [s \in Sub(n) |-> Body(f, s)]
  <2>5. ASSUME NEW s \in Sub(n) PROVE Body(f, s) = Body(g, s)
    <3> SUFFICES ASSUME s # {} PROVE f[s \ {AnyOf(s)}] = g[s \ {AnyOf(s)}]
      OBVIOUS
    <3>1. AnyOf(s) \in s
      BY DEF AnyOf
    <3>2. Cardinality(s \ {AnyOf(s)}) = Cardinality(s) - 1
      BY <1>0, <3>1, FS_RemoveElement
    <3>3. s \ {AnyOf(s)} \in Sub(n - 1) /\ s \ {AnyOf(s)} \in Sub(n)
      BY <3>2, <2>3, <1>0
    <3> QED BY <2>4, <3>3
  <2>6. g = [s \in Sub(n) |-> Body(g, s)]
    BY <2>5
  <2> HIDE DEF g, Body, Sub
  <2> QED BY <2>1, <2>6
<1>2. Cardinality(S) \notin Stuck /\ Cardinality(S) \in Nat
  BY <1>1, FS_CardinalityType
<1>3. \E f : f = [s \in Sub(Cardinality(S)) |-> Body(f, s)]
  BY <1>2
<1>4. Sub(Cardinality(S)) = SUBSET S
  BY FS_Subset
<1>5. \E f : f = [s \in SUBSET S |-> Body(f, s)]
  BY <1>3, <1>4
<1>6. SumFn(F, S) = [s \in SUBSET S |-> Body(SumFn(F, S), s)]
  BY <1>5, Zenon DEF SumFn
<1> DEFINE f == SumFn(F, S)
<1>7. f = [s \in SUBSET S |-> Body(f, s)]
  BY <1>6
<1> HIDE DEF f
<1>8. \A s \in SUBSET S : f[s] = Body(f, s)
  BY <1>7
<1> QED BY <1>8 DEF f

LEMMA SumEmpty == \A F : SumOf(F, {}) = 0
<1> TAKE F
<1>1. IsFiniteSet({})
  BY FS_EmptySet
<1> QED BY <1>1, SumFnExists DEF SumOf

\* the sum of a subset does not depend on the set it is a subset of
LEMMA SumOfSubset ==
  ASSUME NEW F, NEW S, IsFiniteSet(S), NEW T \in SUBSET S
  PROVE  SumFn(F, S)[T] = SumOf(F, T)
<1> DEFINE f == SumFn(F, S)
           g == SumFn(F, T)
           Body(h, s) == IF s = {} THEN 0 ELSE F[AnyOf(s)] + h[s \ {AnyOf(s)}]
           Apart == {s \in SUBSET T : f[s] # g[s]}
<1>1. IsFiniteSet(T)
  BY FS_Subset
<1>2. /\ \A s \in SUBSET S : f[s] = Body(f, s)
      /\ \A s \in SUBSET T : g[s] = Body(g, s)
  <2>1. \A s \in SUBSET S : f[s] = Body(f, s)
    BY SumFnExists
  <2>2. \A s \in SUBSET T : g[s] = Body(g, s)
    BY <1>1, SumFnExists
  <2> QED BY <2>1, <2>2
<1> HIDE DEF f, g
<1>3. SUFFICES ASSUME Apart # {} PROVE FALSE
  BY DEF SumOf, f, g
<1>4. PICK U \in Apart : \A V \in Apart : V \subseteq U => V = U
  <2>1. Apart \in SUBSET SUBSET T
    OBVIOUS
  <2> HIDE DEF Apart
  <2> QED BY <1>1, <1>3, <2>1, SmallestSubset
<1>5. U # {}
  BY <1>2, <1>4
<1>6. AnyOf(U) \in U
  BY <1>5 DEF AnyOf
<1>7. f[U \ {AnyOf(U)}] = g[U \ {AnyOf(U)}]
  BY <1>4, <1>6
<1> QED BY <1>2, <1>4, <1>5, <1>7

LEMMA SumFirst ==
  ASSUME NEW F, NEW S, IsFiniteSet(S), S # {}
  PROVE  AnyOf(S) \in S /\ SumOf(F, S) = F[AnyOf(S)] + SumOf(F, S \ {AnyOf(S)})
<1>1. AnyOf(S) \in S
  BY DEF AnyOf
<1>2. SumFn(F, S)[S] = F[AnyOf(S)] + SumFn(F, S)[S \ {AnyOf(S)}]
  BY SumFnExists
<1> QED BY <1>1, <1>2, SumOfSubset DEF SumOf

LEMMA SumType ==
  ASSUME NEW F, NEW S, IsFiniteSet(S), \A x \in S : F[x] \in Nat
  PROVE  SumOf(F, S) \in Nat
<1> DEFINE Bad == {T \in SUBSET S : SumOf(F, T) \notin Nat}
<1>1. SUFFICES ASSUME Bad # {} PROVE FALSE
  OBVIOUS
<1>2. PICK T \in Bad : \A U \in Bad : U \subseteq T => U = T
  <2>1. Bad \in SUBSET SUBSET S
    OBVIOUS
  <2> HIDE DEF Bad
  <2> QED BY <1>1, <2>1, SmallestSubset
<1>3. T # {} /\ IsFiniteSet(T)
  <2>1. IsFiniteSet(T)
    BY <1>2, FS_Subset
  <2>2. SumOf(F, {}) \in Nat
    BY SumEmpty
  <2> QED BY <1>2, <2>1, <2>2
<1>4. AnyOf(T) \in T /\ SumOf(F, T) = F[AnyOf(T)] + SumOf(F, T \ {AnyOf(T)})
  BY <1>3, SumFirst
<1>5. SumOf(F, T \ {AnyOf(T)}) \in Nat
  BY <1>2, <1>4
<1> QED BY <1>2, <1>4, <1>5

\* the order of the summands does not matter
LEMMA SumRemove ==
  ASSUME NEW F, NEW S, IsFiniteSet(S), \A x \in S : F[x] \in Nat, NEW y \in S
  PROVE  SumOf(F, S) = F[y] + SumOf(F, S \ {y})
<1> DEFINE Bad == {T \in SUBSET S : \E x \in T : SumOf(F, T) # F[x] + SumOf(F, T \ {x})}
<1>1. SUFFICES ASSUME Bad # {} PROVE FALSE
  OBVIOUS
<1>2. PICK T \in Bad : \A U \in Bad : U \subseteq T => U = T
  <2>1. Bad \in SUBSET SUBSET S
    OBVIOUS
  <2> HIDE DEF Bad
  <2> QED BY <1>1, <2>1, SmallestSubset
<1>3. PICK x \in T : SumOf(F, T) # F[x] + SumOf(F, T \ {x})
  BY <1>2
<1>4. PICK p \in T : p = AnyOf(T) /\ SumOf(F, T) = F[p] + SumOf(F, T \ {p})
  BY <1>2, <1>3, SumFirst, FS_Subset
<1>5. p # x
  BY <1>3, <1>4
<1>6. T \ {p} \notin Bad /\ T \ {x} \notin Bad
  BY <1>2, <1>3, <1>4
<1>7. /\ SumOf(F, T \ {p}) = F[x] + SumOf(F, (T \ {p}) \ {x})
      /\ SumOf(F, T \ {x}) = F[p] + SumOf(F, (T \ {x}) \ {p})
  BY <1>2, <1>3, <1>4, <1>5, <1>6
<1>8. (T \ {p}) \ {x} = (T \ {x}) \ {p}
  OBVIOUS
<1>9. SumOf(F, (T \ {x}) \ {p}) \in Nat
  BY <1>2, SumType, FS_Subset
<1>10. F[x] \in Nat /\ F[p] \in Nat
  BY <1>2, <1>3, <1>4
<1> HIDE DEF Bad
<1> QED BY <1>3, <1>4, <1>7, <1>8, <1>9, <1>10

LEMMA SumAdd ==
  ASSUME NEW F, NEW S, IsFiniteSet(S), \A x \in S : F[x] \in Nat, NEW y,
         y \notin S, F[y] \in Nat
  PROVE  SumOf(F, S \cup {y}) = SumOf(F, S) + F[y]
<1>1. IsFiniteSet(S \cup {y}) /\ (S \cup {y}) \ {y} = S
  BY FS_AddElement
<1> QED BY <1>1, SumRemove, SumType

LEMMA SumGrows ==
  ASSUME NEW F, NEW S, IsFiniteSet(S), \A x \in S : F[x] \in Nat, NEW T \in SUBSET S
  PROVE  SumOf(F, T) <= SumOf(F, S)
<1> DEFINE Bad == {U \in SUBSET S : T \subseteq U /\ ~(SumOf(F, T) <= SumOf(F, U))}
<1>1. SUFFICES ASSUME Bad # {} PROVE FALSE
  OBVIOUS
<1>2. PICK U \in Bad : \A V \in Bad : V \subseteq U => V = U
  <2>1. Bad \in SUBSET SUBSET S
    OBVIOUS
  <2> HIDE DEF Bad
  <2> QED BY <1>1, <2>1, SmallestSubset
<1>3. SumOf(F, T) \in Nat
  BY SumType, FS_Subset
<1>4. PICK x \in U : x \notin T
  <2>1. ~(SumOf(F, T) <= SumOf(F, U)) /\ T \subseteq U
    BY <1>2
  <2>2. T # U
    BY <1>3, <2>1
  <2> QED BY <2>1, <2>2
<1>5. U \ {x} \notin Bad /\ T \subseteq U \ {x} /\ U \ {x} \in SUBSET S
  BY <1>2, <1>4
<1>6. SumOf(F, U) = F[x] + SumOf(F, U \ {x}) /\ SumOf(F, U \ {x}) \in Nat
  BY <1>2, <1>4, SumRemove, SumType, FS_Subset
<1> QED BY <1>2, <1>3, <1>4, <1>5, <1>6

\* two sets without a common element are summed one after the other
LEMMA SumDisjoint ==
  ASSUME NEW F, NEW S, IsFiniteSet(S), NEW T, IsFiniteSet(T), S \cap T = {},
         \A x \in S \cup T : F[x] \in Nat
  PROVE  SumOf(F, S \cup T) = SumOf(F, S) + SumOf(F, T)
<1> DEFINE Bad == {U \in SUBSET T : SumOf(F, S \cup U) # SumOf(F, S) + SumOf(F, U)}
<1>1. SUFFICES ASSUME Bad # {} PROVE FALSE
  OBVIOUS
<1>2. PICK U \in Bad : \A V \in Bad : V \subseteq U => V = U
  <2>1. Bad \in SUBSET SUBSET T
    OBVIOUS
  <2> HIDE DEF Bad
  <2> QED BY <1>1, <2>1, SmallestSubset
<1>3. U \subseteq T /\ IsFiniteSet(U) /\ SumOf(F, S) \in Nat
  BY <1>2, SumType, FS_Subset
<1>4. U # {}
  <2> SUFFICES ASSUME U = {} PROVE FALSE
    OBVIOUS
  <2>1. S \cup U = S /\ SumOf(F, U) = 0
    BY SumEmpty, Zenon
  <2>2. SumOf(F, S \cup U) = SumOf(F, S)
    BY <2>1, Zenon
  <2> QED BY <1>2, <1>3, <2>1, <2>2
<1>5. PICK y \in U : TRUE
  BY <1>4
<1>6. U \ {y} \notin Bad /\ U \ {y} \in SUBSET T
  BY <1>2, <1>5
<1>7. SumOf(F, S \cup (U \ {y})) = SumOf(F, S) + SumOf(F, U \ {y})
  BY <1>6
<1>8. SumOf(F, U) = F[y] + SumOf(F, U \ {y})
  BY <1>3, <1>5, SumRemove
<1>9. SumOf(F, S \cup U) = F[y] + SumOf(F, S \cup (U \ {y}))
  <2>1. IsFiniteSet(S \cup U) /\ \A x \in S \cup U : F[x] \in Nat
    BY <1>3, FS_Union
  <2>2. (S \cup U) \ {y} = S \cup (U \ {y})
    BY <1>3, <1>5
  <2> QED BY <1>5, <2>1, <2>2, SumRemove
<1>10. SumOf(F, U \ {y}) \in Nat /\ F[y] \in Nat
  BY <1>3, <1>5, SumType, FS_Subset
<1>11. SumOf(F, S \cup U) # SumOf(F, S) + SumOf(F, U)
  BY <1>2
<1> HIDE DEF Bad
<1> QED BY <1>3, <1>7, <1>8, <1>9, <1>10, <1>11

\* equal summands are counted
LEMMA SumConstant ==
  ASSUME NEW F, NEW S, IsFiniteSet(S), NEW c \in Nat, \A x \in S : F[x] = c
  PROVE  SumOf(F, S) = c * Cardinality(S)
<1> DEFINE Bad == {U \in SUBSET S : SumOf(F, U) # c * Cardinality(U)}
<1>1. SUFFICES ASSUME Bad # {} PROVE FALSE
  OBVIOUS
<1>2. PICK U \in Bad : \A V \in Bad : V \subseteq U => V = U
  <2>1. Bad \in SUBSET SUBSET S
    OBVIOUS
  <2> HIDE DEF Bad
  <2> QED BY <1>1, <2>1, SmallestSubset
<1>3. U \subseteq S /\ IsFiniteSet(U) /\ Cardinality(U) \in Nat
  BY <1>2, FS_Subset, FS_CardinalityType
<1>4. U # {}
  <2> SUFFICES ASSUME U = {} PROVE FALSE
    OBVIOUS
  <2>1. SumOf(F, U) = 0 /\ Cardinality(U) = 0
    BY SumEmpty, FS_EmptySet, Zenon
  <2> QED BY <1>2, <2>1
<1>5. PICK y \in U : TRUE
  BY <1>4
<1>6. U \ {y} \notin Bad /\ U \ {y} \in SUBSET S
  BY <1>2, <1>5
<1>7. SumOf(F, U \ {y}) = c * Cardinality(U \ {y})
  BY <1>6
<1>8. Cardinality(U \ {y}) = Cardinality(U) - 1
  BY <1>3, <1>5, FS_RemoveElement
<1>9. SumOf(F, U) = c + SumOf(F, U \ {y})
  BY <1>3, <1>5, SumRemove
<1>10. PICK n \in Nat : n = Cardinality(U)
  BY <1>3
<1>11. c * n = c + c * (n - 1)
  OBVIOUS
<1>12. SumOf(F, U) # c * n
  BY <1>2, <1>10
<1> HIDE DEF Bad
<1> QED BY <1>7, <1>8, <1>9, <1>10, <1>11, <1>12

\* a sum by the values of its summands: each value times how often it occurs
LEMMA SumByValue ==
  ASSUME NEW F, NEW S, IsFiniteSet(S), NEW V, IsFiniteSet(V),
         \A v \in V : v \in Nat, \A x \in S : F[x] \in V,
         NEW G, \A v \in V : G[v] = v * Cardinality({x \in S : F[x] = v})
  PROVE  SumOf(G, V) = SumOf(F, S)
<1> DEFINE With(U) == {x \in S : F[x] \in U}
           Bad == {U \in SUBSET V : SumOf(G, U) # SumOf(F, With(U))}
<1>1. With(V) = S
  OBVIOUS
<1>2. SUFFICES ASSUME Bad # {} PROVE FALSE
  BY <1>1
<1>3. PICK U \in Bad : \A W \in Bad : W \subseteq U => W = U
  <2>1. Bad \in SUBSET SUBSET V
    OBVIOUS
  <2>2. IsFiniteSet(V)
    OBVIOUS
  <2> HIDE DEF Bad, With
  <2> QED BY ONLY <1>2, <2>1, <2>2, SmallestSubset
<1>4. U \in SUBSET V /\ IsFiniteSet(U) /\ SumOf(G, U) # SumOf(F, With(U))
  BY <1>3, FS_Subset
<1>5. U # {}
  <2> SUFFICES ASSUME U = {} PROVE FALSE
    OBVIOUS
  <2>1. With(U) = {}
    OBVIOUS
  <2>2. SumOf(G, U) = 0 /\ SumOf(F, With(U)) = 0
    BY <2>1, SumEmpty, Zenon
  <2> QED BY <1>4, <2>2
<1>6. PICK y \in U : TRUE
  BY <1>5
<1>7. U \ {y} \notin Bad /\ U \ {y} \in SUBSET V
  BY <1>3, <1>6
<1>8. SumOf(G, U \ {y}) = SumOf(F, With(U \ {y}))
  BY <1>7
<1> DEFINE Equal == {x \in S : F[x] = y}
<1>9. /\ With(U) = With(U \ {y}) \cup Equal
      /\ With(U \ {y}) \cap Equal = {}
  BY <1>6
<1>10. /\ IsFiniteSet(With(U \ {y})) /\ IsFiniteSet(Equal)
       /\ \A x \in With(U \ {y}) \cup Equal : F[x] \in Nat
  BY FS_Subset
<1>11. y \in Nat /\ Cardinality(Equal) \in Nat /\ \A x \in Equal : F[x] = y
  BY <1>4, <1>6, <1>10, FS_CardinalityType
<1>12. \A v \in U : G[v] \in Nat
  <2>1. ASSUME NEW v \in U PROVE G[v] \in Nat
    <3>1. Cardinality({x \in S : F[x] = v}) \in Nat
      BY FS_Subset, FS_CardinalityType
    <3> QED BY <1>4, <3>1
  <2> QED BY <2>1
<1>13. G[y] = y * Cardinality(Equal)
  BY <1>4, <1>6
<1> HIDE DEF Bad, With, Equal
<1>14. SumOf(G, U) = G[y] + SumOf(G, U \ {y})
  <2>1. IsFiniteSet(U)
    BY <1>4
  <2> QED BY <1>6, <1>12, <2>1, SumRemove
<1>15. SumOf(F, Equal) = y * Cardinality(Equal)
  BY <1>10, <1>11, SumConstant
<1>16. SumOf(F, With(U)) = SumOf(F, With(U \ {y})) + SumOf(F, Equal)
  <2> DEFINE rest == With(U \ {y})
  <2>1. With(U) = rest \cup Equal /\ rest \cap Equal = {}
    BY <1>9
  <2>2. IsFiniteSet(rest) /\ IsFiniteSet(Equal) /\ \A x \in rest \cup Equal : F[x] \in Nat
    BY <1>10
  <2> HIDE DEF rest
  <2>3. SumOf(F, rest \cup Equal) = SumOf(F, rest) + SumOf(F, Equal)
    BY <2>1, <2>2, SumDisjoint
  <2> QED BY <2>1, <2>3 DEF rest
<1>17. SumOf(F, With(U \ {y})) \in Nat /\ SumOf(F, Equal) \in Nat
  BY <1>10, SumType
<1> QED BY <1>4, <1>8, <1>13, <1>14, <1>15, <1>16, <1>17

\* a function that is c on a part of the set and 0 on the rest
LEMMA SumTwoValued ==
  ASSUME NEW F, NEW S, IsFiniteSet(S), NEW T \in SUBSET S, NEW c \in Nat,
         \A x \in T : F[x] = c, \A x \in S \ T : F[x] = 0
  PROVE  SumOf(F, S) = c * Cardinality(T)
<1>1. IsFiniteSet(T) /\ IsFiniteSet(S \ T) /\ T \cup (S \ T) = S /\ T \cap (S \ T) = {}
  BY FS_Subset
<1>2. SumOf(F, S) = SumOf(F, T) + SumOf(F, S \ T)
  <2>1. \A x \in T \cup (S \ T) : F[x] \in Nat
    OBVIOUS
  <2> QED BY <1>1, <2>1, SumDisjoint
<1>3. SumOf(F, T) = c * Cardinality(T) /\ SumOf(F, S \ T) = 0 * Cardinality(S \ T)
  BY <1>1, SumConstant
<1>4. Cardinality(T) \in Nat /\ Cardinality(S \ T) \in Nat
  BY <1>1, FS_CardinalityType
<1>5. PICK m \in Nat, n \in Nat : m = Cardinality(T) /\ n = Cardinality(S \ T)
  BY <1>4
<1>6. c * m + 0 * n = c * m
  OBVIOUS
<1> QED BY <1>2, <1>3, <1>5, <1>6

---------------------------------------------------------------------------
(* Counting by a correspondence.                                            *)

\* functions that undo each other count two sets as equal
LEMMA SameCount ==
  ASSUME NEW S, IsFiniteSet(S), NEW T, NEW f \in [S -> T], NEW g \in [T -> S],
         \A x \in S : g[f[x]] = x, \A y \in T : f[g[y]] = y
  PROVE  IsFiniteSet(T) /\ Cardinality(T) = Cardinality(S)
<1>1. f \in Bijection(S, T)
  BY DEF Bijection, Injection, Surjection, IsInjective
<1> QED BY <1>1, FS_Bijection DEF ExistsBijection

\* pairs of which the second part is one of c for each first part
Pairs(A, U, F) == {w \in A \X U : w[2] \in F[w[1]]}
LEMMA CountPairs ==
  ASSUME NEW A, IsFiniteSet(A), NEW U, NEW F \in [A -> SUBSET U], NEW c \in Nat,
         \A a \in A : IsFiniteSet(F[a]) /\ Cardinality(F[a]) = c
  PROVE  IsFiniteSet(Pairs(A, U, F)) /\ Cardinality(Pairs(A, U, F)) = Cardinality(A) * c
<1> USE DEF Pairs
<1> DEFINE W == Pairs(A, U, F)
           I == 1 .. c
           nth(a) == CHOOSE h : h \in Bijection(I, F[a])
<1>1. ASSUME NEW a \in A PROVE nth(a) \in Bijection(I, F[a])
  <2>1. ExistsBijection(I, F[a])
    BY FS_CardinalityType
  <2> QED BY <2>1 DEF ExistsBijection
<1>2. ASSUME NEW a \in A
      PROVE  /\ \A i \in I : nth(a)[i] \in F[a]
             /\ \A i, j \in I : nth(a)[i] = nth(a)[j] => i = j
             /\ \A u \in F[a] : \E i \in I : nth(a)[i] = u
  <2> HIDE DEF nth, I, W, Pairs
  <2> QED BY <1>1 DEF Bijection, Injection, Surjection, IsInjective
<1> DEFINE f == [p \in A \X I |-> <<p[1], nth(p[1])[p[2]]>>]
           g == [w \in W |-> <<w[1], CHOOSE i \in I : nth(w[1])[i] = w[2]>>]
<1>3. f \in [A \X I -> W]
  <2>1. ASSUME NEW p \in A \X I PROVE <<p[1], nth(p[1])[p[2]]>> \in W
    <3> HIDE DEF nth, I
    <3>1. p[1] \in A /\ p[2] \in I
      OBVIOUS
    <3>2. nth(p[1])[p[2]] \in F[p[1]] /\ F[p[1]] \subseteq U
      BY <1>2, <3>1
    <3> QED BY <3>1, <3>2
  <2> HIDE DEF nth, I, W, Pairs
  <2> QED BY <2>1
<1>4. ASSUME NEW w \in W
      PROVE  /\ w = <<w[1], w[2]>> /\ w[1] \in A
             /\ (CHOOSE i \in I : nth(w[1])[i] = w[2]) \in I
             /\ nth(w[1])[CHOOSE i \in I : nth(w[1])[i] = w[2]] = w[2]
  <2>1. w[1] \in A /\ w[2] \in F[w[1]] /\ w = <<w[1], w[2]>>
    OBVIOUS
  <2> HIDE DEF nth, I, W, Pairs
  <2>2. \E i \in I : nth(w[1])[i] = w[2]
    BY <1>2, <2>1
  <2> QED BY <2>1, <2>2
<1>5. g \in [W -> A \X I]
  <2> HIDE DEF nth, I, W, Pairs
  <2> QED BY <1>4
<1>6. ASSUME NEW p \in A \X I PROVE g[f[p]] = p
  <2>1. p[1] \in A /\ p[2] \in I /\ p = <<p[1], p[2]>>
    OBVIOUS
  <2>2. f[p] \in W /\ f[p] = <<p[1], nth(p[1])[p[2]]>>
    <3>1. f[p] \in W
      <4> HIDE DEF f, W, Pairs
      <4> QED BY <1>3
    <3> QED BY <3>1
  <2> HIDE DEF nth, I, W, Pairs
  <2>3. PICK w \in W : w = f[p] /\ w[1] = p[1] /\ w[2] = nth(p[1])[p[2]]
    BY <2>2
  <2>4. (CHOOSE i \in I : nth(w[1])[i] = w[2]) = p[2]
    BY <1>2, <1>4, <2>1, <2>3
  <2>5. g[w] = <<w[1], CHOOSE i \in I : nth(w[1])[i] = w[2]>>
    OBVIOUS
  <2> HIDE DEF f, g
  <2> QED BY <2>1, <2>3, <2>4, <2>5
<1>7. ASSUME NEW w \in W PROVE f[g[w]] = w
  <2> HIDE DEF nth, I, W, Pairs
  <2>1. g[w] = <<w[1], CHOOSE i \in I : nth(w[1])[i] = w[2]>> /\ g[w] \in A \X I
    BY <1>4
  <2>2. PICK j \in I : g[w] = <<w[1], j>> /\ nth(w[1])[j] = w[2]
    BY <1>4, <2>1
  <2>3. <<w[1], j>> \in A \X I
    BY <1>4
  <2>4. f[<<w[1], j>>] = <<w[1], nth(w[1])[j]>>
    BY <2>3
  <2> HIDE DEF f, g
  <2> QED BY <1>4, <2>2, <2>4
<1>8. IsFiniteSet(A \X I) /\ Cardinality(A \X I) = Cardinality(A) * c
  <2>1. IsFiniteSet(I) /\ Cardinality(I) = c
    BY FS_Interval
  <2> HIDE DEF I
  <2> QED BY <2>1, FS_Product
<1>9. \A p \in A \X I : g[f[p]] = p
  <2> HIDE DEF f, g, I, nth, W, Pairs
  <2> QED BY <1>6
<1>10. \A w \in W : f[g[w]] = w
  <2> HIDE DEF f, g, I, nth, W, Pairs
  <2> QED BY <1>7
<1>11. IsFiniteSet(W) /\ Cardinality(W) = Cardinality(A \X I)
  <2> HIDE DEF f, g, I, nth, W, Pairs
  <2>1. PICK P : P = A \X I
    OBVIOUS
  <2>2. IsFiniteSet(P) /\ f \in [P -> W] /\ g \in [W -> P]
    BY <1>3, <1>5, <1>8, <2>1
  <2>3. (\A p \in P : g[f[p]] = p) /\ (\A w \in W : f[g[w]] = w)
    BY <1>9, <1>10, <2>1
  <2>4. IsFiniteSet(W) /\ Cardinality(W) = Cardinality(P)
    BY <2>2, <2>3, SameCount
  <2> QED BY <2>1, <2>4
<1> HIDE DEF I, f, g, nth, Pairs
<1> QED BY <1>8, <1>11
=============================================================================
