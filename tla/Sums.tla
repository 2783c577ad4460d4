-------------------------------- MODULE Sums ---------------------------------
(* What SumFunctionOnSet of the community modules computes.  The induction is over *)
(* the finite subsets of a set: among those for which something fails there is one *)
(* none of whose parts it fails for.                                              *)
EXTENDS Integers, FiniteSetTheorems, TLAPS

LEMMA LeastSubset ==
  ASSUME NEW S, IsFiniteSet(S), NEW F \in SUBSET SUBSET S, F # {}
  PROVE  \E T \in F : \A U \in F : U \subseteq T => U = T
<1>1. IsWellFoundedOn(StrictSubsetOrdering(S), FiniteSubsetsOf(S))
  BY FS_StrictSubsetOrderingWellFounded
<1>2. F \subseteq FiniteSubsetsOf(S)
  BY FS_Subset DEF FiniteSubsetsOf
<1>3. \E T \in F : \A U \in F : ~ (<<U, T>> \in StrictSubsetOrdering(S))
  BY <1>1, <1>2, WFMin
<1> QED BY <1>3 DEF StrictSubsetOrdering

\* The element of a set that the sum takes first, and the rest.
Pick(s) == CHOOSE x \in s : TRUE
Rest(s) == s \ {Pick(s)}

Adds(f, S, g) ==
  g = [s \in SUBSET S |-> IF s = {} THEN 0 ELSE f[Pick(s)] + g[Rest(s)]]

LEMMA RestSmaller ==
  ASSUME NEW s, s # {}
  PROVE  Pick(s) \in s /\ Rest(s) \subseteq s /\ Rest(s) # s
  BY DEF Pick, Rest

LEMMA AddsOnce ==
  ASSUME NEW f, NEW S, NEW T, NEW g, NEW h, Adds(f, S, g), Adds(f, T, h),
         NEW s \in SUBSET S, s \in SUBSET T, IsFiniteSet(s)
  PROVE  g[s] = h[s]
<1> DEFINE F == {u \in SUBSET s : g[u] # h[u]}
<1>1. SUFFICES ASSUME F # {} PROVE FALSE
  OBVIOUS
<1>3. PICK u \in F : \A v \in F : v \subseteq u => v = u
  <2> HIDE DEF F
  <2>1. F \in SUBSET SUBSET s
    BY DEF F
  <2> QED BY <1>1, <2>1, LeastSubset
<1>4. u \in SUBSET S /\ u \in SUBSET T
  OBVIOUS
<1>5. u # {}
  <2>1. g[{}] = 0 /\ h[{}] = 0
    BY DEF Adds
  <2> QED BY <2>1
<1>6. g[u] = f[Pick(u)] + g[Rest(u)] /\ h[u] = f[Pick(u)] + h[Rest(u)]
  BY <1>4, <1>5 DEF Adds
<1>7. Rest(u) \notin F
  BY <1>3, <1>5, RestSmaller
<1>8. g[Rest(u)] = h[Rest(u)]
  BY <1>5, <1>7, RestSmaller
<1> QED BY <1>6, <1>8

LEMMA AddsExists ==
  ASSUME NEW f, NEW S, IsFiniteSet(S)
  PROVE  \E g : Adds(f, S, g)
<1> DEFINE F == {T \in SUBSET S : ~ \E g : Adds(f, T, g)}
           Of(T) == CHOOSE g : Adds(f, T, g)
<1>1. SUFFICES ASSUME F # {} PROVE FALSE
  OBVIOUS
<1>2. \A T \in F : IsFiniteSet(T)
  BY FS_Subset
<1>3. PICK T \in F : \A U \in F : U \subseteq T => U = T
  <2> HIDE DEF F
  <2>1. F \in SUBSET SUBSET S
    BY DEF F
  <2> QED BY <1>1, <2>1, LeastSubset
<1>4. \A U \in SUBSET T : U # T => Adds(f, U, Of(U))
  BY <1>3
<1> DEFINE g == [s \in SUBSET T |-> IF s = {} THEN 0 ELSE f[Pick(s)] + Of(Rest(s))[Rest(s)]]
<1>5. ASSUME NEW s \in SUBSET T, s # {}
      PROVE  g[Rest(s)] = Of(Rest(s))[Rest(s)]
  <2> DEFINE u == Rest(s)
  <2>1. u \in SUBSET T /\ u # T /\ IsFiniteSet(u)
    BY <1>2, <1>5, RestSmaller, FS_Subset
  <2>2. Adds(f, u, Of(u))
    BY <1>4, <2>1
  <2>3. CASE u = {}
    <3>1. Of(u)[{}] = 0
      BY <2>2 DEF Adds
    <3> QED BY <2>1, <2>3, <3>1
  <2>4. CASE u # {}
    <3> DEFINE v == Rest(u)
    <3>1. v \in SUBSET u /\ v # u /\ IsFiniteSet(v) /\ v \in SUBSET T /\ v # T
      BY <2>1, <2>4, RestSmaller, FS_Subset
    <3>2. Adds(f, v, Of(v))
      BY <1>4, <3>1
    <3>3. Of(u)[v] = Of(v)[v]
      <4> HIDE DEF Of, u, v
      <4> QED BY <2>2, <3>1, <3>2, AddsOnce
    <3>4. Of(u)[u] = f[Pick(u)] + Of(u)[v]
      <4> HIDE DEF Of
      <4> QED BY <2>2, <2>4 DEF Adds
    <3>5. g[u] = f[Pick(u)] + Of(v)[v]
      <4> HIDE DEF Of
      <4> QED BY <2>1, <2>4
    <3> QED BY <3>3, <3>4, <3>5
  <2> QED BY <2>3, <2>4
<1>6. Adds(f, T, g)
  <2> HIDE DEF Of
  <2>1. \A s \in SUBSET T : s # {} => g[Rest(s)] = Of(Rest(s))[Rest(s)]
    BY <1>5
  <2>2. g = [s \in SUBSET T |-> IF s = {} THEN 0 ELSE f[Pick(s)] + g[Rest(s)]]
    BY <2>1
  <2> QED BY <2>2 DEF Adds
<1> QED BY <1>3, <1>6

LEMMA SumAdds ==
  ASSUME NEW f, NEW S, IsFiniteSet(S)
  PROVE  \E g : Adds(f, S, g) /\ SumFunctionOnSet(f, S) = g[S]
<1> DEFINE g == CHOOSE g : Adds(f, S, g)
<1>1. Adds(f, S, g)
  BY AddsExists
<1>2. SumFunctionOnSet(f, S) = g[S]
  BY DEF SumFunctionOnSet, FoldFunctionOnSet, MapThenFoldSet, Adds, Pick, Rest
<1> QED BY <1>1, <1>2

LEMMA SumStep ==
  ASSUME NEW f, NEW S, IsFiniteSet(S)
  PROVE  /\ S = {} => SumFunctionOnSet(f, S) = 0
         /\ S # {} => SumFunctionOnSet(f, S) = f[Pick(S)] + SumFunctionOnSet(f, Rest(S))
<1>1. PICK g : Adds(f, S, g) /\ SumFunctionOnSet(f, S) = g[S]
  BY SumAdds
<1>2. CASE S = {}
  BY <1>1, <1>2 DEF Adds
<1>3. CASE S # {}
  <2>1. Rest(S) \in SUBSET S /\ IsFiniteSet(Rest(S))
    BY <1>3, RestSmaller, FS_Subset
  <2>2. PICK h : Adds(f, Rest(S), h) /\ SumFunctionOnSet(f, Rest(S)) = h[Rest(S)]
    BY <2>1, SumAdds
  <2>3. g[Rest(S)] = h[Rest(S)]
    BY <1>1, <2>1, <2>2, AddsOnce
  <2>4. g[S] = f[Pick(S)] + g[Rest(S)]
    BY <1>1, <1>3 DEF Adds
  <2> QED BY <1>1, <1>3, <2>2, <2>3, <2>4
<1> QED BY <1>2, <1>3

LEMMA SumEmpty ==
  ASSUME NEW f
  PROVE  SumFunctionOnSet(f, {}) = 0
  BY SumStep, FS_EmptySet

LEMMA SumInt ==
  ASSUME NEW f, NEW S, IsFiniteSet(S), \A x \in S : f[x] \in Int
  PROVE  SumFunctionOnSet(f, S) \in Int
<1> DEFINE F == {T \in SUBSET S : SumFunctionOnSet(f, T) \notin Int}
<1>1. SUFFICES ASSUME F # {} PROVE FALSE
  OBVIOUS
<1>2. PICK T \in F : \A U \in F : U \subseteq T => U = T
  <2> HIDE DEF F
  <2>1. F \in SUBSET SUBSET S
    BY DEF F
  <2> QED BY <1>1, <2>1, LeastSubset
<1>3. T \in SUBSET S /\ IsFiniteSet(T) /\ T # {}
  <2>1. SumFunctionOnSet(f, {}) = 0
    BY SumEmpty
  <2>2. {} \notin F
    BY <2>1
  <2> QED BY <2>2, FS_Subset
<1>4. SumFunctionOnSet(f, Rest(T)) \in Int
  BY <1>2, <1>3, RestSmaller
<1> QED BY <1>3, <1>4, RestSmaller, SumStep

\* The sum may take any element first.
LEMMA SumSplit ==
  ASSUME NEW f, NEW S, IsFiniteSet(S), \A x \in S : f[x] \in Int, NEW x \in S
  PROVE  SumFunctionOnSet(f, S) = f[x] + SumFunctionOnSet(f, S \ {x})
<1> DEFINE F == {T \in SUBSET S : \E y \in T :
                   SumFunctionOnSet(f, T) # f[y] + SumFunctionOnSet(f, T \ {y})}
<1>1. SUFFICES ASSUME F # {} PROVE FALSE
  OBVIOUS
<1>2. PICK T \in F : \A U \in F : U \subseteq T => U = T
  <2> HIDE DEF F
  <2>1. F \in SUBSET SUBSET S
    BY DEF F
  <2> QED BY <1>1, <2>1, LeastSubset
<1>3. PICK y \in T : SumFunctionOnSet(f, T) # f[y] + SumFunctionOnSet(f, T \ {y})
  OBVIOUS
<1> DEFINE p == Pick(T)
<1>4. T \in SUBSET S /\ IsFiniteSet(T) /\ p \in T /\ Rest(T) = T \ {p}
  BY FS_Subset, RestSmaller DEF Rest
<1>5. SumFunctionOnSet(f, T) = f[p] + SumFunctionOnSet(f, T \ {p})
  BY <1>4, SumStep
<1>6. y # p
  BY <1>3, <1>5
<1>7. SumFunctionOnSet(f, T \ {p}) = f[y] + SumFunctionOnSet(f, (T \ {p}) \ {y})
  <2>1. T \ {p} \notin F
    BY <1>2, <1>4
  <2> QED BY <1>4, <1>6, <2>1
<1>8. SumFunctionOnSet(f, T \ {y}) = f[p] + SumFunctionOnSet(f, (T \ {y}) \ {p})
  <2>1. T \ {y} \notin F
    BY <1>2, <1>3
  <2> QED BY <1>3, <1>4, <1>6, <2>1
<1>9. (T \ {p}) \ {y} = (T \ {y}) \ {p}
  OBVIOUS
<1>10. SumFunctionOnSet(f, (T \ {y}) \ {p}) \in Int /\ f[p] \in Int /\ f[y] \in Int
  <2>1. IsFiniteSet((T \ {y}) \ {p})
    BY <1>4, FS_Subset
  <2> QED BY <1>4, <2>1, SumInt
<1> DEFINE c == SumFunctionOnSet(f, (T \ {y}) \ {p})
<1>11. SumFunctionOnSet(f, T \ {p}) = f[y] + c /\ SumFunctionOnSet(f, T \ {y}) = f[p] + c
  BY <1>7, <1>8, <1>9
<1> HIDE DEF p, F, c
<1>12. c \in Int
  BY <1>10 DEF c
<1> QED BY <1>3, <1>5, <1>10, <1>11, <1>12

LEMMA SumMonotone ==
  ASSUME NEW f, NEW g, NEW S, IsFiniteSet(S),
         \A x \in S : f[x] \in Int /\ g[x] \in Int /\ f[x] <= g[x]
  PROVE  SumFunctionOnSet(f, S) <= SumFunctionOnSet(g, S)
<1> DEFINE F == {T \in SUBSET S : ~ (SumFunctionOnSet(f, T) <= SumFunctionOnSet(g, T))}
<1>1. SUFFICES ASSUME F # {} PROVE FALSE
  OBVIOUS
<1>2. PICK T \in F : \A U \in F : U \subseteq T => U = T
  <2> HIDE DEF F
  <2>1. F \in SUBSET SUBSET S
    BY DEF F
  <2> QED BY <1>1, <2>1, LeastSubset
<1>3. T \in SUBSET S /\ IsFiniteSet(T) /\ T # {}
  <2>1. SumFunctionOnSet(f, {}) = 0 /\ SumFunctionOnSet(g, {}) = 0
    BY SumEmpty
  <2>2. {} \notin F
    BY <2>1
  <2> QED BY <2>2, FS_Subset
<1>4. /\ Pick(T) \in S /\ Rest(T) \in SUBSET S /\ IsFiniteSet(Rest(T))
      /\ SumFunctionOnSet(f, Rest(T)) <= SumFunctionOnSet(g, Rest(T))
  BY <1>2, <1>3, RestSmaller, FS_Subset
<1>5. SumFunctionOnSet(f, Rest(T)) \in Int /\ SumFunctionOnSet(g, Rest(T)) \in Int
  BY <1>4, SumInt
<1>6. /\ SumFunctionOnSet(f, T) = f[Pick(T)] + SumFunctionOnSet(f, Rest(T))
      /\ SumFunctionOnSet(g, T) = g[Pick(T)] + SumFunctionOnSet(g, Rest(T))
  BY <1>3, SumStep
<1> QED BY <1>4, <1>5, <1>6

LEMMA SumSame ==
  ASSUME NEW f, NEW g, NEW S, IsFiniteSet(S), \A x \in S : f[x] \in Int /\ f[x] = g[x]
  PROVE  SumFunctionOnSet(f, S) = SumFunctionOnSet(g, S)
<1>1. /\ SumFunctionOnSet(f, S) <= SumFunctionOnSet(g, S)
      /\ SumFunctionOnSet(g, S) <= SumFunctionOnSet(f, S)
  BY SumMonotone
<1> QED BY <1>1, SumInt

\* One of the terms changes.
LEMMA SumChange ==
  ASSUME NEW f, NEW g, NEW S, IsFiniteSet(S), NEW x \in S,
         \A y \in S : f[y] \in Int /\ g[y] \in Int /\ (y # x => f[y] = g[y])
  PROVE  SumFunctionOnSet(g, S) = SumFunctionOnSet(f, S) + g[x] - f[x]
<1>1. IsFiniteSet(S \ {x})
  BY FS_Subset
<1>2. SumFunctionOnSet(f, S \ {x}) = SumFunctionOnSet(g, S \ {x})
  BY <1>1, SumSame
<1>3. /\ SumFunctionOnSet(f, S) = f[x] + SumFunctionOnSet(f, S \ {x})
      /\ SumFunctionOnSet(g, S) = g[x] + SumFunctionOnSet(g, S \ {x})
  BY SumSplit
<1>4. SumFunctionOnSet(f, S \ {x}) \in Int
  BY <1>1, SumInt
<1> QED BY <1>2, <1>3, <1>4

\* Every term is within the bounds, and so is the sum.
LEMMA SumBounds ==
  ASSUME NEW f, NEW S, IsFiniteSet(S), NEW low \in Int, NEW high \in Int,
         \A x \in S : f[x] \in Int /\ low <= f[x] /\ f[x] <= high
  PROVE  /\ low * Cardinality(S) <= SumFunctionOnSet(f, S)
         /\ SumFunctionOnSet(f, S) <= high * Cardinality(S)
<1> DEFINE F == {T \in SUBSET S : ~ (/\ low * Cardinality(T) <= SumFunctionOnSet(f, T)
                                    /\ SumFunctionOnSet(f, T) <= high * Cardinality(T))}
<1>1. SUFFICES ASSUME F # {} PROVE FALSE
  OBVIOUS
<1>2. PICK T \in F : \A U \in F : U \subseteq T => U = T
  <2> HIDE DEF F
  <2>1. F \in SUBSET SUBSET S
    BY DEF F
  <2> QED BY <1>1, <2>1, LeastSubset
<1>3. T \in SUBSET S /\ IsFiniteSet(T)
  BY FS_Subset
<1>4. T # {}
  <2>1. Cardinality({}) = 0 /\ SumFunctionOnSet(f, {}) = 0
    BY SumEmpty, FS_EmptySet
  <2>2. low * 0 = 0 /\ high * 0 = 0 /\ 0 <= 0
    OBVIOUS
  <2>3. low * Cardinality({}) = 0 /\ high * Cardinality({}) = 0
    BY <2>1, <2>2
  <2>4. {} \notin F
    BY <2>1, <2>2, <2>3
  <2> QED BY <2>4
<1>5. /\ Pick(T) \in S /\ Rest(T) \in SUBSET S /\ IsFiniteSet(Rest(T))
      /\ low * Cardinality(Rest(T)) <= SumFunctionOnSet(f, Rest(T))
      /\ SumFunctionOnSet(f, Rest(T)) <= high * Cardinality(Rest(T))
  BY <1>2, <1>3, <1>4, RestSmaller, FS_Subset
<1>6. /\ Cardinality(T) = Cardinality(Rest(T)) + 1 /\ Cardinality(Rest(T)) \in Nat
      /\ SumFunctionOnSet(f, Rest(T)) \in Int
  <2>1. Pick(T) \in T /\ Rest(T) = T \ {Pick(T)}
    BY <1>4, RestSmaller DEF Rest
  <2>2. Cardinality(Rest(T)) = Cardinality(T) - 1
    BY <1>3, <2>1, FS_RemoveElement
  <2>3. Cardinality(Rest(T)) \in Nat /\ Cardinality(T) \in Nat
    BY <1>3, <1>5, FS_CardinalityType
  <2>4. SumFunctionOnSet(f, Rest(T)) \in Int
    BY <1>5, SumInt
  <2> QED BY <2>2, <2>3, <2>4
<1>7. SumFunctionOnSet(f, T) = f[Pick(T)] + SumFunctionOnSet(f, Rest(T))
  BY <1>3, <1>4, SumStep
<1>8. \A n \in Nat : low * (n + 1) = low * n + low /\ high * (n + 1) = high * n + high
  OBVIOUS
<1>9. /\ low * Cardinality(T) <= SumFunctionOnSet(f, T)
      /\ SumFunctionOnSet(f, T) <= high * Cardinality(T)
  BY <1>5, <1>6, <1>7, <1>8
<1> QED BY <1>9

\* Of what is spread over a set, each is counted once.
LEMMA SumOfParts ==
  ASSUME NEW D, IsFiniteSet(D), NEW S, IsFiniteSet(S), NEW at, \A x \in D : at[x] \in S,
         NEW c \in Nat
  PROVE  SumFunctionOnSet([y \in S |-> c * Cardinality({x \in D : at[x] = y})], S)
           = c * Cardinality(D)
<1> DEFINE On(T, y) == {x \in T : at[x] = y}
           f(T) == [y \in S |-> c * Cardinality(On(T, y))]
           F == {T \in SUBSET D : SumFunctionOnSet(f(T), S) # c * Cardinality(T)}
<1>1. \A T \in SUBSET D : \A y \in S :
        /\ IsFiniteSet(T) /\ Cardinality(T) \in Nat
        /\ IsFiniteSet(On(T, y)) /\ Cardinality(On(T, y)) \in Nat
        /\ f(T)[y] = c * Cardinality(On(T, y))
  <2>1. \A T \in SUBSET D : IsFiniteSet(T) /\ Cardinality(T) \in Nat
    BY FS_Subset, FS_CardinalityType
  <2>2. \A T \in SUBSET D : \A y \in S : On(T, y) \in SUBSET D
    OBVIOUS
  <2> QED BY <2>1, <2>2
<1>2. \A m \in Nat : c * m \in Nat /\ c * (m + 1) = c * m + c /\ c * 0 = 0
  OBVIOUS
<1>3. ASSUME F # {}
      PROVE  FALSE
  <2>1. PICK T \in F : \A U \in F : U \subseteq T => U = T
    <3>1. F \in SUBSET SUBSET D /\ IsFiniteSet(D)
      OBVIOUS
    <3> HIDE DEF F
    <3> QED BY <1>3, <3>1, LeastSubset
  <2>2. T \in SUBSET D
    OBVIOUS
  <2>3. T # {}
    <3>1. Cardinality({}) = 0 /\ \A y \in S : On({}, y) = {}
      BY FS_EmptySet
    <3>2. \A y \in S : f({})[y] = 0
      BY <1>2, <3>1
    <3>3. SumFunctionOnSet(f({}), S) = 0
      <4>1. PICK h : h = f({})
        OBVIOUS
      <4>2. \A y \in S : h[y] \in Int /\ 0 <= h[y] /\ h[y] <= 0
        BY <3>2, <4>1
      <4>3. PICK n \in Nat : n = Cardinality(S)
        BY FS_CardinalityType
      <4>4. 0 * n <= SumFunctionOnSet(h, S) /\ SumFunctionOnSet(h, S) <= 0 * n
        BY <4>2, <4>3, SumBounds
      <4>5. SumFunctionOnSet(h, S) \in Int
        BY <4>2, SumInt
      <4>6. 0 * n = 0
        OBVIOUS
      <4>7. SumFunctionOnSet(h, S) = 0
        BY <4>4, <4>5, <4>6
      <4> QED BY <4>1, <4>7
    <3>4. {} \notin F
      BY <1>2, <3>1, <3>3
    <3> QED BY <3>4
  <2>4. PICK x \in T : TRUE
    BY <2>3
  <2>5. PICK U \in SUBSET D : U = T \ {x}
    BY <2>2
  <2>6. U \notin F
    BY <2>1, <2>4, <2>5
  <2>7. PICK y \in S : y = at[x]
    BY <2>2, <2>4
  <2>8. \A z \in S : z # y => On(T, z) = On(U, z)
    BY <2>5, <2>7
  <2>9. On(T, y) = On(U, y) \cup {x} /\ x \notin On(U, y) /\ T = U \cup {x} /\ x \notin U
    BY <2>4, <2>5, <2>7
  <2>10. Cardinality(On(T, y)) = Cardinality(On(U, y)) + 1 /\ Cardinality(T) = Cardinality(U) + 1
    <3>1. IsFiniteSet(On(U, y)) /\ IsFiniteSet(U)
      BY <1>1
    <3> HIDE DEF On
    <3> QED BY <2>9, <3>1, FS_AddElement
  <2>11. PICK g, h : g = f(U) /\ h = f(T)
    OBVIOUS
  <2>12. /\ \A z \in S : g[z] \in Int /\ h[z] \in Int /\ (z # y => g[z] = h[z])
         /\ h[y] = g[y] + c
    <3>1. \A z \in S : /\ g[z] = c * Cardinality(On(U, z)) /\ h[z] = c * Cardinality(On(T, z))
                               /\ g[z] \in Int /\ h[z] \in Int
      <4>1. ASSUME NEW z \in S, NEW V \in SUBSET D
            PROVE  f(V)[z] = c * Cardinality(On(V, z)) /\ f(V)[z] \in Int
        <5>1. PICK m \in Nat : m = Cardinality(On(V, z)) /\ f(V)[z] = c * m
          BY <1>1
        <5> QED BY <1>2, <5>1
      <4> HIDE DEF f
      <4> QED BY <2>2, <2>11, <4>1
    <3>2. h[y] = c * Cardinality(On(U, y)) + c
      <4>1. PICK m \in Nat : m = Cardinality(On(U, y)) /\ Cardinality(On(T, y)) = m + 1
        BY <1>1, <2>10
      <4> QED BY <1>2, <3>1, <4>1
    <3>3. \A z \in S : z # y => g[z] = h[z]
      BY <2>8, <3>1
    <3> QED BY <3>1, <3>2, <3>3
  <2>13. SumFunctionOnSet(h, S) = SumFunctionOnSet(g, S) + h[y] - g[y]
    BY <2>12, SumChange
  <2>14. SumFunctionOnSet(g, S) = c * Cardinality(U)
    BY <2>6, <2>11
  <2>15. SumFunctionOnSet(h, S) = c * Cardinality(T)
    <3>1. PICK m \in Nat : m = Cardinality(U) /\ Cardinality(T) = m + 1
      BY <1>1, <2>10
    <3>2. SumFunctionOnSet(h, S) = c * m + (g[y] + c) - g[y]
      BY <2>12, <2>13, <2>14, <3>1
    <3>3. g[y] \in Int /\ c * m \in Int /\ c * (m + 1) = c * m + c
      BY <1>2, <2>12
    <3>4. SumFunctionOnSet(h, S) = c * m + c
      <4>1. PICK a \in Int, k \in Int : a = g[y] /\ k = c * m
        BY <3>3
      <4> QED BY <3>2, <4>1
    <3> QED BY <3>1, <3>3, <3>4
  <2> QED BY <2>11, <2>15
<1>4. D \notin F
  BY <1>3
<1>5. SumFunctionOnSet(f(D), S) = c * Cardinality(D)
  BY <1>4
<1> QED BY <1>5
=============================================================================
