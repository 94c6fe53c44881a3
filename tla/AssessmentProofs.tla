-------------------------- MODULE AssessmentProofs --------------------------
(***************************************************************************)
(* Facts about the index, the eligibility engine and the answers built on  *)
(* it, for every fabric the builder accepts.                               *)
(***************************************************************************)
EXTENDS Oracle, FabricCommands, FiniteSetTheorems, WellFoundedInduction, TLAPS

\* Leaves go to Zenon unless they cite another prover.
USE Zenon

-----------------------------------------------------------------------------
(* Extremes of sets of numbers.                                            *)

\* A finite non-empty set of numbers has a highest member.
LEMMA FiniteMax ==
  ASSUME NEW S \in SUBSET Nat, IsFiniteSet(S), S # {}
  PROVE  \E x \in S : \A y \in S : y <= x
PROOF
  <1>1. DEFINE Bad == {T \in FiniteSubsetsOf(S) :
                         T # {} /\ \A x \in T : \E y \in T : ~(y <= x)}
  <1>2. SUFFICES ASSUME ~(\E x \in S : \A y \in S : y <= x) PROVE FALSE
    OBVIOUS
  <1>3. S \in Bad
    BY <1>2 DEF FiniteSubsetsOf
  <1>4. PICK T \in Bad : \A U \in Bad : ~(<<U, T>> \in StrictSubsetOrdering(S))
    BY <1>3, FS_StrictSubsetOrderingWellFounded, WFMin
  <1>5. T \in SUBSET S /\ IsFiniteSet(T) /\ T # {} /\ T \subseteq Nat
    BY <1>4 DEF FiniteSubsetsOf
  <1>6. PICK x \in T : TRUE
    BY <1>5
  <1>7. DEFINE U == T \ {x}
  <1>8. IsFiniteSet(U) /\ U \in SUBSET S
    BY <1>5, FS_RemoveElement
  <1>9. <<U, T>> \in StrictSubsetOrdering(S)
    BY <1>5, <1>6, <1>8 DEF StrictSubsetOrdering
  <1>10. U \notin Bad
    BY <1>4, <1>9
  <1>11. CASE U = {}
    <2>1. T = {x}
      BY <1>6, <1>11
    <2> QED BY SMT, <2>1, <1>4, <1>5
  <1>12. CASE U # {}
    <2>1. PICK z \in U : \A y \in U : y <= z
      BY <1>8, <1>10, <1>12 DEF FiniteSubsetsOf
    <2>2. z \in Nat /\ x \in Nat /\ z \in T
      BY <2>1, <1>5, <1>6
    <2>3. PICK v \in T : ~(v <= z)
      BY <1>4, <2>2
    <2>4. v = x
      BY <2>1, <2>3
    <2>5. PICK w \in T : ~(w <= x)
      BY <1>4, <1>6
    <2>6. w \in U
      BY SMT, <2>5, <2>2
    <2> QED BY SMT, <2>1, <2>2, <2>3, <2>4, <2>5, <2>6, <1>5
  <1> QED BY <1>11, <1>12

\* A set of numbers has a lowest member.
LEMMA LowestNumber ==
  ASSUME NEW S \in SUBSET Nat, S # {}
  PROVE  \E x \in S : \A y \in S : x <= y
PROOF
  <1>1. PICK x \in S : \A y \in S : ~(<<y, x>> \in OpToRel(<, Nat))
    BY NatLessThanWellFounded, WFMin
  <1>2. ASSUME NEW y \in S PROVE x <= y
    <2>1. x \in Nat /\ y \in Nat
      OBVIOUS
    <2>2. y < x => <<y, x>> \in OpToRel(<, Nat)
      BY <2>1 DEF OpToRel
    <2>3. ~(y < x)
      BY <1>1, <2>2
    <2> QED BY SMT, <2>1, <2>3
  <1> QED BY <1>2

\* A set that a function on a finite set reaches is finite.
LEMMA FiniteReach ==
  ASSUME NEW S, IsFiniteSet(S), NEW T, NEW g, DOMAIN g = S,
         \A t \in T : \E s \in S : t = g[s]
  PROVE  IsFiniteSet(T)
PROOF
  <1>1. DEFINE U == {s \in S : g[s] \in T}
  <1>2. DEFINE h == [s \in U |-> g[s]]
  <1>3. IsFiniteSet(U)
    BY FS_Subset
  <1>4. h \in Surjection(U, T)
    BY DEF Surjection
  <1> QED BY <1>3, <1>4, FS_Surjection

-----------------------------------------------------------------------------
(* Sums.  The sum of a function is the number of its units: of the points  *)
(* below its graph.                                                        *)

\* g has finitely many values, all of them numbers.
Countable(g) == IsFiniteSet(DOMAIN g) /\ \A x \in DOMAIN g : g[x] \in Nat

Units(g, T) == {p \in T \X Nat : 1 <= p[2] /\ p[2] <= g[p[1]]}

\* One argument has as many units as its value says.
LEMMA UnitsOfOne ==
  ASSUME NEW g, NEW x, g[x] \in Nat
  PROVE  IsFiniteSet(Units(g, {x})) /\ Cardinality(Units(g, {x})) = g[x]
PROOF
  <1>1. PICK n : n = g[x]
    OBVIOUS
  <1>2. IsFiniteSet(1..n) /\ Cardinality(1..n) = n
    <2>1. n \in Nat
      BY <1>1
    <2>2. 1 \in Int /\ n \in Int
      BY SMT, <2>1
    <2>3. IsFiniteSet(1..n) /\ Cardinality(1..n) = IF 1 > n THEN 0 ELSE n - 1 + 1
      BY <2>2, FS_Interval
    <2> QED BY SMT, <2>1, <2>3
  <1>3. DEFINE h == [k \in 1..n |-> <<x, k>>]
  <1>4. h \in [1..n -> Units(g, {x})]
    BY SMT, <1>1 DEF Units
  <1>5. \A j, k \in 1..n : h[j] = h[k] => j = k
    BY SMT
  <1>6. \A p \in Units(g, {x}) : \E k \in 1..n : h[k] = p
    <2>1. ASSUME NEW p \in Units(g, {x}) PROVE p[2] \in 1..n /\ p = <<x, p[2]>>
      BY SMT, <1>1 DEF Units
    <2>2. ASSUME NEW p \in Units(g, {x}) PROVE h[p[2]] = p
      BY <2>1
    <2> QED BY <2>1, <2>2
  <1> HIDE DEF h
  <1>7. h \in Bijection(1..n, Units(g, {x}))
    BY <1>4, <1>5, <1>6 DEF Bijection, Injection, Surjection, IsInjective
  <1>8. ExistsBijection(1..n, Units(g, {x}))
    BY <1>7 DEF ExistsBijection
  <1> QED BY <1>1, <1>2, <1>8, FS_Bijection

\* There are finitely many units, and those of one argument can be counted apart.
LEMMA UnitsApart ==
  ASSUME NEW g, Countable(g), NEW T \in SUBSET DOMAIN g
  PROVE  /\ IsFiniteSet(Units(g, T))
         /\ \A x \in T : Cardinality(Units(g, T)) = g[x] + Cardinality(Units(g, T \ {x}))
PROOF
  <1>1. \A U \in SUBSET DOMAIN g : IsFiniteSet(Units(g, U))
    <2>1. SUFFICES ASSUME NEW U \in SUBSET DOMAIN g PROVE IsFiniteSet(Units(g, U))
      OBVIOUS
    <2>2. IsFiniteSet(U)
      BY FS_Subset DEF Countable
    <2>3. DEFINE h == [x \in U |-> Units(g, {x})]
    <2>4. DEFINE F == {Units(g, {x}) : x \in U}
    <2>5. DOMAIN h = U /\ \A t \in F : \E s \in U : t = h[s]
      OBVIOUS
    <2>6. \A t \in F : IsFiniteSet(t)
      BY UnitsOfOne DEF Countable
    <2>7. Units(g, U) = UNION F
      BY SMT DEF Units
    <2> HIDE DEF h, F
    <2>8. IsFiniteSet(F)
      BY <2>2, <2>5, FiniteReach
    <2> QED BY <2>6, <2>7, <2>8, FS_UNION
  <1>2. ASSUME NEW x \in T
        PROVE  Cardinality(Units(g, T)) = g[x] + Cardinality(Units(g, T \ {x}))
    <2>1. PICK A : A = Units(g, {x})
      OBVIOUS
    <2>2. PICK B : B = Units(g, T \ {x})
      OBVIOUS
    <2>3. Units(g, T) = A \cup B /\ A \cap B = {}
      BY SMT, <2>1, <2>2 DEF Units
    <2>4. IsFiniteSet(A) /\ IsFiniteSet(B) /\ Cardinality(A) = g[x]
      BY <1>1, <2>1, <2>2, UnitsOfOne DEF Countable
    <2>5. /\ Cardinality(A \cup B) = Cardinality(A) + Cardinality(B) - Cardinality(A \cap B)
          /\ Cardinality(B) \in Nat /\ Cardinality(A \cap B) = 0
      BY <2>3, <2>4, FS_Union, FS_EmptySet, FS_CardinalityType
    <2>6. g[x] \in Nat
      BY DEF Countable
    <2> QED BY SMT, <2>2, <2>3, <2>4, <2>5, <2>6
  <1> QED BY <1>1, <1>2

\* The recursion that SumFunction stands for.
Summing(g, it) ==
    it = [s \in SUBSET DOMAIN g |->
            IF s = {} THEN 0
            ELSE g[CHOOSE x \in s : TRUE] + it[s \ {CHOOSE x \in s : TRUE}]]

\* SumFunction counts units.
LEMMA SumCounts ==
  ASSUME NEW g, Countable(g)
  PROVE  SumFunction(g) = Cardinality(Units(g, DOMAIN g))
PROOF
  <1>1. SumFunction(g) = (CHOOSE it : Summing(g, it))[DOMAIN g]
    BY DEF SumFunction, SumFunctionOnSet, FoldFunctionOnSet, MapThenFoldSet, Summing
  <1>2. Units(g, {}) = {}
    BY DEF Units
  <1>3. \E it : Summing(g, it)
    <2>1. DEFINE it == [s \in SUBSET DOMAIN g |-> Cardinality(Units(g, s))]
    <2>2. ASSUME NEW s \in SUBSET DOMAIN g
          PROVE  it[s] = IF s = {} THEN 0
                         ELSE g[CHOOSE x \in s : TRUE] + it[s \ {CHOOSE x \in s : TRUE}]
      <3>1. CASE s = {}
        BY <1>2, <3>1, FS_EmptySet
      <3>2. CASE s # {}
        <4>1. PICK x : x = CHOOSE y \in s : TRUE
          OBVIOUS
        <4>2. x \in s
          BY <3>2, <4>1
        <4>3. Cardinality(Units(g, s)) = g[x] + Cardinality(Units(g, s \ {x}))
          BY <4>2, UnitsApart
        <4> QED BY <3>2, <4>1, <4>3
      <3> QED BY <3>1, <3>2
    <2> QED BY <2>2 DEF Summing
  <1>4. PICK it : it = CHOOSE i : Summing(g, i)
    OBVIOUS
  <1>5. Summing(g, it)
    BY <1>3, <1>4
  <1>6. DEFINE Bad == {T \in FiniteSubsetsOf(DOMAIN g) : it[T] # Cardinality(Units(g, T))}
  <1>7. ASSUME Bad # {} PROVE FALSE
    <2>1. PICK T \in Bad : \A U \in Bad : ~(<<U, T>> \in StrictSubsetOrdering(DOMAIN g))
      BY <1>7, FS_StrictSubsetOrderingWellFounded, WFMin
    <2>2. T \in SUBSET DOMAIN g /\ IsFiniteSet(T) /\ it[T] # Cardinality(Units(g, T))
      BY <2>1 DEF FiniteSubsetsOf
    <2>3. T # {}
      <3>1. ASSUME T = {} PROVE FALSE
        <4>1. it[{}] = 0
          BY <1>5 DEF Summing
        <4> QED BY <1>2, <2>2, <3>1, <4>1, FS_EmptySet
      <3> QED BY <3>1
    <2>4. PICK x : x = CHOOSE y \in T : TRUE
      OBVIOUS
    <2>5. x \in T
      BY <2>3, <2>4
    <2>6. PICK U : U = T \ {x}
      OBVIOUS
    <2>7. IsFiniteSet(U) /\ U \in SUBSET DOMAIN g
      BY <2>2, <2>6, FS_RemoveElement
    <2>8. <<U, T>> \in StrictSubsetOrdering(DOMAIN g)
      BY <2>2, <2>5, <2>6, <2>7 DEF StrictSubsetOrdering
    <2>9. it[U] = Cardinality(Units(g, U))
      BY <2>1, <2>7, <2>8 DEF FiniteSubsetsOf
    <2>10. it[T] = g[x] + it[U]
      BY <1>5, <2>2, <2>3, <2>4, <2>6 DEF Summing
    <2>11. Cardinality(Units(g, T)) = g[x] + Cardinality(Units(g, U))
      BY <2>2, <2>5, <2>6, UnitsApart
    <2> QED BY <2>2, <2>9, <2>10, <2>11
  <1>8. DOMAIN g \in FiniteSubsetsOf(DOMAIN g)
    BY DEF Countable, FiniteSubsetsOf
  <1>9. it[DOMAIN g] = Cardinality(Units(g, DOMAIN g))
    BY <1>7, <1>8
  <1> QED BY <1>1, <1>4, <1>9

\* A sum does not depend on what the arguments are.
LEMMA SumRenamed ==
  ASSUME NEW g, Countable(g), NEW h, Countable(h),
         NEW phi \in Bijection(DOMAIN g, DOMAIN h), \A x \in DOMAIN g : h[phi[x]] = g[x]
  PROVE  SumFunction(g) = SumFunction(h)
PROOF
  <1>1. PICK A : A = Units(g, DOMAIN g)
    OBVIOUS
  <1>2. PICK B : B = Units(h, DOMAIN h)
    OBVIOUS
  <1>3. /\ phi \in [DOMAIN g -> DOMAIN h]
        /\ \A x, y \in DOMAIN g : phi[x] = phi[y] => x = y
        /\ \A z \in DOMAIN h : \E x \in DOMAIN g : phi[x] = z
    BY DEF Bijection, Injection, Surjection, IsInjective
  <1>4. DEFINE psi == [p \in A |-> <<phi[p[1]], p[2]>>]
  <1>5. psi \in [A -> B]
    BY SMT, <1>1, <1>2, <1>3 DEF Units
  <1>6. \A p, q \in A : psi[p] = psi[q] => p = q
    <2>1. SUFFICES ASSUME NEW p \in A, NEW q \in A, psi[p] = psi[q] PROVE p = q
      OBVIOUS
    <2>2. /\ p[1] \in DOMAIN g /\ q[1] \in DOMAIN g
          /\ p = <<p[1], p[2]>> /\ q = <<q[1], q[2]>>
      BY SMT, <1>1 DEF Units
    <2>3. <<phi[p[1]], p[2]>> = <<phi[q[1]], q[2]>>
      BY <2>1
    <2>4. phi[p[1]] = phi[q[1]] /\ p[2] = q[2]
      BY SMT, <2>3
    <2> QED BY <1>3, <2>2, <2>4
  <1>7. \A q \in B : \E p \in A : psi[p] = q
    <2>1. SUFFICES ASSUME NEW q \in B PROVE \E p \in A : psi[p] = q
      OBVIOUS
    <2>2. /\ q[1] \in DOMAIN h /\ q = <<q[1], q[2]>> /\ q[2] \in Nat
          /\ 1 <= q[2] /\ q[2] <= h[q[1]]
      BY SMT, <1>2 DEF Units
    <2>3. PICK x \in DOMAIN g : phi[x] = q[1]
      BY <1>3, <2>2
    <2>4. <<x, q[2]>> \in A
      BY SMT, <1>1, <2>2, <2>3 DEF Units
    <2>5. psi[<<x, q[2]>>] = <<phi[x], q[2]>>
      BY SMT, <2>4
    <2> QED BY <2>2, <2>3, <2>4, <2>5
  <1> HIDE DEF psi
  <1>8. psi \in Bijection(A, B)
    BY <1>5, <1>6, <1>7 DEF Bijection, Injection, Surjection, IsInjective
  <1>9. ExistsBijection(A, B)
    BY <1>8 DEF ExistsBijection
  <1>10. IsFiniteSet(A)
    BY <1>1, UnitsApart
  <1>11. Cardinality(A) = Cardinality(B)
    BY <1>9, <1>10, FS_Bijection
  <1> QED BY <1>1, <1>2, <1>11, SumCounts

\* A function with higher values has the higher sum, or the same values.
LEMMA SumHigher ==
  ASSUME NEW g, Countable(g), NEW h, Countable(h), DOMAIN h = DOMAIN g,
         \A x \in DOMAIN g : g[x] <= h[x]
  PROVE  /\ SumFunction(g) \in Nat /\ SumFunction(h) \in Nat
         /\ SumFunction(g) <= SumFunction(h)
         /\ SumFunction(g) = SumFunction(h) => \A x \in DOMAIN g : g[x] = h[x]
PROOF
  <1>a. PICK D : D = DOMAIN g /\ D = DOMAIN h
    OBVIOUS
  <1>b. \A x \in D : g[x] \in Nat /\ h[x] \in Nat /\ g[x] <= h[x]
    BY <1>a DEF Countable
  <1>1. PICK A : A = Units(g, D)
    OBVIOUS
  <1>2. PICK B : B = Units(h, D)
    OBVIOUS
  <1>3. A \in SUBSET B
    <2>1. ASSUME NEW p \in A PROVE p \in B
      <3>1. p \in D \X Nat /\ 1 <= p[2] /\ p[2] <= g[p[1]]
        BY <1>1 DEF Units
      <3>2. p[1] \in D /\ p[2] \in Nat
        BY ONLY <3>1, SMT
      <3>3. p[2] <= h[p[1]]
        BY ONLY <1>b, <3>1, <3>2, SMT
      <3> QED BY <1>2, <3>1, <3>3 DEF Units
    <2> QED BY <2>1
  <1>4. IsFiniteSet(A) /\ IsFiniteSet(B)
    BY <1>a, <1>1, <1>2, UnitsApart
  <1>5. Cardinality(A) <= Cardinality(B) /\ (Cardinality(B) = Cardinality(A) => B = A)
    BY <1>3, <1>4, FS_Subset
  <1>6. Cardinality(A) \in Nat /\ Cardinality(B) \in Nat
    BY <1>4, FS_CardinalityType
  <1>7. ASSUME A = B, NEW x \in D PROVE g[x] = h[x]
    <2>1. g[x] \in Nat /\ h[x] \in Nat /\ g[x] <= h[x]
      BY <1>b
    <2>2. ASSUME g[x] # h[x] PROVE FALSE
      <3>1. <<x, h[x]>> \in B
        BY SMT, <1>2, <2>1, <2>2 DEF Units
      <3>2. <<x, h[x]>> \in A
        BY <1>7, <3>1
      <3>3. h[x] <= g[x]
        BY SMT, <1>1, <3>2 DEF Units
      <3> QED BY SMT, <2>1, <2>2, <3>3
    <2> QED BY <2>2
  <1>8. SumFunction(g) = Cardinality(A) /\ SumFunction(h) = Cardinality(B)
    BY <1>a, <1>1, <1>2, SumCounts
  <1> QED BY <1>a, <1>5, <1>6, <1>7, <1>8

-----------------------------------------------------------------------------
(* Choosing one entry of every domain.                                     *)

\* An entry of a pool whose verdict is eligible.
IsEntry(e) ==
    /\ e = [spine |-> e.spine, domain |-> e.domain, capacity |-> e.capacity,
            verdict |-> "eligible"]
    /\ e.spine \in Nat /\ e.capacity \in Nat

\* A pool as a question about two leaves finds it.
IsPool(pool) ==
    /\ IsFiniteSet(DOMAIN pool)
    /\ \A x \in DOMAIN pool : IsEntry(pool[x])
    /\ \A x, y \in DOMAIN pool :
         pool[x].spine = pool[y].spine => pool[x].domain = pool[y].domain

\* What a pick of one entry of every domain amounts to: an entry for each domain.
Selection(pool, q) ==
    /\ q = [d \in DomainsOf(pool) |-> q[d]]
    /\ \A d \in DomainsOf(pool) : q[d].domain = d /\ \E x \in DOMAIN pool : q[d] = pool[x]

\* The candidates are the sets of the selections.
LEMMA EnumeratedIs ==
  ASSUME NEW pool, NEW s
  PROVE  s \in Enumerated(pool) <=> \E q : Selection(pool, q) /\ s = SetOf(q)
PROOF
  <1>1. PICK D : D = DomainsOf(pool)
    OBVIOUS
  <1>2. ASSUME s \in Enumerated(pool) PROVE \E q : Selection(pool, q) /\ s = SetOf(q)
    <2>1. PICK pick \in [D -> DOMAIN pool] :
            (\A d \in D : pick[d] \in InDomain(pool, d)) /\ s = Chosen(pool, pick)
      BY <1>1, <1>2 DEF Enumerated
    <2>2. PICK q : q = [d \in D |-> pool[pick[d]]]
      OBVIOUS
    <2>3. s = SetOf(q)
      BY <1>1, <2>1, <2>2 DEF Chosen
    <2>4. q = [d \in D |-> q[d]]
      BY <2>2
    <2>5. \A d \in D : q[d].domain = d /\ \E x \in DOMAIN pool : q[d] = pool[x]
      BY <2>1, <2>2 DEF InDomain
    <2> QED BY <1>1, <2>3, <2>4, <2>5 DEF Selection
  <1>3. ASSUME NEW q, Selection(pool, q), s = SetOf(q) PROVE s \in Enumerated(pool)
    <2>1. PICK pick : pick = [d \in D |-> CHOOSE x \in DOMAIN pool : q[d] = pool[x]]
      OBVIOUS
    <2>2. \A d \in D : pick[d] \in DOMAIN pool /\ q[d] = pool[pick[d]] /\ q[d].domain = d
      BY <1>1, <1>3, <2>1 DEF Selection
    <2>3. pick \in [D -> DOMAIN pool] /\ \A d \in D : pick[d] \in InDomain(pool, d)
      BY <2>1, <2>2 DEF InDomain
    <2>4. q = [d \in D |-> pool[pick[d]]]
      BY <1>1, <1>3, <2>2 DEF Selection
    <2>5. s = Chosen(pool, pick)
      BY <1>1, <1>3, <2>4 DEF Chosen
    <2> QED BY <1>1, <2>3, <2>5 DEF Enumerated
  <1> QED BY <1>2, <1>3

\* There are finitely many candidates.
LEMMA EnumeratedFinite ==
  ASSUME NEW pool, IsFiniteSet(DOMAIN pool)
  PROVE  IsFiniteSet(DomainsOf(pool)) /\ IsFiniteSet(Enumerated(pool))
PROOF
  <1>1. PICK D : D = DomainsOf(pool)
    OBVIOUS
  <1>2. IsFiniteSet(D)
    <2>1. PICK h : h = [x \in DOMAIN pool |-> pool[x].domain]
      OBVIOUS
    <2>2. DOMAIN h = DOMAIN pool /\ \A t \in D : \E x \in DOMAIN pool : t = h[x]
      BY <1>1, <2>1 DEF DomainsOf
    <2> QED BY <2>2, FiniteReach
  <1>3. PICK P : P = SUBSET (D \X DOMAIN pool)
    OBVIOUS
  <1>4. IsFiniteSet(P)
    BY <1>2, <1>3, FS_Product, FS_SUBSET
  <1>5. PICK h : h = [T \in P |-> Chosen(pool, [d \in D |-> CHOOSE x : <<d, x>> \in T])]
    OBVIOUS
  <1>6. ASSUME NEW s \in Enumerated(pool) PROVE \E T \in P : s = h[T]
    <2>1. PICK pick \in [D -> DOMAIN pool] : s = Chosen(pool, pick)
      BY <1>1 DEF Enumerated
    <2>2. PICK T : T = {<<d, pick[d]>> : d \in D}
      OBVIOUS
    <2>3. T \in P
      <3>1. \A d \in D : <<d, pick[d]>> \in D \X DOMAIN pool
        OBVIOUS
      <3> QED BY <1>3, <2>2, <3>1
    <2>4. \A d \in D : \A x : <<d, x>> \in T <=> x = pick[d]
      BY SMT, <2>2
    <2>5. \A d \in D : (CHOOSE x : <<d, x>> \in T) = pick[d]
      BY <2>4
    <2>6. pick = [d \in D |-> CHOOSE x : <<d, x>> \in T]
      BY <2>1, <2>5
    <2>7. h[T] = Chosen(pool, [d \in D |-> CHOOSE x : <<d, x>> \in T])
      BY <1>5, <2>3
    <2>8. s = h[T]
      BY <2>1, <2>6, <2>7
    <2> QED BY <2>3, <2>8
  <1>7. DOMAIN h = P
    BY <1>5
  <1>8. IsFiniteSet(Enumerated(pool))
    BY <1>4, <1>6, <1>7, FiniteReach
  <1> QED BY <1>1, <1>2, <1>8

\* What the set of a selection consists of.
LEMMA SelectionSet ==
  ASSUME NEW pool, IsPool(pool), NEW q, Selection(pool, q)
  PROVE  LET g == [d \in DomainsOf(pool) |-> q[d].capacity]
         IN  /\ SetOf(q).capacity = SumFunction(g) /\ Countable(g)
             /\ DOMAIN SetOf(q).spines = {q[d].spine : d \in DomainsOf(pool)}
             /\ \A d \in DomainsOf(pool) : IsEntry(q[d])
PROOF
  <1>1. PICK D : D = DomainsOf(pool)
    OBVIOUS
  <1>2. DOMAIN q = D /\ \A d \in D : IsEntry(q[d])
    BY <1>1 DEF Selection, IsPool
  <1>3. PICK g : g = [d \in D |-> q[d].capacity]
    OBVIOUS
  <1>4. IsFiniteSet(D)
    BY <1>1, EnumeratedFinite DEF IsPool
  <1>5. Countable(g)
    BY <1>2, <1>3, <1>4 DEF Countable, IsEntry
  <1>6. SetOf(q).capacity = SumFunction(g)
    BY <1>2, <1>3 DEF SetOf, Total
  <1>7. DOMAIN SetOf(q).spines = {q[d].spine : d \in D}
    BY <1>2 DEF SetOf, SpinesOf
  <1> QED BY <1>1, <1>2, <1>3, <1>5, <1>6, <1>7

\* A selection that is at least as good as q in every domain.
AtLeast(b, q, D) ==
    \A d \in D : /\ q[d].capacity <= b[d].capacity
                 /\ q[d].capacity = b[d].capacity => b[d].spine <= q[d].spine

\* The best selection beats every other one, and no selection beats it.
LEMMA BestBeats ==
  ASSUME NEW pool, IsPool(pool), NEW b, Selection(pool, b), NEW q, Selection(pool, q),
         AtLeast(b, q, DomainsOf(pool))
  PROVE  /\ ~set_is_better(SetOf(q), SetOf(b))
         /\ q # b => set_is_better(SetOf(b), SetOf(q))
PROOF
  <1>1. PICK D : D = DomainsOf(pool)
    OBVIOUS
  <1>2. PICK gb : gb = [d \in D |-> b[d].capacity]
    OBVIOUS
  <1>3. PICK gq : gq = [d \in D |-> q[d].capacity]
    OBVIOUS
  <1>4. PICK sb : sb = {b[d].spine : d \in D}
    OBVIOUS
  <1>5. PICK sq : sq = {q[d].spine : d \in D}
    OBVIOUS
  <1>6. /\ SetOf(b).capacity = SumFunction(gb) /\ Countable(gb)
        /\ DOMAIN SetOf(b).spines = sb /\ \A d \in D : IsEntry(b[d])
    BY <1>1, <1>2, <1>4, SelectionSet
  <1>7. /\ SetOf(q).capacity = SumFunction(gq) /\ Countable(gq)
        /\ DOMAIN SetOf(q).spines = sq /\ \A d \in D : IsEntry(q[d])
    BY <1>1, <1>3, <1>5, SelectionSet
  <1>8. /\ SumFunction(gq) \in Nat /\ SumFunction(gb) \in Nat
        /\ SumFunction(gq) <= SumFunction(gb)
        /\ SumFunction(gq) = SumFunction(gb) => \A d \in D : q[d].capacity = b[d].capacity
    <2>1. DOMAIN gq = D /\ DOMAIN gb = D /\ \A d \in D : gq[d] <= gb[d]
      BY <1>1, <1>2, <1>3 DEF AtLeast
    <2>2. /\ SumFunction(gq) \in Nat /\ SumFunction(gb) \in Nat
          /\ SumFunction(gq) <= SumFunction(gb)
          /\ SumFunction(gq) = SumFunction(gb) => \A d \in D : gq[d] = gb[d]
      BY <1>6, <1>7, <2>1, SumHigher
    <2> QED BY <1>2, <1>3, <2>2
  \* A spine has one domain.
  <1>9. ASSUME NEW d \in D, NEW e \in D, b[d].spine = q[e].spine PROVE d = e
    <2>1. b[d].domain = d /\ \E x \in DOMAIN pool : b[d] = pool[x]
      BY <1>1 DEF Selection
    <2>2. q[e].domain = e /\ \E y \in DOMAIN pool : q[e] = pool[y]
      BY <1>1 DEF Selection
    <2>3. \A x, y \in DOMAIN pool :
            pool[x].spine = pool[y].spine => pool[x].domain = pool[y].domain
      BY DEF IsPool
    <2> QED BY <1>9, <2>1, <2>2, <2>3
  <1>10. PICK differ : differ = {n \in sb \cup sq : n \notin sb \cap sq}
    OBVIOUS
  <1>11. differ = {n \in sq \cup sb : n \notin sq \cap sb}
    BY <1>10
  <1>12. /\ Lower(SetOf(b).spines, SetOf(q).spines) <=> differ # {} /\ Min(differ) \in sb
         /\ Lower(SetOf(q).spines, SetOf(b).spines) <=> differ # {} /\ Min(differ) \in sq
    BY <1>6, <1>7, <1>10, <1>11 DEF Lower
  <1>13. ASSUME SumFunction(gq) = SumFunction(gb), differ # {}
         PROVE  Min(differ) \in sb /\ Min(differ) \notin sq
    <2>1. \A d \in D : b[d].spine <= q[d].spine
      BY <1>1, <1>8, <1>13 DEF AtLeast
    <2>2. \A d \in D : b[d].spine \in Nat /\ q[d].spine \in Nat
      BY <1>6, <1>7 DEF IsEntry
    <2>3. differ \in SUBSET Nat
      BY <1>4, <1>5, <1>10, <2>2
    <2>4. PICK low \in differ : \A n \in differ : low <= n
      BY <1>13, <2>3, LowestNumber
    <2>5. Min(differ) \in differ /\ \A n \in differ : Min(differ) <= n
      BY <2>4 DEF Min
    <2>6. PICK mu : mu = Min(differ)
      OBVIOUS
    <2>7. ASSUME mu \in sq PROVE FALSE
      <3>1. PICK d \in D : mu = q[d].spine
        BY <1>5, <2>7
      <3>2. b[d].spine # q[d].spine
        BY <1>4, <1>10, <2>5, <2>6, <2>7, <3>1
      <3>3. b[d].spine \in differ
        <4>1. b[d].spine \in sb
          BY <1>4
        <4>2. b[d].spine \notin sq
          BY <1>5, <1>9, <3>2
        <4> QED BY <1>10, <4>1, <4>2
      <3>4. mu <= b[d].spine
        BY <2>5, <2>6, <3>3
      <3> QED BY SMT, <2>1, <2>2, <3>1, <3>2, <3>4
    <2> QED BY <1>10, <2>5, <2>6, <2>7
  <1>14. ASSUME SumFunction(gq) = SumFunction(gb), q # b PROVE differ # {}
    <2>1. PICK d \in D : q[d] # b[d]
      BY <1>1, <1>14 DEF Selection
    <2>2. q[d].spine # b[d].spine
      <3>1. q[d].capacity = b[d].capacity
        BY <1>8, <1>14
      <3>2. q[d].domain = b[d].domain
        BY <1>1 DEF Selection
      <3>3. IsEntry(q[d]) /\ IsEntry(b[d])
        BY <1>6, <1>7
      <3> QED BY <2>1, <3>1, <3>2, <3>3 DEF IsEntry
    <2>3. b[d].spine \in sb
      BY <1>4
    <2>4. b[d].spine \notin sq
      BY <1>5, <1>9, <2>2
    <2> QED BY <1>10, <2>3, <2>4
  <1>15. ~set_is_better(SetOf(q), SetOf(b))
    <2>1. ASSUME SetOf(q).capacity > SetOf(b).capacity PROVE FALSE
      BY SMT, <1>6, <1>7, <1>8, <2>1
    <2>2. ASSUME SetOf(q).capacity = SetOf(b).capacity PROVE ~Lower(SetOf(q).spines, SetOf(b).spines)
      BY <1>6, <1>7, <1>12, <1>13, <2>2
    <2> QED BY <2>1, <2>2 DEF set_is_better
  <1>16. ASSUME q # b PROVE set_is_better(SetOf(b), SetOf(q))
    <2>1. CASE SumFunction(gq) = SumFunction(gb)
      BY <1>6, <1>7, <1>12, <1>13, <1>14, <1>16, <2>1 DEF set_is_better
    <2>2. CASE SumFunction(gq) # SumFunction(gb)
      <3>1. SumFunction(gb) > SumFunction(gq)
        BY SMT, <1>8, <2>2
      <3> QED BY <1>6, <1>7, <3>1 DEF set_is_better
    <2> QED BY <2>1, <2>2
  <1> QED BY <1>15, <1>16

\* The fastest entry of a domain, and of the fastest the lowest spine.
Best(pool, d, x) ==
    /\ x \in InDomain(pool, d)
    /\ \A y \in InDomain(pool, d) :
         /\ pool[y].capacity <= pool[x].capacity
         /\ pool[y].capacity = pool[x].capacity => pool[x].spine <= pool[y].spine

\* Every domain of a pool has a best entry.
LEMMA BestExists ==
  ASSUME NEW pool, IsPool(pool), NEW d \in DomainsOf(pool)
  PROVE  \E x : Best(pool, d, x)
PROOF
  <1>1. PICK E : E = InDomain(pool, d)
    OBVIOUS
  <1>2. E # {} /\ E \in SUBSET DOMAIN pool /\ IsFiniteSet(E)
    BY <1>1, FS_Subset DEF DomainsOf, InDomain, IsPool
  <1>3. PICK C : C = {pool[x].capacity : x \in E}
    OBVIOUS
  <1>4. IsFiniteSet(C)
    <2>1. PICK h : h = [x \in E |-> pool[x].capacity]
      OBVIOUS
    <2>2. DOMAIN h = E /\ \A t \in C : \E x \in E : t = h[x]
      BY <1>3, <2>1
    <2> QED BY <1>2, <2>2, FiniteReach
  <1>a. \A x \in E : pool[x].capacity \in Nat /\ pool[x].spine \in Nat
    BY <1>2 DEF IsPool, IsEntry
  <1>5. C \in SUBSET Nat /\ C # {}
    BY <1>2, <1>3, <1>a
  <1>6. PICK top \in C : \A n \in C : n <= top
    BY <1>4, <1>5, FiniteMax
  <1>7. PICK S : S = {pool[x].spine : x \in {x \in E : pool[x].capacity = top}}
    OBVIOUS
  <1>8. S \in SUBSET Nat /\ S # {}
    BY <1>3, <1>6, <1>7, <1>a
  <1>9. PICK low \in S : \A n \in S : low <= n
    BY <1>8, LowestNumber
  <1>10. PICK x \in E : pool[x].capacity = top /\ pool[x].spine = low
    BY <1>7, <1>9
  <1>11. ASSUME NEW y \in E
         PROVE  /\ pool[y].capacity <= pool[x].capacity
                /\ pool[y].capacity = pool[x].capacity => pool[x].spine <= pool[y].spine
    BY <1>3, <1>6, <1>7, <1>9, <1>10
  <1> QED BY <1>1, <1>10, <1>11 DEF Best

\* What is picked domain by domain is the best entry of every domain.
LEMMA GreedyPicks ==
  ASSUME NEW pool, IsPool(pool)
  PROVE  \E b : /\ Selection(pool, b) /\ Greedy(pool) = {SetOf(b)}
                /\ \A q : Selection(pool, q) => AtLeast(b, q, DomainsOf(pool))
PROOF
  <1>1. PICK D : D = DomainsOf(pool)
    OBVIOUS
  <1>2. DEFINE better(x, y) == \/ pool[x].capacity > pool[y].capacity
                               \/ /\ pool[x].capacity = pool[y].capacity
                                  /\ pool[x].spine < pool[y].spine
  <1>3. PICK best : best = [d \in D |-> CHOOSE x \in InDomain(pool, d) :
                                          \A y \in InDomain(pool, d) : ~better(y, x)]
    OBVIOUS
  <1>4. PICK b : b = [d \in D |-> pool[best[d]]]
    OBVIOUS
  <1>5. Greedy(pool) = {SetOf(b)}
    <2>1. Greedy(pool) = {Chosen(pool, best)}
      BY <1>1, <1>3 DEF Greedy
    <2> QED BY <1>1, <1>4, <2>1 DEF Chosen
  <1>6. \A x \in DOMAIN pool : pool[x].capacity \in Nat /\ pool[x].spine \in Nat
    BY DEF IsPool, IsEntry
  <1>7. ASSUME NEW d \in D PROVE Best(pool, d, best[d])
    <2>1. \A x \in InDomain(pool, d) : x \in DOMAIN pool
      BY DEF InDomain
    <2>2. ASSUME NEW x \in InDomain(pool, d), NEW y \in InDomain(pool, d)
          PROVE  ~better(y, x) <=>
                   /\ pool[y].capacity <= pool[x].capacity
                   /\ pool[y].capacity = pool[x].capacity => pool[x].spine <= pool[y].spine
      <3>1. /\ pool[x].capacity \in Nat /\ pool[x].spine \in Nat
            /\ pool[y].capacity \in Nat /\ pool[y].spine \in Nat
        BY <1>6, <2>1
      <3> QED BY SMT, <3>1
    <2> HIDE DEF better
    <2>3. \E x : Best(pool, d, x)
      BY <1>1, BestExists
    <2>4. \E x \in InDomain(pool, d) : \A y \in InDomain(pool, d) : ~better(y, x)
      BY <2>2, <2>3 DEF Best
    <2>5. /\ best[d] \in InDomain(pool, d)
          /\ \A y \in InDomain(pool, d) : ~better(y, best[d])
      BY <1>3, <2>4
    <2> QED BY <2>2, <2>5 DEF Best
  <1>8. Selection(pool, b)
    <2>1. \A d \in D : b[d].domain = d /\ \E x \in DOMAIN pool : b[d] = pool[x]
      BY <1>4, <1>7 DEF Best, InDomain
    <2>2. b = [d \in D |-> b[d]]
      BY <1>4
    <2> QED BY <1>1, <2>1, <2>2 DEF Selection
  <1>9. ASSUME NEW q, Selection(pool, q) PROVE AtLeast(b, q, D)
    <2>1. ASSUME NEW d \in D
          PROVE  /\ q[d].capacity <= b[d].capacity
                 /\ q[d].capacity = b[d].capacity => b[d].spine <= q[d].spine
      <3>1. PICK x \in DOMAIN pool : q[d] = pool[x] /\ pool[x].domain = d
        BY <1>1, <1>9 DEF Selection
      <3>2. x \in InDomain(pool, d)
        BY <3>1 DEF InDomain
      <3>3. b[d] = pool[best[d]]
        BY <1>4
      <3> QED BY <1>7, <3>1, <3>2, <3>3 DEF Best
    <2> QED BY <2>1 DEF AtLeast
  <1> QED BY <1>1, <1>5, <1>8, <1>9

\* The candidate picked domain by domain is the one ranked first.
LEMMA GreedyRanksFirst ==
  ASSUME NEW pool, IsPool(pool)
  PROVE  Greedy(pool) = Ranked(Enumerated(pool), 1)
PROOF
  <1>1. PICK b : /\ Selection(pool, b) /\ Greedy(pool) = {SetOf(b)}
                 /\ \A q : Selection(pool, q) => AtLeast(b, q, DomainsOf(pool))
    BY GreedyPicks
  <1>2. PICK E : E = Enumerated(pool)
    OBVIOUS
  <1>3. IsFiniteSet(E)
    BY <1>2, EnumeratedFinite DEF IsPool
  <1>4. SetOf(b) \in E
    BY <1>1, <1>2, EnumeratedIs
  <1>5. \A t \in E : ~set_is_better(t, SetOf(b))
    <2>1. SUFFICES ASSUME NEW t \in E PROVE ~set_is_better(t, SetOf(b))
      OBVIOUS
    <2>2. PICK q : Selection(pool, q) /\ t = SetOf(q)
      BY <1>2, EnumeratedIs
    <2> QED BY <1>1, <2>2, BestBeats
  <1>6. \A s \in E : s # SetOf(b) => set_is_better(SetOf(b), s)
    <2>1. SUFFICES ASSUME NEW s \in E, s # SetOf(b) PROVE set_is_better(SetOf(b), s)
      OBVIOUS
    <2>2. PICK q : Selection(pool, q) /\ s = SetOf(q)
      BY <1>2, EnumeratedIs
    <2> QED BY <1>1, <2>1, <2>2, BestBeats
  <1>7. ASSUME NEW s \in E
        PROVE  Cardinality({t \in E : set_is_better(t, s)}) < 1 <=> s = SetOf(b)
    <2>1. PICK B : B = {t \in E : set_is_better(t, s)}
      OBVIOUS
    <2>2. IsFiniteSet(B)
      BY <1>3, <2>1, FS_Subset
    <2>3. Cardinality(B) \in Nat /\ (Cardinality(B) = 0 <=> B = {})
      BY <2>2, FS_CardinalityType, FS_EmptySet
    <2>4. B = {} <=> s = SetOf(b)
      BY <1>4, <1>5, <1>6, <2>1
    <2> QED BY SMT, <2>1, <2>3, <2>4
  <1>8. Ranked(E, 1) = {SetOf(b)}
    BY <1>4, <1>7 DEF Ranked
  <1> QED BY <1>1, <1>2, <1>8

-----------------------------------------------------------------------------
(* The index.                                                              *)

\* x is one end of an enabled link.
IsEnd(f, x) ==
    /\ x.link \in EnabledLinks(f)
    /\ \/ /\ x.self = f.links[x.link].a /\ x.peer = f.links[x.link].b
          /\ x.local = f.links[x.link].pa /\ x.remote = f.links[x.link].pb
       \/ /\ x.self = f.links[x.link].b /\ x.peer = f.links[x.link].a
          /\ x.local = f.links[x.link].pb /\ x.remote = f.links[x.link].pa
    /\ x.cls = f.links[x.link].cls
    /\ x.speed = effective_link_speed(f, f.links[x.link])

\* build() lists ends of enabled links only.
LEMMA BuiltEnds ==
  ASSUME NEW f, NEW x \in build(f)
  PROVE  IsEnd(f, x)
PROOF
  <1>1. PICK i \in EnabledLinks(f) : x = Forward(f, i) \/ x = Backward(f, i)
    BY DEF build
  <1>2. CASE x = Forward(f, i)
    BY <1>1, <1>2 DEF Forward, IsEnd
  <1>3. CASE x = Backward(f, i)
    BY <1>1, <1>3 DEF Backward, IsEnd
  <1> QED BY <1>1, <1>2, <1>3

\* An adjacency is determined by its link and the node it belongs to.
LEMMA BuiltOnce ==
  ASSUME NEW f, WellFormed(f), NEW x \in build(f), NEW y \in build(f),
         x.link = y.link, x.self = y.self
  PROVE  x = y
PROOF
  <1>1. PICK i \in EnabledLinks(f) : x = Forward(f, i) \/ x = Backward(f, i)
    BY DEF build
  <1>2. PICK j \in EnabledLinks(f) : y = Forward(f, j) \/ y = Backward(f, j)
    BY DEF build
  <1>3. i = j
    BY SMT, <1>1, <1>2 DEF Forward, Backward
  <1>4. f.links[i].a # f.links[i].b
    BY <1>1 DEF EnabledLinks, WellFormed, Attached
  <1> QED BY SMT, <1>1, <1>2, <1>3, <1>4 DEF Forward, Backward

\* There are finitely many adjacencies.
LEMMA BuiltFinite ==
  ASSUME NEW f, WellFormed(f)
  PROVE  IsFiniteSet(build(f))
PROOF
  <1>1. IsFiniteSet(EnabledLinks(f))
    BY FS_Subset DEF EnabledLinks, WellFormed, FabricShape
  <1>2. DEFINE A == {Forward(f, i) : i \in EnabledLinks(f)}
  <1>3. DEFINE B == {Backward(f, i) : i \in EnabledLinks(f)}
  <1>4. IsFiniteSet(A)
    <2>1. DEFINE g == [i \in EnabledLinks(f) |-> Forward(f, i)]
    <2>2. DOMAIN g = EnabledLinks(f) /\ \A t \in A : \E s \in EnabledLinks(f) : t = g[s]
      OBVIOUS
    <2> HIDE DEF g, A
    <2> QED BY <1>1, <2>2, FiniteReach
  <1>5. IsFiniteSet(B)
    <2>1. DEFINE g == [i \in EnabledLinks(f) |-> Backward(f, i)]
    <2>2. DOMAIN g = EnabledLinks(f) /\ \A t \in B : \E s \in EnabledLinks(f) : t = g[s]
      OBVIOUS
    <2> HIDE DEF g, B
    <2> QED BY <1>1, <2>2, FiniteReach
  <1>6. build(f) = A \cup B
    BY DEF build
  <1> HIDE DEF A, B
  <1> QED BY <1>4, <1>5, <1>6, FS_Union

\* The first and the last of some adjacencies are among them.
LEMMA Extremes ==
  ASSUME NEW f, WellFormed(f), NEW S \in SUBSET build(f), S # {}
  PROVE  /\ Lowest(S) \in S /\ \A y \in S : Lowest(S).link <= y.link
         /\ Highest(S) \in S /\ \A y \in S : Highest(S).link >= y.link
PROOF
  <1>1. DEFINE L == {x.link : x \in S}
  <1>2. L \in SUBSET DOMAIN f.links /\ L # {}
    BY BuiltEnds DEF IsEnd, EnabledLinks
  <1>3. L \in SUBSET Nat /\ IsFiniteSet(L)
    BY <1>2, FS_Subset DEF WellFormed, FabricShape
  <1>4. (\E n \in L : \A m \in L : n <= m) /\ (\E n \in L : \A m \in L : m <= n)
    <2> HIDE DEF L
    <2> QED BY <1>2, <1>3, LowestNumber, FiniteMax
  <1>5. \E x \in S : \A y \in S : x.link <= y.link
    BY <1>4
  <1>6. \E x \in S : \A y \in S : x.link >= y.link
    BY <1>3, <1>4
  <1> QED BY <1>5, <1>6 DEF Lowest, Highest

\* What an uplink of a leaf is.
IsUplink(f, n, x) ==
    /\ x \in build(f) /\ x.self = Leaf(n) /\ x.cls = "leafspine"
    /\ n \in DOMAIN f.leaves
    /\ x.peer = Spine(Index(x.peer)) /\ Index(x.peer) \in DOMAIN f.spines
    /\ x.local \in DOMAIN f.ports /\ x.remote \in DOMAIN f.ports
    /\ x.link \in EnabledLinks(f) /\ Joins(f.links[x.link], Leaf(n), x.peer)
    /\ {f.links[x.link].pa, f.links[x.link].pb} = {x.local, x.remote}
    /\ effective_link_speed(f, f.links[x.link]) # 0

\* What an uplink of a leaf is in the index.
LEMMA UplinkFacts ==
  ASSUME NEW f, WellFormed(f), NEW n, NEW x \in uplinks(f, n)
  PROVE  IsUplink(f, n, x)
PROOF
  <1>1. x \in build(f) /\ x.self = Leaf(n) /\ x.cls = "leafspine"
    BY DEF uplinks, OfClass, adjacencies
  <1>2. IsEnd(f, x)
    BY <1>1, BuiltEnds
  <1>3. PICK l : l = f.links[x.link]
    OBVIOUS
  <1>4. Attached(f, l) /\ LinkShape(l) /\ effective_link_speed(f, l) # 0
    BY <1>2, <1>3 DEF IsEnd, EnabledLinks, WellFormed, FabricShape, validate_links
  <1>5. x.peer \in NodeKeys /\ Tier(x.peer) = "spine"
    BY SMT, <1>1, <1>2, <1>3, <1>4 DEF IsEnd, LinkShape, Attached, NodeKeys, Tier, Leaf
  <1>6. x.peer = Spine(Index(x.peer))
    BY SMT, <1>5 DEF NodeKeys, Tier, Spine, Index
  <1>7. n \in DOMAIN f.leaves /\ Index(x.peer) \in DOMAIN f.spines
    BY SMT, <1>1, <1>2, <1>3, <1>4, <1>5 DEF IsEnd, Attached, HasNode, Tier, Index, Leaf
  <1>8. x.local \in DOMAIN f.ports /\ x.remote \in DOMAIN f.ports
    BY <1>2, <1>3, <1>4 DEF IsEnd, Attached, PortBelongs
  <1>9. Joins(f.links[x.link], Leaf(n), x.peer)
    BY <1>1, <1>2 DEF IsEnd, Joins
  <1>10. {f.links[x.link].pa, f.links[x.link].pb} = {x.local, x.remote}
    BY <1>2 DEF IsEnd
  <1> QED BY <1>1, <1>2, <1>3, <1>4, <1>6, <1>7, <1>8, <1>9, <1>10 DEF IsEnd, IsUplink

\* An enabled link between a leaf and a spine is an uplink of the leaf.
LEMMA LinkIsUplink ==
  ASSUME NEW f, WellFormed(f), NEW n, NEW s, NEW i \in EnabledLinks(f),
         Joins(f.links[i], Leaf(n), Spine(s))
  PROVE  \E x \in uplinks(f, n) : x.link = i /\ x.peer = Spine(s)
PROOF
  <1>1. PICK l : l = f.links[i]
    OBVIOUS
  <1>2. Attached(f, l) /\ LinkShape(l)
    BY <1>1 DEF EnabledLinks, WellFormed, FabricShape
  <1>3. \/ l.a = Leaf(n) /\ l.b = Spine(s)
        \/ l.a = Spine(s) /\ l.b = Leaf(n)
    BY <1>1, <1>2 DEF Joins, Attached
  <1>4. l.cls = "leafspine"
    BY SMT, <1>2, <1>3 DEF Attached, LinkShape, Tier, Leaf, Spine
  <1>5. CASE l.a = Leaf(n) /\ l.b = Spine(s)
    <2>1. Forward(f, i) \in uplinks(f, n) /\ Forward(f, i).link = i
             /\ Forward(f, i).peer = Spine(s)
      BY <1>1, <1>4, <1>5 DEF Forward, uplinks, OfClass, adjacencies, build
    <2> QED BY <2>1
  <1>6. CASE l.a = Spine(s) /\ l.b = Leaf(n)
    <2>1. Backward(f, i) \in uplinks(f, n) /\ Backward(f, i).link = i
             /\ Backward(f, i).peer = Spine(s)
      BY <1>1, <1>4, <1>6 DEF Backward, uplinks, OfClass, adjacencies, build
    <2> QED BY <2>1
  <1> QED BY <1>3, <1>5, <1>6

-----------------------------------------------------------------------------
(* The engine against the reference evaluation.                            *)

\* An uplink that configuration lets carry traffic passes the reference.
LEMMA InServiceIsReference ==
  ASSUME NEW f, WellFormed(f), NEW n, NEW x \in uplinks(f, n), InService(f, n, x)
  PROVE  link_eligible_config_only(f, n, Index(x.peer))
PROOF
  <1>1. IsUplink(f, n, x)
    BY UplinkFacts
  <1>2. PICK s : s = Index(x.peer)
    OBVIOUS
  <1>3. HasNode(f, Leaf(n)) /\ HasNode(f, Spine(s))
    BY <1>1, <1>2 DEF IsUplink, HasNode, Leaf, Spine, Tier, Index
  <1>4. state_is_serving(node_state(f, Leaf(n))) /\ state_is_serving(node_state(f, Spine(s)))
    BY <1>1, <1>2 DEF InService, IsUplink
  <1>5. PICK l : l = f.links[x.link]
    OBVIOUS
  <1>6. /\ Joins(l, Leaf(n), Spine(s)) /\ effective_link_speed(f, l) # 0
        /\ {l.pa, l.pb} = {x.local, x.remote} /\ x.link \in EnabledLinks(f)
        /\ x.local \in DOMAIN f.ports /\ x.remote \in DOMAIN f.ports
    BY <1>1, <1>2, <1>5 DEF IsUplink
  <1>7. \A p \in {x.local, x.remote} : f.ports[p].admin = "enabled"
    BY DEF InService, PortsEnabled
  <1> QED BY <1>2, <1>3, <1>4, <1>5, <1>6, <1>7 DEF link_eligible_config_only

-----------------------------------------------------------------------------
(* Shared uplinks and their pool.                                          *)

\* The uplink of m that an uplink of n is combined with.
Partner(f, m, y) == Highest(Towards(uplinks(f, m), y.peer))

\* The uplink of the first leaf that a shared uplink is combined with.
LEMMA PartnerFacts ==
  ASSUME NEW f, WellFormed(f), NEW m, NEW n, NEW y \in SharedUplinks(f, m, n)
  PROVE  /\ y \in uplinks(f, n)
         /\ Partner(f, m, y) \in uplinks(f, m)
         /\ Partner(f, m, y).peer = y.peer
PROOF
  <1>1. y \in uplinks(f, n) /\ Towards(uplinks(f, m), y.peer) # {}
    BY DEF SharedUplinks
  <1>2. Towards(uplinks(f, m), y.peer) \in SUBSET build(f)
    BY DEF Towards, uplinks, OfClass, adjacencies
  <1>3. Partner(f, m, y) \in Towards(uplinks(f, m), y.peer)
    BY <1>1, <1>2, Extremes DEF Partner
  <1> QED BY <1>1, <1>3 DEF Towards

\* The eligible part of the shared uplinks.
PairPool(f, m, n, c, me) == EligiblePool(Combined(f, m, n, c, me))

\* Both uplinks behind a shared uplink are eligible.
BothEligible(f, m, n, y, c, me) ==
    /\ evaluate_uplink(f, m, Partner(f, m, y), c, me).verdict = "eligible"
    /\ evaluate_uplink(f, n, y, c, me).verdict = "eligible"

\* What combining the uplinks of two leaves makes of a shared uplink.
LEMMA CombinedEntry ==
  ASSUME NEW f, WellFormed(f), NEW m, NEW n, NEW c, NEW me,
         NEW y \in SharedUplinks(f, m, n)
  PROVE  LET e == Combined(f, m, n, c, me)[y]
         IN  /\ e.spine = Index(y.peer) /\ e.domain = node_domain(f, y.peer)
             /\ e.verdict = "eligible" <=> BothEligible(f, m, n, y, c, me)
PROOF
  <1>1. PICK x : x = Partner(f, m, y)
    OBVIOUS
  <1>2. x.peer = y.peer
    BY <1>1, PartnerFacts
  <1>3. PICK o : o = evaluate_uplink(f, m, x, c, me)
    OBVIOUS
  <1>4. PICK e : e = evaluate_uplink(f, n, y, c, me)
    OBVIOUS
  <1>5. /\ o.spine = Index(y.peer) /\ o.domain = node_domain(f, y.peer)
        /\ e.spine = Index(y.peer) /\ e.domain = node_domain(f, y.peer)
        /\ DOMAIN o = {"spine", "domain", "capacity", "verdict"}
    BY <1>2, <1>3, <1>4 DEF evaluate_uplink
  <1>6. Combined(f, m, n, c, me)[y] = Joined(o, e)
    BY <1>1, <1>3, <1>4 DEF Combined, Partner
  <1>7. LET j == Joined(o, e)
        IN  /\ j.spine = Index(y.peer) /\ j.domain = node_domain(f, y.peer)
            /\ j.verdict = "eligible" <=> o.verdict = "eligible" /\ e.verdict = "eligible"
    BY <1>5 DEF Joined
  <1> QED BY <1>1, <1>3, <1>4, <1>6, <1>7 DEF BothEligible

\* What an entry of the pool says of its uplink.
EntryOf(f, y, e) ==
    e.spine = Index(y.peer) /\ e.domain = node_domain(f, y.peer) /\ e.verdict = "eligible"

\* The eligible pool has the shared uplinks that are eligible on both sides.
LEMMA PoolFacts ==
  ASSUME NEW f, WellFormed(f), NEW m, NEW n, NEW c, NEW me
  PROVE  /\ DOMAIN PairPool(f, m, n, c, me) =
              {y \in SharedUplinks(f, m, n) : BothEligible(f, m, n, y, c, me)}
         /\ \A y \in DOMAIN PairPool(f, m, n, c, me) :
              EntryOf(f, y, PairPool(f, m, n, c, me)[y])
PROOF
  <1>1. DEFINE all == Combined(f, m, n, c, me)
  <1>2. DOMAIN all = SharedUplinks(f, m, n)
    BY DEF Combined
  <1>3. \A y \in DOMAIN all : /\ all[y].spine = Index(y.peer)
                              /\ all[y].domain = node_domain(f, y.peer)
                              /\ all[y].verdict = "eligible" <=> BothEligible(f, m, n, y, c, me)
    BY SMT, <1>2, CombinedEntry
  <1> HIDE DEF all
  <1>4. PairPool(f, m, n, c, me) = [y \in {y \in DOMAIN all : all[y].verdict = "eligible"} |-> all[y]]
    BY DEF PairPool, EligiblePool, Having, Restrict, all
  <1> QED BY <1>2, <1>3, <1>4 DEF EntryOf

\* An uplink counts as eligible only when it is in service.
LEMMA EligibleInService ==
  ASSUME NEW f, NEW n, NEW x, NEW c, NEW me,
         evaluate_uplink(f, n, x, c, me).verdict = "eligible"
  PROVE  InService(f, n, x)
  BY DEF evaluate_uplink

\* Every spine of the pool passes the reference on both sides.
LEMMA PoolIsReference ==
  ASSUME NEW f, WellFormed(f), NEW m, NEW n, NEW c, NEW me,
         NEW y \in DOMAIN PairPool(f, m, n, c, me)
  PROVE  LET s == Index(y.peer)
         IN  /\ s \in DOMAIN f.spines
             /\ link_eligible_config_only(f, m, s) /\ link_eligible_config_only(f, n, s)
PROOF
  <1>1. y \in SharedUplinks(f, m, n) /\ BothEligible(f, m, n, y, c, me)
    BY PoolFacts
  <1>2. PICK x : x = Partner(f, m, y)
    OBVIOUS
  <1>3. y \in uplinks(f, n) /\ x \in uplinks(f, m) /\ x.peer = y.peer
    BY <1>1, <1>2, PartnerFacts
  <1>4. InService(f, m, x) /\ InService(f, n, y)
    BY <1>1, <1>2, EligibleInService DEF BothEligible
  <1>5. Index(y.peer) \in DOMAIN f.spines
    BY <1>3, UplinkFacts DEF IsUplink
  <1>6. link_eligible_config_only(f, n, Index(y.peer))
    BY <1>3, <1>4, InServiceIsReference
  <1>7. link_eligible_config_only(f, m, Index(x.peer))
    BY <1>3, <1>4, InServiceIsReference
  <1> QED BY <1>3, <1>5, <1>6, <1>7

-----------------------------------------------------------------------------
(* Answers.                                                                *)

\* The spines an answer names are those of its pool.
LEMMA SpinesOfPool ==
  ASSUME NEW pool
  PROVE  /\ DOMAIN SpinesOf(pool) = {pool[x].spine : x \in DOMAIN pool}
         /\ SpinesOf(pool) = EmptyCounts <=> DOMAIN pool = {}
PROOF
  <1>1. DOMAIN SpinesOf(pool) = {pool[x].spine : x \in DOMAIN pool}
    BY DEF SpinesOf
  <1>2. DOMAIN EmptyCounts = {}
    BY DEF EmptyCounts
  <1>3. ASSUME DOMAIN pool = {} PROVE SpinesOf(pool) = EmptyCounts
    BY <1>3 DEF SpinesOf, EmptyCounts
  <1> QED BY <1>1, <1>2, <1>3

SharedClasses == {"LeafLeafSingleSpine", "LeafLeafMultiSpine"}
PairClasses == SharedClasses \cup {"SameNode", "DirectLeafSpine", "DirectPeer",
                                   "LeafSpineViaPeer", "Unreachable"}

PairClass(f, m, n) == structural_class(f, Leaf(m), Leaf(n))

\* The classes two leaves may have; a leaf and itself are their own class.
LEMMA PairClassType ==
  ASSUME NEW f, NEW m, NEW n
  PROVE  /\ PairClass(f, m, n) \in PairClasses
         /\ PairClass(f, m, n) = "SameNode" <=> m = n
PROOF
  <1>1. LeafPairClass(f, Leaf(m), Leaf(n)) \in SharedClasses \cup {"LeafSpineViaPeer", "Unreachable"}
    BY DEF LeafPairClass, SharedClasses
  <1>2. Tier(Leaf(m)) = "leaf" /\ Tier(Leaf(n)) = "leaf" /\ (Leaf(m) = Leaf(n) <=> m = n)
    BY DEF Tier, Leaf
  <1> QED BY <1>1, <1>2 DEF PairClass, structural_class, PairClasses, SharedClasses

\* The parts of an answer about two leaves that share a spine.
LEMMA SharedFields ==
  ASSUME NEW f, NEW m, NEW n, NEW c, NEW me
  PROVE  LET A == assess_shared(f, m, n, c, me)
             pool == PairPool(f, m, n, c, me)
             all == Combined(f, m, n, c, me)
         IN  /\ A.verdict = Verdict(Met(f, m, n, pool, c), Cardinality(DOMAIN pool),
                                    Cardinality(Having(all, "indeterminate")))
             /\ A.spines = SpinesOf(pool) /\ A.domains = DomainsOf(pool)
             /\ A.tolerance = ToleranceOf(pool)
             /\ A.from = Leaf(m) /\ A.to = Leaf(n) /\ A.at = Coordinate(f, me)
  BY DEF assess_shared, PairPool, Bare

\* An answer about two leaves.
LEMMA PairAnswer ==
  ASSUME NEW f, NEW m, NEW n, NEW c, NEW me
  PROVE  LET A == assess_leaf_pair(f, m, n, c, me)
         IN  /\ PairClass(f, m, n) \in SharedClasses => A = assess_shared(f, m, n, c, me)
             /\ PairClass(f, m, n) \notin SharedClasses =>
                  /\ A.spines = EmptyCounts /\ A.domains = {} /\ A.tolerance = 0
             /\ A.from = Leaf(m) /\ A.to = Leaf(n) /\ A.at = Coordinate(f, me)
PROOF
  <1>1. CASE PairClass(f, m, n) \in SharedClasses
    <2>1. assess_leaf_pair(f, m, n, c, me) = assess_shared(f, m, n, c, me)
      BY <1>1 DEF assess_leaf_pair, PairClass, SharedClasses
    <2> QED BY SMT, <1>1, <2>1, SharedFields
  <1>2. CASE PairClass(f, m, n) = "DirectPeer"
    <2>1. assess_leaf_pair(f, m, n, c, me) = assess_peer(f, Leaf(m), Leaf(n), c, me)
      BY <1>2 DEF assess_leaf_pair, PairClass
    <2>2. LET A == assess_peer(f, Leaf(m), Leaf(n), c, me)
          IN  /\ A.spines = EmptyCounts /\ A.domains = {} /\ A.tolerance = 0
              /\ A.from = Leaf(m) /\ A.to = Leaf(n) /\ A.at = Coordinate(f, me)
      BY DEF assess_peer, Bare
    <2> QED BY <1>2, <2>1, <2>2 DEF SharedClasses
  <1>3. CASE PairClass(f, m, n) \in
               {"SameNode", "DirectLeafSpine", "LeafSpineViaPeer", "Unreachable"}
    <2>1. \E v : assess_leaf_pair(f, m, n, c, me) = Bare(f, Leaf(m), Leaf(n), me, v)
      BY <1>3 DEF assess_leaf_pair, PairClass
    <2> QED BY SMT, <1>3, <2>1 DEF Bare, SharedClasses
  <1> QED BY <1>1, <1>2, <1>3, PairClassType DEF PairClasses

\* A spine is reported for two leaves only if the reference allows it on both
\* sides.
LEMMA FoundInReference ==
  ASSUME NEW f, WellFormed(f), NEW m, NEW n, NEW c, NEW me
  PROVE  DOMAIN assess_leaf_pair(f, m, n, c, me).spines
           \subseteq eligible_spines_for_pair(f, m, n)
PROOF
  <1>1. CASE PairClass(f, m, n) \notin SharedClasses
    BY SMT, <1>1, PairAnswer DEF EmptyCounts
  <1>2. CASE PairClass(f, m, n) \in SharedClasses
    <2>1. PICK pool : pool = PairPool(f, m, n, c, me)
      OBVIOUS
    <2>2. assess_leaf_pair(f, m, n, c, me).spines = SpinesOf(pool)
      BY SMT, <1>2, <2>1, PairAnswer, SharedFields
    <2>3. DOMAIN SpinesOf(pool) = {pool[y].spine : y \in DOMAIN pool}
      BY SpinesOfPool
    <2>4. SUFFICES ASSUME NEW y \in DOMAIN pool
                   PROVE  pool[y].spine \in eligible_spines_for_pair(f, m, n)
      BY <2>2, <2>3
    <2>5. pool[y].spine = Index(y.peer)
      <3>1. EntryOf(f, y, pool[y])
        BY <2>1, PoolFacts
      <3> QED BY <3>1 DEF EntryOf
    <2> QED BY <2>1, <2>5, PoolIsReference DEF eligible_spines_for_pair
  <1> QED BY <1>1, <1>2

-----------------------------------------------------------------------------
(* Fabrics without parallel links.                                         *)

\* A leaf has at most one uplink to a spine.
LEMMA OneUplink ==
  ASSUME NEW f, WellFormed(f), ~Parallel(f), NEW n,
         NEW x \in uplinks(f, n), NEW z \in uplinks(f, n), x.peer = z.peer
  PROVE  x = z
PROOF
  <1>1. IsUplink(f, n, x) /\ IsUplink(f, n, z)
    BY UplinkFacts
  <1>2. x.link \in DOMAIN f.links /\ z.link \in DOMAIN f.links
    BY <1>1 DEF IsUplink, EnabledLinks
  <1>3. Joins(f.links[x.link], f.links[z.link].a, f.links[z.link].b)
    BY <1>1 DEF IsUplink, Joins
  <1>4. x.link = z.link
    BY <1>2, <1>3 DEF Parallel
  <1> QED BY <1>1, <1>4, BuiltOnce DEF IsUplink

\* What the reference allows is in service.
LEMMA ReferenceInService ==
  ASSUME NEW f, WellFormed(f), ~Parallel(f), NEW n, NEW s,
         link_eligible_config_only(f, n, s)
  PROVE  \E x \in uplinks(f, n) : x.peer = Spine(s) /\ InService(f, n, x)
PROOF
  <1>1. /\ state_is_serving(node_state(f, Leaf(n)))
        /\ state_is_serving(node_state(f, Spine(s)))
    BY DEF link_eligible_config_only
  <1>2. PICK i \in EnabledLinks(f) :
          /\ Joins(f.links[i], Leaf(n), Spine(s))
          /\ \A p \in {f.links[i].pa, f.links[i].pb} : f.ports[p].admin = "enabled"
    BY DEF link_eligible_config_only
  <1>3. PICK x \in uplinks(f, n) : x.link = i /\ x.peer = Spine(s)
    BY SMT, <1>2, LinkIsUplink
  <1>4. {f.links[i].pa, f.links[i].pb} = {x.local, x.remote}
    BY SMT, <1>3, UplinkFacts DEF IsUplink
  <1>5. PortsEnabled(f, x)
    BY <1>2, <1>4 DEF PortsEnabled
  <1> QED BY <1>1, <1>3, <1>5 DEF InService

\* Without observations, and when none are required, configuration decides.
LEMMA ConfigurationDecides ==
  ASSUME NEW f, NEW n, NEW x, NEW c, NEW me,
         f.evidence = EmptyCounts, ~requires_evidence(f, c), InService(f, n, x)
  PROVE  evaluate_uplink(f, n, x, c, me).verdict = "eligible"
PROOF
  <1>1. evidence_for(f, x.link) = {}
    BY DEF evidence_for, EmptyCounts
  <1>2. Cardinality(evidence_for(f, x.link)) = 0
    BY <1>1, FS_EmptySet
  <1>3. ObservedVerdict(f, x.link, requires_evidence(f, c), me) = "eligible"
    BY SMT, <1>1, <1>2 DEF ObservedVerdict
  <1> QED BY <1>3 DEF evaluate_uplink

\* Every spine the reference allows is then reported.
LEMMA ReferenceIsFound ==
  ASSUME NEW f, WellFormed(f), ~Parallel(f), NEW m, NEW n, NEW c, NEW me,
         PairClass(f, m, n) \in SharedClasses,
         f.evidence = EmptyCounts, ~requires_evidence(f, c)
  PROVE  eligible_spines_for_pair(f, m, n)
           \subseteq DOMAIN assess_leaf_pair(f, m, n, c, me).spines
PROOF
  <1>1. PICK pool : pool = PairPool(f, m, n, c, me)
    OBVIOUS
  <1>2. assess_leaf_pair(f, m, n, c, me).spines = SpinesOf(pool)
    BY SMT, <1>1, PairAnswer, SharedFields
  <1>3. SUFFICES ASSUME NEW s \in eligible_spines_for_pair(f, m, n)
                 PROVE  \E y \in DOMAIN pool : pool[y].spine = s
    <2>1. DOMAIN SpinesOf(pool) = {pool[y].spine : y \in DOMAIN pool}
      BY SpinesOfPool
    <2> QED BY <1>2, <2>1
  <1>4. link_eligible_config_only(f, m, s) /\ link_eligible_config_only(f, n, s)
    BY DEF eligible_spines_for_pair
  <1>5. PICK x \in uplinks(f, m) : x.peer = Spine(s) /\ InService(f, m, x)
    BY <1>4, ReferenceInService
  <1>6. PICK y \in uplinks(f, n) : y.peer = Spine(s) /\ InService(f, n, y)
    BY <1>4, ReferenceInService
  <1>7. y \in SharedUplinks(f, m, n)
    BY <1>5, <1>6 DEF SharedUplinks, Towards
  <1>8. Partner(f, m, y) = x
    BY SMT, <1>5, <1>6, <1>7, PartnerFacts, OneUplink
  <1>9. BothEligible(f, m, n, y, c, me)
    BY <1>5, <1>6, <1>8, ConfigurationDecides DEF BothEligible
  <1>10. y \in DOMAIN pool
    BY <1>1, <1>7, <1>9, PoolFacts
  <1>11. EntryOf(f, y, pool[y])
    BY <1>1, <1>10, PoolFacts
  <1>12. pool[y].spine = s
    BY SMT, <1>6, <1>11 DEF EntryOf, Index, Spine
  <1> QED BY <1>10, <1>12

-----------------------------------------------------------------------------
(* Health.                                                                 *)

\* A leaf in service with as many eligible uplinks as required is serving.
LEMMA EnoughServes ==
  ASSUME NEW f, WellFormed(f), NEW n, NEW c, NEW me, NEW k \in Nat,
         state_is_serving(node_state(f, Leaf(n))), Required(c) \in Nat \ {0}, k >= Required(c),
         NEW P, IsFiniteSet(P), Cardinality(P) = k, NEW g,
         DOMAIN g = P,
         \A y \in P : /\ g[y] \in uplinks(f, n)
                      /\ evaluate_uplink(f, n, g[y], c, me).verdict = "eligible",
         \A y, z \in P : g[y] = g[z] => y = z
  PROVE  LeafHealth(f, n, c, me) = "serving"
PROOF
  <1>1. DEFINE up == Having(evaluate_uplinks(f, n, c, me), "eligible")
  <1>2. up = {x \in uplinks(f, n) : evaluate_uplink(f, n, x, c, me).verdict = "eligible"}
    BY DEF Having, evaluate_uplinks, Evaluated
  <1>3. IsFiniteSet(up)
    <2>1. up \in SUBSET build(f)
      BY <1>2 DEF uplinks, OfClass, adjacencies
    <2> QED BY <2>1, BuiltFinite, FS_Subset
  <1>4. DEFINE h == [y \in P |-> g[y]]
  <1>5. h \in Injection(P, up)
    BY <1>2 DEF Injection, IsInjective
  <1>6. k <= Cardinality(up) /\ Cardinality(up) \in Nat
    <2> HIDE DEF h, up
    <2> QED BY <1>3, <1>5, FS_Injection, FS_CardinalityType
  <1>7. Cardinality(up) >= Required(c) /\ Cardinality(up) # 0
    BY SMT, <1>6
  <1> QED BY <1>7 DEF LeafHealth

\* An eligible answer that names spines counts enough of them.
LEMMA EligibleCounts ==
  ASSUME NEW f, WellFormed(f), NEW m, NEW n, NEW c, c.minSpines \in Nat, NEW me,
         assess_leaf_pair(f, m, n, c, me).verdict = "eligible",
         assess_leaf_pair(f, m, n, c, me).spines # EmptyCounts
  PROVE  LET P == DOMAIN PairPool(f, m, n, c, me)
         IN  /\ P # {} /\ IsFiniteSet(P) /\ Cardinality(P) \in Nat
             /\ Required(c) \in Nat \ {0} /\ Cardinality(P) >= Required(c)
PROOF
  <1>1. PairClass(f, m, n) \in SharedClasses
    BY SMT, PairAnswer
  <1>2. DEFINE pool == PairPool(f, m, n, c, me)
  <1>3. /\ assess_leaf_pair(f, m, n, c, me).spines = SpinesOf(pool)
        /\ \E v : Verdict(Met(f, m, n, pool, c), Cardinality(DOMAIN pool), v) = "eligible"
    BY SMT, <1>1, PairAnswer, SharedFields
  <1>4. DOMAIN pool # {}
    BY <1>3, SpinesOfPool
  <1>5. Cardinality(DOMAIN pool) >= Required(c)
    BY <1>3 DEF Verdict, Met
  <1>6. Required(c) \in Nat \ {0}
    BY SMT DEF Required
  <1>7. DOMAIN pool \in SUBSET build(f)
    <2>1. DOMAIN pool \subseteq SharedUplinks(f, m, n)
      BY PoolFacts
    <2>2. SharedUplinks(f, m, n) \subseteq build(f)
      BY DEF SharedUplinks, uplinks, OfClass, adjacencies
    <2> QED BY <2>1, <2>2
  <1>8. IsFiniteSet(DOMAIN pool) /\ Cardinality(DOMAIN pool) \in Nat
    BY <1>7, BuiltFinite, FS_Subset, FS_CardinalityType
  <1> QED BY <1>4, <1>5, <1>6, <1>8

\* Both leaves of such an answer are serving when no links are parallel.
LEMMA EligibleServes ==
  ASSUME NEW f, WellFormed(f), ~Parallel(f), NEW m, NEW n,
         NEW c, c.minSpines \in Nat, NEW me,
         assess_leaf_pair(f, m, n, c, me).verdict = "eligible",
         assess_leaf_pair(f, m, n, c, me).spines # EmptyCounts
  PROVE  LeafHealth(f, m, c, me) = "serving" /\ LeafHealth(f, n, c, me) = "serving"
PROOF
  <1>1. DEFINE P == DOMAIN PairPool(f, m, n, c, me)
  <1>2. /\ P # {} /\ IsFiniteSet(P) /\ Cardinality(P) \in Nat
        /\ Required(c) \in Nat \ {0} /\ Cardinality(P) >= Required(c)
    BY EligibleCounts
  <1>3. \A y \in P : y \in SharedUplinks(f, m, n) /\ BothEligible(f, m, n, y, c, me)
    BY PoolFacts
  <1> HIDE DEF P
  <1>4. \A y \in P : /\ y \in uplinks(f, n) /\ Partner(f, m, y) \in uplinks(f, m)
                     /\ Partner(f, m, y).peer = y.peer
    BY <1>3, PartnerFacts
  <1>5. \A y \in P : InService(f, m, Partner(f, m, y)) /\ InService(f, n, y)
    BY <1>3, EligibleInService DEF BothEligible
  <1>6. state_is_serving(node_state(f, Leaf(m))) /\ state_is_serving(node_state(f, Leaf(n)))
    BY <1>2, <1>5 DEF InService
  <1>7. LeafHealth(f, n, c, me) = "serving"
    <2>1. DEFINE g == [y \in P |-> y]
    <2>2. /\ DOMAIN g = P
          /\ \A y \in P : /\ g[y] \in uplinks(f, n)
                          /\ evaluate_uplink(f, n, g[y], c, me).verdict = "eligible"
          /\ \A y, z \in P : g[y] = g[z] => y = z
      BY <1>3, <1>4 DEF BothEligible
    <2> HIDE DEF g
    <2> QED BY SMT, <1>2, <1>6, <2>2, EnoughServes
  <1>8. LeafHealth(f, m, c, me) = "serving"
    <2>1. DEFINE g == [y \in P |-> Partner(f, m, y)]
    <2>2. ASSUME NEW y \in P, NEW z \in P, Partner(f, m, y) = Partner(f, m, z) PROVE y = z
      BY <1>4, <2>2, OneUplink
    <2>3. /\ DOMAIN g = P
          /\ \A y \in P : /\ g[y] \in uplinks(f, m)
                          /\ evaluate_uplink(f, m, g[y], c, me).verdict = "eligible"
          /\ \A y, z \in P : g[y] = g[z] => y = z
      BY <1>3, <1>4, <2>2 DEF BothEligible
    <2> HIDE DEF g
    <2> QED BY SMT, <1>2, <1>6, <2>3, EnoughServes
  <1> QED BY <1>7, <1>8

-----------------------------------------------------------------------------
(* Two fabrics with the same links, ports and nodes.                       *)

\* g differs from f only in the states of spines and in observations.
SameGraph(f, g) ==
    /\ g.links = f.links /\ g.ports = f.ports /\ g.leaves = f.leaves
    /\ DOMAIN g.spines = DOMAIN f.spines
    /\ \A s \in DOMAIN f.spines : g.spines[s].domain = f.spines[s].domain

\* Fabrics with the same graph have the same index.
LEMMA SameIndex ==
  ASSUME NEW f, NEW g, SameGraph(f, g)
  PROVE  /\ build(g) = build(f)
         /\ \A n : uplinks(g, n) = uplinks(f, n)
         /\ \A m, n : SharedUplinks(g, m, n) = SharedUplinks(f, m, n)
         /\ \A m, y : Partner(g, m, y) = Partner(f, m, y)
         /\ \A m, n : PairClass(g, m, n) = PairClass(f, m, n)
PROOF
  <1>1. EnabledLinks(g) = EnabledLinks(f)
    BY DEF SameGraph, EnabledLinks
  <1>2. \A i : Forward(g, i) = Forward(f, i) /\ Backward(g, i) = Backward(f, i)
    BY DEF SameGraph, Forward, Backward, effective_link_speed
  <1>3. build(g) = build(f)
    BY <1>1, <1>2 DEF build
  <1>4. \A k : adjacencies(g, k) = adjacencies(f, k)
    BY <1>3 DEF adjacencies
  <1>5. \A k, cls : OfClass(g, k, cls) = OfClass(f, k, cls)
    BY <1>4 DEF OfClass
  <1>6. \A n : uplinks(g, n) = uplinks(f, n)
    BY <1>5 DEF uplinks
  <1>7. \A m, n : SharedUplinks(g, m, n) = SharedUplinks(f, m, n)
    BY SMT, <1>6 DEF SharedUplinks
  <1>8. \A m, y : Partner(g, m, y) = Partner(f, m, y)
    BY <1>6 DEF Partner
  <1>9. \A a, b : adjacent(g, a, b) = adjacent(f, a, b)
                    /\ adjacency_between(g, a, b) = adjacency_between(f, a, b)
    BY <1>4 DEF adjacent, adjacency_between
  <1>10. \A m, n : common_spines(g, m, n) = common_spines(f, m, n)
    BY SMT, <1>6 DEF common_spines
  <1>11. \A a, b : PeerBridge(g, a, b) = PeerBridge(f, a, b)
    BY <1>5, <1>9 DEF PeerBridge, peer_links
  <1>12. \A a, b : LeafPairClass(g, a, b) = LeafPairClass(f, a, b)
    BY <1>10, <1>11 DEF LeafPairClass
  <1>13. \A m, n : PairClass(g, m, n) = PairClass(f, m, n)
    <2>1. TAKE m, n
    <2>2. Tier(Leaf(m)) = "leaf" /\ Tier(Leaf(n)) = "leaf"
      BY DEF Tier, Leaf
    <2> QED BY <1>9, <1>12, <2>2 DEF PairClass, structural_class
  <1> QED BY <1>3, <1>6, <1>7, <1>8, <1>13

\* g is well formed when f is.
LEMMA SameWellFormed ==
  ASSUME NEW f, WellFormed(f), NEW g, SameGraph(f, g), FabricShape(g)
  PROVE  WellFormed(g)
PROOF
  <1>1. \A k : HasNode(g, k) = HasNode(f, k)
    BY DEF SameGraph, HasNode
  <1>2. \A l : Attached(g, l) = Attached(f, l)
    BY <1>1 DEF SameGraph, Attached, PortBelongs
  <1>3. validate_links(g) = validate_links(f)
    BY DEF SameGraph, validate_links, effective_link_speed
  <1> QED BY <1>2, <1>3 DEF WellFormed, SameGraph

-----------------------------------------------------------------------------
(* Losing failure domains.                                                 *)

\* The fabric f with every spine of the domains in lost failed.
Lost(f, lost) ==
    [f EXCEPT !.spines =
       [s \in DOMAIN @ |-> IF @[s].domain \in lost
                           THEN [@[s] EXCEPT !.state = "failed"] ELSE @[s]]]

\* The loss of failure domains changes nothing but the states of their spines.
LEMMA LostFacts ==
  ASSUME NEW f, WellFormed(f), NEW lost
  PROVE  LET g == Lost(f, lost)
         IN  /\ SameGraph(f, g) /\ FabricShape(g)
             /\ g.options = f.options /\ g.evidence = f.evidence
             /\ g.gen = f.gen /\ g.epoch = f.epoch
             /\ \A s \in DOMAIN f.spines :
                  f.spines[s].domain \notin lost => g.spines[s] = f.spines[s]
PROOF
  <1>1. DEFINE sp == [s \in DOMAIN f.spines |->
                        IF f.spines[s].domain \in lost
                        THEN [f.spines[s] EXCEPT !.state = "failed"] ELSE f.spines[s]]
  <1>2. /\ DOMAIN sp = DOMAIN f.spines
        /\ \A s \in DOMAIN f.spines :
             /\ sp[s].domain = f.spines[s].domain
             /\ SpineShape(sp[s])
             /\ f.spines[s].domain \notin lost => sp[s] = f.spines[s]
    BY DEF WellFormed, FabricShape, SpineShape
  <1>3. Lost(f, lost) = [f EXCEPT !.spines = sp]
    BY DEF Lost
  <1> HIDE DEF sp
  <1>4. LET g == Lost(f, lost)
        IN  /\ DOMAIN g = DOMAIN f /\ g.spines = sp
            /\ g.links = f.links /\ g.ports = f.ports /\ g.leaves = f.leaves
            /\ g.options = f.options /\ g.evidence = f.evidence
            /\ g.gen = f.gen /\ g.epoch = f.epoch
    BY <1>3 DEF WellFormed, FabricShape
  <1>5. FabricShape(Lost(f, lost))
    BY <1>2, <1>4 DEF WellFormed, FabricShape
  <1> QED BY <1>2, <1>4, <1>5 DEF SameGraph

\* The same observations of a link lead to the same verdict on it.
LEMMA SameObserved ==
  ASSUME NEW f, NEW g, NEW link, NEW required, NEW me,
         g.gen = f.gen, g.epoch = f.epoch, evidence_for(g, link) = evidence_for(f, link)
  PROVE  ObservedVerdict(g, link, required, me) = ObservedVerdict(f, link, required, me)
  BY SMT DEF ObservedVerdict, IsFresh

\* An uplink to a spine of another domain is as eligible as before.
LEMMA KeptEligible ==
  ASSUME NEW f, WellFormed(f), NEW lost, NEW n, NEW x \in uplinks(f, n), NEW c, NEW me,
         node_domain(f, x.peer) \notin lost,
         evaluate_uplink(f, n, x, c, me).verdict = "eligible"
  PROVE  evaluate_uplink(Lost(f, lost), n, x, c, me).verdict = "eligible"
PROOF
  <1>1. PICK g : g = Lost(f, lost)
    OBVIOUS
  <1>2. /\ g.links = f.links /\ g.ports = f.ports /\ g.leaves = f.leaves
        /\ g.options = f.options /\ g.evidence = f.evidence /\ g.gen = f.gen /\ g.epoch = f.epoch
        /\ \A s \in DOMAIN f.spines :
             f.spines[s].domain \notin lost => g.spines[s] = f.spines[s]
    BY <1>1, LostFacts DEF SameGraph
  <1>3. PICK s \in DOMAIN f.spines : x.peer = Spine(s)
    BY SMT, UplinkFacts DEF IsUplink
  <1>4. g.spines[s] = f.spines[s]
    BY SMT, <1>2, <1>3 DEF node_domain, Node, Spine, Tier, Index
  <1>5. /\ node_state(g, x.peer) = node_state(f, x.peer)
        /\ node_state(g, Leaf(n)) = node_state(f, Leaf(n))
    BY SMT, <1>2, <1>3, <1>4 DEF node_state, Node, Spine, Leaf, Tier, Index
  <1>6. InService(f, n, x)
    BY EligibleInService
  <1>7. InService(g, n, x)
    BY <1>2, <1>5, <1>6 DEF InService, PortsEnabled
  <1>8. evidence_for(g, x.link) = evidence_for(f, x.link)
    BY <1>2 DEF evidence_for
  <1>9. requires_evidence(g, c) = requires_evidence(f, c)
    BY <1>2 DEF requires_evidence
  <1>10. ObservedVerdict(g, x.link, requires_evidence(g, c), me) = "eligible"
    <2>1. ObservedVerdict(f, x.link, requires_evidence(f, c), me) = "eligible"
      BY <1>6 DEF evaluate_uplink
    <2> QED BY SMT, <1>2, <1>8, <1>9, <2>1, SameObserved
  <1> QED BY <1>1, <1>7, <1>10 DEF evaluate_uplink

\* With fewer domains lost than the pool has, a spine is still found.
LEMMA ToleratesLoss ==
  ASSUME NEW f, WellFormed(f), NEW m, NEW n, NEW c, NEW me,
         assess_leaf_pair(f, m, n, c, me).spines # EmptyCounts,
         NEW lost \in kSubset(assess_leaf_pair(f, m, n, c, me).tolerance,
                              assess_leaf_pair(f, m, n, c, me).domains)
  PROVE  assess_leaf_pair(Lost(f, lost), m, n, c, me).spines # EmptyCounts
PROOF
  <1>1. PairClass(f, m, n) \in SharedClasses
    BY SMT, PairAnswer
  <1>2. DEFINE pool == PairPool(f, m, n, c, me)
  <1>3. LET A == assess_leaf_pair(f, m, n, c, me)
        IN  A.spines = SpinesOf(pool) /\ A.domains = DomainsOf(pool) /\ A.tolerance = ToleranceOf(pool)
    BY SMT, <1>1, PairAnswer, SharedFields
  <1>4. DOMAIN pool # {}
    BY <1>3, SpinesOfPool
  <1>5. IsFiniteSet(DOMAIN pool)
    <2>1. DOMAIN pool \subseteq SharedUplinks(f, m, n)
      BY PoolFacts
    <2>2. SharedUplinks(f, m, n) \subseteq build(f)
      BY DEF SharedUplinks, uplinks, OfClass, adjacencies
    <2> QED BY <2>1, <2>2, BuiltFinite, FS_Subset
  <1>6. \A y \in DOMAIN pool : EntryOf(f, y, pool[y]) /\ y \in SharedUplinks(f, m, n)
                                 /\ BothEligible(f, m, n, y, c, me)
    BY PoolFacts
  <1> HIDE DEF pool
  <1>7. IsFiniteSet(DomainsOf(pool)) /\ Cardinality(DomainsOf(pool)) \in Nat
    <2>1. DEFINE d == [y \in DOMAIN pool |-> pool[y].domain]
    <2>2. DOMAIN d = DOMAIN pool /\ \A t \in DomainsOf(pool) : \E y \in DOMAIN pool : t = d[y]
      BY DEF DomainsOf
    <2> HIDE DEF d
    <2> QED BY <1>5, <2>2, FiniteReach, FS_CardinalityType
  <1>8. lost \subseteq DomainsOf(pool) /\ lost # DomainsOf(pool)
    BY SMT, <1>3, <1>4, <1>7 DEF kSubset, ToleranceOf
  <1>9. PICK y \in DOMAIN pool : pool[y].domain \notin lost
    BY <1>8 DEF DomainsOf
  <1>10. PICK x : x = Partner(f, m, y)
    OBVIOUS
  <1>11. /\ y \in uplinks(f, n) /\ x \in uplinks(f, m)
         /\ node_domain(f, y.peer) \notin lost /\ node_domain(f, x.peer) \notin lost
    BY SMT, <1>6, <1>9, <1>10, PartnerFacts DEF EntryOf
  <1>12. PICK g : g = Lost(f, lost)
    OBVIOUS
  <1>13. SameGraph(f, g) /\ FabricShape(g)
    BY <1>12, LostFacts
  <1>14. /\ y \in SharedUplinks(g, m, n) /\ Partner(g, m, y) = x
         /\ PairClass(g, m, n) \in SharedClasses
    BY SMT, <1>1, <1>6, <1>10, <1>13, SameIndex
  <1>15. BothEligible(g, m, n, y, c, me)
    BY SMT, <1>6, <1>10, <1>11, <1>12, <1>14, KeptEligible DEF BothEligible
  <1>16. WellFormed(g)
    BY <1>13, SameWellFormed
  <1>17. y \in DOMAIN PairPool(g, m, n, c, me)
    BY <1>14, <1>15, <1>16, PoolFacts
  <1>18. assess_leaf_pair(g, m, n, c, me).spines = SpinesOf(PairPool(g, m, n, c, me))
    BY SMT, <1>14, PairAnswer, SharedFields
  <1> QED BY <1>12, <1>17, <1>18, SpinesOfPool

-----------------------------------------------------------------------------
(* Further observations.                                                   *)

\* g differs from f only in observations of links that were undecided.
Reobserved(f, g, c, me) ==
    /\ SameGraph(f, g) /\ g.spines = f.spines /\ g.options = f.options
    /\ g.gen = f.gen /\ g.epoch = f.epoch
    /\ \A i : ObservedVerdict(f, i, requires_evidence(f, c), me) # "indeterminate"
                => evidence_for(g, i) = evidence_for(f, i)

\* What was decided about an uplink stays decided.
LEMMA DecidedStays ==
  ASSUME NEW f, NEW g, NEW c, NEW me, Reobserved(f, g, c, me), NEW n, NEW x,
         evaluate_uplink(f, n, x, c, me).verdict # "indeterminate"
  PROVE  evaluate_uplink(g, n, x, c, me) = evaluate_uplink(f, n, x, c, me)
PROOF
  <1>1. \A k : Node(g, k) = Node(f, k)
    BY DEF Reobserved, SameGraph, Node
  <1>2. InService(g, n, x) = InService(f, n, x)
    BY SMT, <1>1 DEF Reobserved, SameGraph, InService, node_state, PortsEnabled
  <1>3. node_domain(g, x.peer) = node_domain(f, x.peer)
    BY <1>1 DEF node_domain
  <1>4. requires_evidence(g, c) = requires_evidence(f, c)
    BY DEF Reobserved, requires_evidence
  <1>5. CASE ~InService(f, n, x)
    BY <1>2, <1>3, <1>5 DEF evaluate_uplink
  <1>6. CASE InService(f, n, x)
    <2>1. ObservedVerdict(f, x.link, requires_evidence(f, c), me) # "indeterminate"
      BY <1>6 DEF evaluate_uplink
    <2>2. ObservedVerdict(g, x.link, requires_evidence(g, c), me)
            = ObservedVerdict(f, x.link, requires_evidence(f, c), me)
      BY SMT, <1>4, <2>1, SameObserved DEF Reobserved
    <2> QED BY <1>2, <1>3, <2>2 DEF evaluate_uplink
  <1> QED BY <1>5, <1>6

\* When nothing shared is undecided, further observations change nothing.
LEMMA CombinedStays ==
  ASSUME NEW f, NEW g, NEW c, NEW me, Reobserved(f, g, c, me), NEW m, NEW n,
         Having(Combined(f, m, n, c, me), "indeterminate") = {}
  PROVE  Combined(g, m, n, c, me) = Combined(f, m, n, c, me)
PROOF
  <1>1. /\ SharedUplinks(g, m, n) = SharedUplinks(f, m, n)
        /\ \A y : Partner(g, m, y) = Partner(f, m, y)
    BY SMT, SameIndex DEF Reobserved
  <1>2. ASSUME NEW y \in SharedUplinks(f, m, n)
        PROVE  Joined(evaluate_uplink(g, m, Partner(g, m, y), c, me),
                      evaluate_uplink(g, n, y, c, me))
                 = Joined(evaluate_uplink(f, m, Partner(f, m, y), c, me),
                          evaluate_uplink(f, n, y, c, me))
    <2>1. PICK o : o = evaluate_uplink(f, m, Partner(f, m, y), c, me)
      OBVIOUS
    <2>2. PICK e : e = evaluate_uplink(f, n, y, c, me)
      OBVIOUS
    <2>3. Joined(o, e).verdict # "indeterminate"
      BY <2>1, <2>2 DEF Combined, Partner, Having
    <2>4. o.verdict # "indeterminate"
      BY <2>3 DEF Joined
    <2>5. evaluate_uplink(g, m, Partner(g, m, y), c, me) = o
      BY SMT, <1>1, <2>1, <2>4, DecidedStays
    <2>6. o.verdict = "eligible" => evaluate_uplink(g, n, y, c, me) = e
      BY SMT, <2>2, <2>3, DecidedStays DEF Joined
    <2> QED BY <2>1, <2>2, <2>5, <2>6 DEF Joined
  <1> QED BY <1>1, <1>2 DEF Combined, Partner

\* A verdict that rests on nothing undecided stays.
LEMMA SharedStays ==
  ASSUME NEW f, NEW g, NEW c, NEW me, Reobserved(f, g, c, me), NEW m, NEW n,
         Having(Combined(f, m, n, c, me), "indeterminate") = {}
  PROVE  assess_shared(g, m, n, c, me).verdict = assess_shared(f, m, n, c, me).verdict
PROOF
  <1>1. Combined(g, m, n, c, me) = Combined(f, m, n, c, me)
    BY SMT, CombinedStays
  <1>2. PairPool(g, m, n, c, me) = PairPool(f, m, n, c, me)
    BY <1>1 DEF PairPool
  <1>3. \A pool : Met(g, m, n, pool, c) = Met(f, m, n, pool, c)
    BY DEF Met, Reobserved, SameGraph
  <1> QED BY SMT, <1>1, <1>2, <1>3, SharedFields

\* The verdict on a direct link that is up stays.
LEMMA PeerStays ==
  ASSUME NEW f, NEW g, NEW c, NEW me, Reobserved(f, g, c, me), NEW m, NEW n,
         assess_peer(f, Leaf(m), Leaf(n), c, me).verdict = "eligible"
  PROVE  assess_peer(g, Leaf(m), Leaf(n), c, me).verdict = "eligible"
PROOF
  <1>1. PICK x : x = adjacency_between(f, Leaf(m), Leaf(n))
    OBVIOUS
  <1>2. adjacency_between(g, Leaf(m), Leaf(n)) = x
    BY <1>1, SameIndex DEF Reobserved, adjacency_between, adjacencies
  <1>3. PortsEnabled(g, x) = PortsEnabled(f, x)
    BY DEF Reobserved, SameGraph, PortsEnabled
  <1>4. requires_evidence(g, c) = requires_evidence(f, c)
    BY DEF Reobserved, requires_evidence
  <1>5. DEFINE best == evidence_for(f, x.link)
               record == CHOOSE e \in best : TRUE
  <1>6. /\ c.peers /\ PortsEnabled(f, x)
        /\ requires_evidence(f, c) =>
             /\ Cardinality(best) = 1 /\ IsFresh(f, record, me, f.epoch)
             /\ record.observed = "up"
    BY <1>1 DEF assess_peer, Bare
  <1>7. requires_evidence(f, c) => evidence_for(g, x.link) = best
    <2>1. SUFFICES ASSUME requires_evidence(f, c) PROVE evidence_for(g, x.link) = best
      OBVIOUS
    <2>2. best # {}
      BY SMT, <1>6, <2>1, FS_EmptySet
    <2>3. ObservedVerdict(f, x.link, requires_evidence(f, c), me) = "eligible"
      BY SMT, <1>6, <2>1, <2>2 DEF ObservedVerdict
    <2> QED BY <2>3 DEF Reobserved
  <1>8. \A e : IsFresh(g, e, me, g.epoch) = IsFresh(f, e, me, f.epoch)
    BY DEF IsFresh, Reobserved
  <1> QED BY <1>2, <1>3, <1>4, <1>6, <1>7, <1>8 DEF assess_peer, Bare

\* Nothing shared is undecided when the count of undecided uplinks is not
\* positive: the count is one of a finite set.
LEMMA NoneUndecided ==
  ASSUME NEW f, WellFormed(f), NEW m, NEW n, NEW c, NEW me,
         ~(Cardinality(Having(Combined(f, m, n, c, me), "indeterminate")) > 0)
  PROVE  Having(Combined(f, m, n, c, me), "indeterminate") = {}
PROOF
  <1>1. PICK U : U = Having(Combined(f, m, n, c, me), "indeterminate")
    OBVIOUS
  <1>2. U \subseteq build(f)
    BY <1>1 DEF Having, Combined, SharedUplinks, uplinks, OfClass, adjacencies
  <1>3. IsFiniteSet(U)
    BY <1>2, BuiltFinite, FS_Subset
  <1>4. Cardinality(U) \in Nat
    BY <1>3, FS_CardinalityType
  <1>5. Cardinality(U) = 0
    BY SMT, <1>1, <1>4
  <1> QED BY <1>1, <1>3, <1>5, FS_EmptySet

\* A pool without spines does not meet any constraints.
LEMMA EmptyUnmet ==
  ASSUME NEW f, NEW m, NEW n, NEW pool, DOMAIN pool = {}, NEW c, c.minSpines \in Nat
  PROVE  ~Met(f, m, n, pool, c) /\ Cardinality(DOMAIN pool) = 0
PROOF
  <1>1. Cardinality(DOMAIN pool) = 0
    BY FS_EmptySet
  <1>2. Required(c) \in Nat /\ Required(c) > 0
    BY SMT DEF Required
  <1> QED BY SMT, <1>1, <1>2 DEF Met

\* Observing what is undecided: an eligible pair stays eligible, and a pair
\* without a spine that is called ineligible does not become eligible.
LEMMA AnswerStays ==
  ASSUME NEW f, WellFormed(f), NEW g, NEW c, c.minSpines \in Nat, NEW me,
         Reobserved(f, g, c, me), NEW m, NEW n
  PROVE  LET A == assess_leaf_pair(f, m, n, c, me)
             B == assess_leaf_pair(g, m, n, c, me)
         IN  /\ A.verdict = "eligible" => B.verdict = "eligible"
             /\ A.verdict = "ineligible" /\ A.spines = EmptyCounts /\ A.cls # "DirectPeer"
                  => B.verdict # "eligible"
PROOF
  <1>1. PICK A : A = assess_leaf_pair(f, m, n, c, me)
    OBVIOUS
  <1>2. PICK B : B = assess_leaf_pair(g, m, n, c, me)
    OBVIOUS
  <1>3. PairClass(g, m, n) = PairClass(f, m, n)
    BY SMT, SameIndex DEF Reobserved
  <1>4. CASE PairClass(f, m, n) \in SharedClasses
    <2>1. A = assess_shared(f, m, n, c, me) /\ B = assess_shared(g, m, n, c, me)
      BY SMT, <1>1, <1>2, <1>3, <1>4, PairAnswer
    <2>2. PICK pool : pool = PairPool(f, m, n, c, me)
      OBVIOUS
    <2>3. PICK u : u = Cardinality(Having(Combined(f, m, n, c, me), "indeterminate"))
      OBVIOUS
    <2>4. /\ A.verdict = Verdict(Met(f, m, n, pool, c), Cardinality(DOMAIN pool), u)
          /\ A.spines = SpinesOf(pool)
      BY SMT, <2>1, <2>2, <2>3, SharedFields
    <2>5. ~(u > 0) => B.verdict = A.verdict
      BY SMT, <2>1, <2>3, NoneUndecided, SharedStays
    <2>6. A.verdict = "eligible" => ~(u > 0)
      BY <2>4 DEF Verdict
    <2>7. A.verdict = "ineligible" /\ A.spines = EmptyCounts => ~(u > 0)
      <3>1. SUFFICES ASSUME A.verdict = "ineligible", A.spines = EmptyCounts PROVE ~(u > 0)
        OBVIOUS
      <3>2. DOMAIN pool = {}
        BY <2>4, <3>1, SpinesOfPool
      <3>3. ~Met(f, m, n, pool, c) /\ Cardinality(DOMAIN pool) = 0
        BY <3>2, EmptyUnmet
      <3> QED BY <2>4, <3>1, <3>3 DEF Verdict
    <2> QED BY <1>1, <1>2, <2>5, <2>6, <2>7
  <1>5. CASE PairClass(f, m, n) = "DirectPeer"
    <2>1. /\ A = assess_peer(f, Leaf(m), Leaf(n), c, me)
          /\ B = assess_peer(g, Leaf(m), Leaf(n), c, me)
      BY <1>1, <1>2, <1>3, <1>5 DEF assess_leaf_pair, PairClass
    <2>2. A.cls = "DirectPeer"
      BY <1>5, <2>1 DEF assess_peer, Bare, PairClass
    <2>3. A.verdict = "eligible" => B.verdict = "eligible"
      BY <2>1, PeerStays
    <2> QED BY <1>1, <1>2, <2>2, <2>3
  <1>6. CASE PairClass(f, m, n) \notin SharedClasses \cup {"DirectPeer"}
    <2>1. PairClass(f, m, n) \in PairClasses
      BY PairClassType
    <2>2. A.verdict # "eligible" /\ B.verdict # "eligible"
      BY <1>1, <1>2, <1>3, <1>6, <2>1
         DEF assess_leaf_pair, PairClass, PairClasses, SharedClasses, Bare
    <2> QED BY <1>1, <1>2, <2>2
  <1> QED BY <1>4, <1>5, <1>6

\* g has the observations R of the links U in place of those of f.
Replaces(f, g, U, R) ==
    (\A r \in R : r.link \in U) /\ g.evidence = Counted(Without(f.evidence, U), R)

\* Observations of some links are replaced; those of other links stay.
LEMMA OthersKept ==
  ASSUME NEW f, NEW g, NEW U, NEW R, Replaces(f, g, U, R), NEW i, i \notin U
  PROVE  evidence_for(g, i) = evidence_for(f, i)
PROOF
  <1>1. DOMAIN g.evidence = {e \in DOMAIN f.evidence : e.link \notin U} \cup R
    BY DEF Replaces, Without, Counted
  <1>2. {e \in DOMAIN g.evidence : e.link = i} = {e \in DOMAIN f.evidence : e.link = i}
    BY <1>1 DEF Replaces
  <1> QED BY <1>2 DEF evidence_for

-----------------------------------------------------------------------------
(* A leaf and a spine.                                                     *)

\* What an eligible answer about a leaf and a spine names passes the reference.
LEMMA LeafSpineReference ==
  ASSUME NEW f, WellFormed(f), NEW m, NEW s, NEW c, NEW me,
         assess_leaf_to_spine(f, m, s, c, me).verdict = "eligible",
         NEW t \in DOMAIN assess_leaf_to_spine(f, m, s, c, me).spines
  PROVE  link_eligible_config_only(f, m, t)
PROOF
  <1>1. PICK A : A = assess_leaf_to_spine(f, m, s, c, me)
    OBVIOUS
  <1>2. PICK between : between = Towards(uplinks(f, m), Spine(s))
    OBVIOUS
  <1>3. PICK x : x = Lowest(between)
    OBVIOUS
  <1>4. PICK pool : pool = Evaluated(f, m, {x}, c, me)
    OBVIOUS
  <1>5. DOMAIN EmptyCounts = {}
    BY DEF EmptyCounts
  <1>6. /\ between # {}
        /\ A.spines = SpinesOf(pool) /\ pool[x].verdict = "eligible"
    BY <1>1, <1>2, <1>3, <1>4, <1>5 DEF assess_leaf_to_spine, Bare
  <1>7. between \subseteq uplinks(f, m) /\ uplinks(f, m) \subseteq build(f)
    BY <1>2 DEF Towards, uplinks, OfClass, adjacencies
  <1>8. x \in uplinks(f, m)
    BY <1>3, <1>6, <1>7, Extremes
  <1>9. pool[x] = evaluate_uplink(f, m, x, c, me) /\ DOMAIN pool = {x}
    BY <1>4 DEF Evaluated
  <1>10. DOMAIN SpinesOf(pool) = {pool[y].spine : y \in DOMAIN pool}
    BY SpinesOfPool
  <1>11. t = Index(x.peer)
    BY SMT, <1>1, <1>6, <1>9, <1>10 DEF evaluate_uplink
  <1>12. InService(f, m, x)
    BY <1>6, <1>9, EligibleInService
  <1> QED BY <1>8, <1>11, <1>12, InServiceIsReference

-----------------------------------------------------------------------------
(* Commands lead from well-formed fabrics to well-formed fabrics.          *)

LinksShape(links) ==
    /\ IsFiniteSet(DOMAIN links) /\ DOMAIN links \subseteq Nat
    /\ \A i \in DOMAIN links : LinkShape(links[i])
LeavesShape(leaves) == \A n \in DOMAIN leaves : LeafShape(leaves[n])
SpinesShape(spines) == \A n \in DOMAIN spines : SpineShape(spines[n])
PortsShape(ports) == \A p \in DOMAIN ports : PortShape(ports[p])
NodesShape(f) == LeavesShape(f.leaves) /\ SpinesShape(f.spines) /\ PortsShape(f.ports)

\* A change of one field, a new link, a removal and a new stamp keep the shape.
LEMMA LinksKept ==
  ASSUME NEW links, LinksShape(links), NEW id, NEW v, NEW l, LinkShape(l)
  PROVE  /\ LinksShape(Update(links, id, "admin", v))
         /\ id \in Nat => LinksShape(With(links, id, l))
         /\ LinksShape([i \in DOMAIN links \ {id} |-> links[i]])
         /\ LinksShape(Stamped(links, v))
PROOF
  <1>1. LinksShape(Update(links, id, "admin", v))
    BY DEF LinksShape, LinkShape, Update
  <1>2. ASSUME id \in Nat PROVE LinksShape(With(links, id, l))
    <2>1. IsFiniteSet(DOMAIN links \cup {id})
      BY FS_AddElement DEF LinksShape
    <2>2. DOMAIN With(links, id, l) = DOMAIN links \cup {id}
      BY DEF With
    <2>3. \A i \in DOMAIN links \cup {id} :
            With(links, id, l)[i] = IF i = id THEN l ELSE links[i]
      BY DEF With
    <2> QED BY <1>2, <2>1, <2>2, <2>3 DEF LinksShape
  <1>3. LinksShape([i \in DOMAIN links \ {id} |-> links[i]])
    <2>1. IsFiniteSet(DOMAIN links \ {id})
      BY FS_Subset DEF LinksShape
    <2> QED BY <2>1 DEF LinksShape
  <1>4. LinksShape(Stamped(links, v))
    BY DEF LinksShape, LinkShape, Stamped
  <1> QED BY <1>1, <1>2, <1>3, <1>4

\* Changing the state of a node or a port and stamping all of them keep their
\* shape.
LEMMA NodesKept ==
  ASSUME NEW f, NodesShape(f), NEW id, NEW v
  PROVE  /\ LeavesShape(Update(f.leaves, id, "state", v)) /\ LeavesShape(Stamped(f.leaves, v))
         /\ SpinesShape(Update(f.spines, id, "state", v)) /\ SpinesShape(Stamped(f.spines, v))
         /\ PortsShape(Update(f.ports, id, "admin", v)) /\ PortsShape(Stamped(f.ports, v))
PROOF
  <1>1. LeavesShape(Update(f.leaves, id, "state", v)) /\ LeavesShape(Stamped(f.leaves, v))
    BY DEF NodesShape, LeavesShape, LeafShape, Update, Stamped
  <1>2. SpinesShape(Update(f.spines, id, "state", v)) /\ SpinesShape(Stamped(f.spines, v))
    BY DEF NodesShape, SpinesShape, SpineShape, Update, Stamped
  <1>3. PortsShape(Update(f.ports, id, "admin", v)) /\ PortsShape(Stamped(f.ports, v))
    BY DEF NodesShape, PortsShape, PortShape, Update, Stamped
  <1> QED BY <1>1, <1>2, <1>3

\* What a command does keeps the shape of a fabric.
LEMMA EffectShape ==
  ASSUME NEW f, FabricShape(f), NEW c \in GovernedCommand, NEW g, NEW ep, NEW observer
  PROVE  FabricShape(Effect(f, c, g, ep, observer))
PROOF
  <1>1. LinksShape(f.links) /\ NodesShape(f)
    BY DEF FabricShape, LinksShape, NodesShape, LeavesShape, SpinesShape, PortsShape
  <1>a. LinkShape(c.new) /\ c.new_id \in Nat
    BY DEF GovernedCommand, LinkRecord, LinkShape
  <1>b. /\ LinksShape(With(f.links, c.new_id, c.new))
        /\ LinksShape(Update(f.links, c.link, "admin", c.link_admin))
        /\ LinksShape([i \in DOMAIN f.links \ {c.link} |-> f.links[i]])
    BY <1>1, <1>a, LinksKept
  <1>2. PICK e : e = Effect(f, c, g, ep, observer)
    OBVIOUS
  <1>3. DOMAIN e = DOMAIN f /\ LinksShape(e.links) /\ NodesShape(e)
    <2>1. CASE c.kind = "AddLink"
      <3>1. e = [f EXCEPT !.links = With(@, c.new_id, c.new)]
        BY <1>2, <2>1 DEF Effect
      <3>2. /\ DOMAIN e = DOMAIN f /\ e.links = With(f.links, c.new_id, c.new)
            /\ e.leaves = f.leaves /\ e.spines = f.spines /\ e.ports = f.ports
        BY <3>1 DEF FabricShape
      <3> QED BY <1>1, <1>b, <3>2 DEF NodesShape
    <2>2. CASE c.kind = "SetLinkAdmin"
      <3>1. e = [f EXCEPT !.links = Update(@, c.link, "admin", c.link_admin)]
        BY <1>2, <2>2 DEF Effect
      <3>2. /\ DOMAIN e = DOMAIN f /\ e.links = Update(f.links, c.link, "admin", c.link_admin)
            /\ e.leaves = f.leaves /\ e.spines = f.spines /\ e.ports = f.ports
        BY <3>1 DEF FabricShape
      <3> QED BY <1>1, <1>b, <3>2 DEF NodesShape
    <2>3. CASE c.kind = "RemoveLink"
      <3>1. e = Retire(f, c.link)
        BY <1>2, <2>3 DEF Effect
      <3>2. /\ DOMAIN e = DOMAIN f
            /\ e.leaves = f.leaves /\ e.spines = f.spines /\ e.ports = f.ports
            /\ \/ e.links = f.links
               \/ e.links = [i \in DOMAIN f.links \ {c.link} |-> f.links[i]]
        BY <3>1 DEF Retire, FabricShape
      <3> QED BY <1>1, <1>b, <3>2 DEF NodesShape
    <2>4. CASE c.kind = "SetSpineState"
      <3>1. e = [f EXCEPT !.spines = Update(@, Index(c.node), "state", c.node_state)]
        BY <1>2, <2>4 DEF Effect
      <3>2. /\ DOMAIN e = DOMAIN f /\ e.links = f.links
            /\ e.leaves = f.leaves /\ e.ports = f.ports
            /\ e.spines = Update(f.spines, Index(c.node), "state", c.node_state)
        BY <3>1 DEF FabricShape
      <3> QED BY <1>1, <3>2, NodesKept DEF NodesShape
    <2>5. CASE c.kind = "SetLeafState"
      <3>1. e = [f EXCEPT !.leaves = Update(@, Index(c.node), "state", c.node_state)]
        BY <1>2, <2>5 DEF Effect
      <3>2. /\ DOMAIN e = DOMAIN f /\ e.links = f.links
            /\ e.spines = f.spines /\ e.ports = f.ports
            /\ e.leaves = Update(f.leaves, Index(c.node), "state", c.node_state)
        BY <3>1 DEF FabricShape
      <3> QED BY <1>1, <3>2, NodesKept DEF NodesShape
    <2>6. CASE c.kind = "SetPortAdmin"
      <3>1. e = [f EXCEPT !.ports = Update(@, c.port, "admin", c.port_admin)]
        BY <1>2, <2>6 DEF Effect
      <3>2. /\ DOMAIN e = DOMAIN f /\ e.links = f.links
            /\ e.leaves = f.leaves /\ e.spines = f.spines
            /\ e.ports = Update(f.ports, c.port, "admin", c.port_admin)
        BY <3>1 DEF FabricShape
      <3> QED BY <1>1, <3>2, NodesKept DEF NodesShape
    <2>7. CASE c.kind \notin {"AddLink", "SetLinkAdmin", "RemoveLink", "SetSpineState",
                             "SetLeafState", "SetPortAdmin"}
      <3>1. /\ DOMAIN e = DOMAIN f /\ e.links = f.links
            /\ e.leaves = f.leaves /\ e.spines = f.spines /\ e.ports = f.ports
        BY <1>2, <2>7 DEF Effect, FabricShape, GovernedCommand, CommandKinds
      <3> QED BY <1>1, <3>1 DEF NodesShape
    <2> QED BY <2>1, <2>2, <2>3, <2>4, <2>5, <2>6, <2>7
  <1> QED BY <1>2, <1>3
         DEF FabricShape, LinksShape, NodesShape, LeavesShape, SpinesShape, PortsShape

\* The stamp keeps the shape of a fabric.
LEMMA RestampShape ==
  ASSUME NEW f, FabricShape(f), NEW g, NEW ep
  PROVE  FabricShape(Restamp(f, g, ep))
PROOF
  <1>1. LinksShape(f.links) /\ NodesShape(f)
    BY DEF FabricShape, LinksShape, NodesShape, LeavesShape, SpinesShape, PortsShape
  <1>2. PICK r : r = Restamp(f, g, ep)
    OBVIOUS
  <1>3. /\ DOMAIN r = DOMAIN f
        /\ r.links = Stamped(f.links, g) /\ r.leaves = Stamped(f.leaves, g)
        /\ r.spines = Stamped(f.spines, g) /\ r.ports = Stamped(f.ports, g)
    BY <1>2 DEF Restamp, FabricShape
  <1>4. LinksShape(r.links)
    <2>1. \A i \in DOMAIN f.links : LinkShape(Stamped(f.links, g)[i])
      BY <1>1 DEF LinksShape, LinkShape, Stamped
    <2>2. DOMAIN Stamped(f.links, g) = DOMAIN f.links
      BY DEF Stamped
    <2> QED BY <1>1, <1>3, <2>1, <2>2 DEF LinksShape
  <1>5. NodesShape(r)
    BY <1>1, <1>3, NodesKept DEF NodesShape
  <1> QED BY <1>2, <1>3, <1>4, <1>5
         DEF FabricShape, LinksShape, NodesShape, LeavesShape, SpinesShape, PortsShape

\* A fabric that a command leads to has passed the builder: it is well formed.
LEMMA ValidatedWellFormed ==
  ASSUME NEW f, WellFormed(f), NEW c \in GovernedCommand, NEW ep, NEW observer,
         NEW o \in Validated(f, c, ep, observer)
  PROVE  WellFormed(o)
PROOF
  <1>1. PICK g : g = TargetGeneration(f, c)
    OBVIOUS
  <1>2. o = Restamp(Effect(f, c, g, ep, observer), g, ep) /\ builder_from_modified(o)
    BY <1>1 DEF Validated, apply_command_to, Candidate
  <1>3. FabricShape(o)
    BY <1>2, EffectShape, RestampShape DEF WellFormed
  <1>4. \A i \in DOMAIN o.links : Attached(o, o.links[i])
    BY <1>2 DEF builder_from_modified, Rebuilt, add_link
  <1>5. validate_links(o)
    BY <1>2 DEF builder_from_modified, Rebuilt, freeze
  <1> QED BY <1>3, <1>4, <1>5 DEF WellFormed
=============================================================================
