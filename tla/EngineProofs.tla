---------------------------- MODULE EngineProofs ----------------------------
(***************************************************************************)
(* What the eligibility engine answers, for every fabric that commands     *)
(* lead to and every question: proofs of the properties of Engine.         *)
(***************************************************************************)
EXTENDS Engine, AssessmentProofs, SequenceTheorems

\* Leaves go to Zenon unless they cite another prover.
USE Zenon

\* The published fabric is well formed; the first answer is the engine's to the
\* question, and the second its answer in one of the settings.
Inv ==
    /\ WellFormed(fabric)
    /\ first # NoAnswer => \E p \in LeafPairs, c \in Queries : first = Reply(p, c)
    /\ again # NoAnswer => first # NoAnswer /\ \E s \in Settings : again = ReplyIn(s)

-----------------------------------------------------------------------------

\* The invariant holds at first.
LEMMA InitInv ==
  ASSUME Init
  PROVE  Inv
  BY EngineAssumption DEF Init, Inv

\* A question is asked of a fabric that no longer changes.
LEMMA NextInv ==
  ASSUME Inv, [Next]_vars
  PROVE  Inv'
PROOF
  <1>1. CASE Restart
    <2>1. fabric' = fabric /\ first = NoAnswer /\ first' = NoAnswer /\ again' = again
      BY <1>1 DEF Restart
    <2> QED BY <2>1 DEF Inv
  <1>2. ASSUME NEW c \in Commands, Publish(c) PROVE Inv'
    <2>1. /\ fabric' \in Validated(fabric, c, epoch, me)
          /\ first = NoAnswer /\ first' = NoAnswer /\ again' = again
      BY <1>2 DEF Publish
    <2>2. WellFormed(fabric')
      BY <2>1, EngineAssumption, ValidatedWellFormed DEF Inv
    <2>3. WellFormed(fabric)'
      BY <2>2 DEF WellFormed
    <2> QED BY <2>1, <2>3 DEF Inv
  <1>3. ASSUME NEW p \in LeafPairs, NEW c \in Queries, Ask(p, c) PROVE Inv'
    <2>1. /\ first = NoAnswer /\ first' = Reply(p, c)
          /\ fabric' = fabric /\ me' = me /\ again' = again
      BY <1>3 DEF Ask
    <2>2. again = NoAnswer
      BY <2>1 DEF Inv
    <2>3. Reply(p, c)' = Reply(p, c) /\ LeafPairs' = LeafPairs
      BY <2>1 DEF Reply, LeafPairs
    <2>4. WellFormed(fabric)'
      BY <2>1 DEF Inv
    <2>5. (first # NoAnswer => \E q \in LeafPairs, d \in Queries : first = Reply(q, d))'
      BY <2>1, <2>3
    <2> QED BY <2>1, <2>2, <2>4, <2>5 DEF Inv
  <1>4. CASE AskAgain
    <2>1. UNCHANGED <<fabric, me, first>> /\ first # NoAnswer
            /\ \E s \in Settings : again' = ReplyIn(s)
      BY <1>4 DEF AskAgain
    <2>2. LeafPairs' = LeafPairs /\ Settings' = Settings
      BY SMT, <2>1 DEF LeafPairs, Settings, WithLost, WithObserved, Undecided
    <2>3. \A s : ReplyIn(s)' = ReplyIn(s)
      BY <2>1 DEF ReplyIn
    <2>4. \A p, c : Reply(p, c)' = Reply(p, c)
      BY <2>1 DEF Reply
    <2> QED BY <2>1, <2>2, <2>3, <2>4 DEF Inv
  <1>5. CASE UNCHANGED vars
    <2>1. UNCHANGED <<fabric, me, first, again>>
      BY <1>5 DEF vars
    <2>2. LeafPairs' = LeafPairs /\ Settings' = Settings
      BY SMT, <2>1 DEF LeafPairs, Settings, WithLost, WithObserved, Undecided
    <2>3. \A s : ReplyIn(s)' = ReplyIn(s)
      BY <2>1 DEF ReplyIn
    <2>4. \A p, c : Reply(p, c)' = Reply(p, c)
      BY <2>1 DEF Reply
    <2> QED BY <2>1, <2>2, <2>3, <2>4 DEF Inv
  <1> QED BY <1>1, <1>2, <1>3, <1>4, <1>5 DEF Next

\* Inv is an invariant.
LEMMA Invariance == Spec => []Inv
PROOF
  <1>1. Init => Inv
    BY InitInv
  <1>2. Inv /\ [Next]_vars => Inv'
    BY NextInv
  <1> QED BY <1>1, <1>2, PTL DEF Spec

-----------------------------------------------------------------------------
(* The first answer.                                                       *)

\* What is known of a question that was asked.
LEMMA FirstIs ==
  ASSUME Inv, first # NoAnswer
  PROVE  /\ WellFormed(fabric) /\ first.query.minSpines \in Nat
         /\ first.answer
              = assess_leaf_pair(fabric, first.pair[1], first.pair[2], first.query, me)
PROOF
  <1>1. PICK p \in LeafPairs, c \in Queries : first = Reply(p, c)
    BY DEF Inv
  <1>2. /\ first.pair = p /\ first.query = c
        /\ first.answer = assess_leaf_pair(fabric, p[1], p[2], c, me)
    BY <1>1 DEF Reply
  <1> QED BY <1>2, EngineAssumption DEF Inv

\* The spines a question about two leaves is answered with are those the reference
\* of the test suite allows: never another one, and all of them where observations
\* play no part and links are not parallel.
THEOREM MatchesReferenceHolds == Spec => []MatchesReference
PROOF
  <1>1. ASSUME Inv PROVE MatchesReference
    <2>1. CASE first = NoAnswer
      BY <2>1 DEF MatchesReference, Asked
    <2>2. CASE first # NoAnswer
      <3>1. PICK m : m = first.pair[1]
        OBVIOUS
      <3>2. PICK n : n = first.pair[2]
        OBVIOUS
      <3>3. WellFormed(fabric)
              /\ first.answer = assess_leaf_pair(fabric, m, n, first.query, me)
        BY <2>2, <3>1, <3>2, <1>1, FirstIs
      <3>4. DOMAIN first.answer.spines \subseteq eligible_spines_for_pair(fabric, m, n)
        BY <3>3, FoundInReference
      <3>5. PairClass(fabric, m, n) \in SharedClasses /\ ~Parallel(fabric)
              /\ ~requires_evidence(fabric, first.query) /\ fabric.evidence = EmptyCounts
              => eligible_spines_for_pair(fabric, m, n) \subseteq DOMAIN first.answer.spines
        BY <3>3, ReferenceIsFound
      <3> QED BY <3>1, <3>2, <3>4, <3>5
             DEF MatchesReference, PairClass, SharedClasses
    <2> QED BY <2>1, <2>2
  <1> QED BY <1>1, Invariance, PTL

\* Both leaves of a pair that is answered eligible by spines count as serving.
THEOREM EligibleLeavesServeHolds == Spec => []EligibleLeavesServe
PROOF
  <1>1. ASSUME Inv PROVE EligibleLeavesServe
    <2>1. SUFFICES ASSUME first # NoAnswer, ~Parallel(fabric),
                          first.answer.verdict = "eligible", first.answer.spines # EmptyCounts
                   PROVE  \A m \in {first.pair[1], first.pair[2]} :
                            LeafHealth(fabric, m, first.query, me) = "serving"
      BY DEF EligibleLeavesServe, Asked
    <2>2. PICK m : m = first.pair[1]
      OBVIOUS
    <2>3. PICK n : n = first.pair[2]
      OBVIOUS
    <2>4. /\ WellFormed(fabric) /\ first.query.minSpines \in Nat
          /\ first.answer = assess_leaf_pair(fabric, m, n, first.query, me)
      BY <1>1, <2>1, <2>2, <2>3, FirstIs
    <2>5. /\ LeafHealth(fabric, m, first.query, me) = "serving"
          /\ LeafHealth(fabric, n, first.query, me) = "serving"
      BY <2>1, <2>4, EligibleServes
    <2> QED BY <2>2, <2>3, <2>5
  <1> QED BY <1>1, Invariance, PTL

-----------------------------------------------------------------------------
(* Both directions of a question.                                          *)

\* The speed of an uplink is a number, and so is the index of its spine.
LEMMA UplinkNumbers ==
  ASSUME NEW f, WellFormed(f), NEW n, NEW x \in uplinks(f, n)
  PROVE  x.speed \in Nat /\ Index(x.peer) \in Nat
PROOF
  <1>1. x \in build(f) /\ IsUplink(f, n, x)
    BY UplinkFacts DEF uplinks, OfClass, adjacencies
  <1>2. IsEnd(f, x)
    BY <1>1, BuiltEnds
  <1>3. PICK l : l = f.links[x.link]
    OBVIOUS
  <1>4. LinkShape(l)
    BY <1>2, <1>3 DEF IsEnd, EnabledLinks, WellFormed, FabricShape
  <1>5. x.peer \in NodeKeys
    BY <1>2, <1>3, <1>4 DEF IsEnd, LinkShape
  <1>6. Index(x.peer) \in Nat
    BY SMT, <1>5 DEF NodeKeys, Index
  <1>7. f.ports[l.pa].speed \in Nat /\ f.ports[l.pb].speed \in Nat
    <2>1. l.pa \in DOMAIN f.ports /\ l.pb \in DOMAIN f.ports
      BY <1>1, <1>3 DEF IsUplink
    <2> QED BY <2>1 DEF WellFormed, FabricShape, PortShape
  <1>8. l.speed \in Nat
    BY <1>4 DEF LinkShape
  <1>9. effective_link_speed(f, l) \in Nat
    BY <1>7, <1>8 DEF effective_link_speed, Smaller
  <1> QED BY <1>2, <1>3, <1>6, <1>9 DEF IsEnd

\* The entry that two eligible uplinks to one spine make.
EntryBy(f, x, y) ==
    [spine |-> Index(y.peer), domain |-> node_domain(f, y.peer),
     capacity |-> Smaller(x.speed, y.speed), verdict |-> "eligible"]
MadeBy(f, x, y, e) ==
    e = EntryBy(f, x, y) /\ x.speed \in Nat /\ y.speed \in Nat /\ Index(y.peer) \in Nat

\* What an entry of the pool of two leaves is.
LEMMA PoolEntry ==
  ASSUME NEW f, WellFormed(f), NEW m, NEW n, NEW c, NEW who,
         NEW y \in DOMAIN PairPool(f, m, n, c, who)
  PROVE  MadeBy(f, Partner(f, m, y), y, PairPool(f, m, n, c, who)[y])
PROOF
  <1>1. y \in SharedUplinks(f, m, n) /\ BothEligible(f, m, n, y, c, who)
    BY PoolFacts
  <1>2. PICK x : x = Partner(f, m, y)
    OBVIOUS
  <1>3. x \in uplinks(f, m) /\ y \in uplinks(f, n) /\ x.peer = y.peer
    BY <1>1, <1>2, PartnerFacts
  <1>4. x.speed \in Nat /\ y.speed \in Nat /\ Index(y.peer) \in Nat
    BY <1>3, UplinkNumbers
  <1>5. PICK o : o = evaluate_uplink(f, m, x, c, who)
    OBVIOUS
  <1>6. PICK e : e = evaluate_uplink(f, n, y, c, who)
    OBVIOUS
  <1>7. o.verdict = "eligible" /\ e.verdict = "eligible"
    BY <1>1, <1>2, <1>5, <1>6 DEF BothEligible
  <1>8. Combined(f, m, n, c, who)[y] = Joined(o, e)
    BY <1>1, <1>2, <1>5, <1>6 DEF Combined, Partner
  <1>9. PairPool(f, m, n, c, who)[y] = Combined(f, m, n, c, who)[y]
    BY <1>1, PoolFacts DEF PairPool, EligiblePool, Restrict
  <1>10. Joined(o, e) = [o EXCEPT !.capacity = Smaller(o.capacity, e.capacity)]
    BY <1>7 DEF Joined
  <1>11. /\ o = [spine |-> Index(y.peer), domain |-> node_domain(f, y.peer),
                 capacity |-> x.speed, verdict |-> "eligible"]
         /\ e.capacity = y.speed
    BY <1>3, <1>5, <1>6, <1>7 DEF evaluate_uplink
  <1>12. Joined(o, e) = EntryBy(f, x, y)
    BY SMT, <1>10, <1>11 DEF EntryBy
  <1> QED BY <1>2, <1>4, <1>8, <1>9, <1>12 DEF MadeBy

\* The pool of two leaves is one to choose from.
LEMMA PairPoolIsPool ==
  ASSUME NEW f, WellFormed(f), NEW m, NEW n, NEW c, NEW who
  PROVE  IsPool(PairPool(f, m, n, c, who))
PROOF
  <1>1. PICK pool : pool = PairPool(f, m, n, c, who)
    OBVIOUS
  <1>2. IsFiniteSet(DOMAIN pool)
    <2>1. DOMAIN pool \subseteq SharedUplinks(f, m, n)
      BY <1>1, PoolFacts
    <2>2. SharedUplinks(f, m, n) \subseteq build(f)
      BY DEF SharedUplinks, uplinks, OfClass, adjacencies
    <2>3. DOMAIN pool \in SUBSET build(f)
      BY <2>1, <2>2
    <2> QED BY <2>3, BuiltFinite, FS_Subset
  <1>3. \A y \in DOMAIN pool : IsEntry(pool[y])
    <2>1. SUFFICES ASSUME NEW y \in DOMAIN pool PROVE IsEntry(pool[y])
      OBVIOUS
    <2>2. PICK x : x = Partner(f, m, y)
      OBVIOUS
    <2>3. MadeBy(f, x, y, pool[y])
      BY <1>1, <2>2, PoolEntry
    <2>4. Smaller(x.speed, y.speed) \in Nat
      BY <2>3 DEF MadeBy, Smaller
    <2> QED BY SMT, <2>3, <2>4 DEF MadeBy, EntryBy, IsEntry
  <1>4. ASSUME NEW x \in DOMAIN pool, NEW y \in DOMAIN pool, pool[x].spine = pool[y].spine
        PROVE  pool[x].domain = pool[y].domain
    <2>1. \A z \in DOMAIN pool : /\ pool[z].spine = Index(z.peer)
                                 /\ pool[z].domain = node_domain(f, Spine(Index(z.peer)))
      <3>1. SUFFICES ASSUME NEW z \in DOMAIN pool
                     PROVE  /\ pool[z].spine = Index(z.peer)
                            /\ pool[z].domain = node_domain(f, Spine(Index(z.peer)))
        OBVIOUS
      <3>2. EntryOf(f, z, pool[z]) /\ z \in SharedUplinks(f, m, n)
        BY <1>1, PoolFacts
      <3>3. z \in uplinks(f, n)
        BY <3>2 DEF SharedUplinks
      <3>4. z.peer = Spine(Index(z.peer))
        BY <3>3, UplinkFacts DEF IsUplink
      <3> QED BY <3>2, <3>4 DEF EntryOf
    <2> QED BY <1>4, <2>1
  <1> QED BY <1>1, <1>2, <1>3, <1>4 DEF IsPool

\* Two pools have the same entries, each as often.
Mirrored(p, q) ==
    \E phi \in Bijection(DOMAIN p, DOMAIN q) : \A x \in DOMAIN p : q[phi[x]] = p[x]

\* Without parallel links, the pools of a question in both directions have the
\* same entries.
LEMMA PoolsMirrored ==
  ASSUME NEW f, WellFormed(f), ~Parallel(f), NEW m, NEW n, NEW c, NEW who
  PROVE  Mirrored(PairPool(f, m, n, c, who), PairPool(f, n, m, c, who))
PROOF
  <1>1. PICK p : p = PairPool(f, m, n, c, who)
    OBVIOUS
  <1>2. PICK q : q = PairPool(f, n, m, c, who)
    OBVIOUS
  <1>3. ASSUME NEW i, NEW j, NEW y \in DOMAIN PairPool(f, i, j, c, who)
        PROVE  /\ Partner(f, i, y) \in DOMAIN PairPool(f, j, i, c, who)
               /\ Partner(f, j, Partner(f, i, y)) = y
    <2>1. y \in SharedUplinks(f, i, j) /\ BothEligible(f, i, j, y, c, who)
      BY <1>3, PoolFacts
    <2>2. PICK x : x = Partner(f, i, y)
      OBVIOUS
    <2>3. x \in uplinks(f, i) /\ y \in uplinks(f, j) /\ x.peer = y.peer
      BY <2>1, <2>2, PartnerFacts
    <2>4. x \in SharedUplinks(f, j, i)
      BY <2>3 DEF SharedUplinks, Towards
    <2>5. Partner(f, j, x) \in uplinks(f, j) /\ Partner(f, j, x).peer = x.peer
      BY <2>4, PartnerFacts
    <2>6. Partner(f, j, x) = y
      BY <2>3, <2>5, OneUplink
    <2>7. BothEligible(f, j, i, x, c, who)
      BY <2>1, <2>2, <2>6 DEF BothEligible
    <2>8. DOMAIN PairPool(f, j, i, c, who) =
            {z \in SharedUplinks(f, j, i) : BothEligible(f, j, i, z, c, who)}
      BY PoolFacts
    <2>9. x \in DOMAIN PairPool(f, j, i, c, who)
      BY <2>4, <2>7, <2>8
    <2> QED BY <2>2, <2>6, <2>9
  <1>a. \A y \in DOMAIN p : Partner(f, m, y) \in DOMAIN q /\ Partner(f, n, Partner(f, m, y)) = y
    BY <1>1, <1>2, <1>3
  <1>4. PICK phi : phi = [y \in DOMAIN p |-> Partner(f, m, y)]
    OBVIOUS
  <1>5. phi \in [DOMAIN p -> DOMAIN q]
    BY <1>a, <1>4
  <1>6. \A x, y \in DOMAIN p : phi[x] = phi[y] => x = y
    BY <1>a, <1>4
  <1>7. \A z \in DOMAIN q : \E y \in DOMAIN p : phi[y] = z
    <2>1. SUFFICES ASSUME NEW z \in DOMAIN q PROVE \E y \in DOMAIN p : phi[y] = z
      OBVIOUS
    <2>2. Partner(f, n, z) \in DOMAIN p /\ Partner(f, m, Partner(f, n, z)) = z
      BY <1>1, <1>2, <1>3
    <2> QED BY <1>4, <2>2
  <1>8. phi \in Bijection(DOMAIN p, DOMAIN q)
    BY <1>5, <1>6, <1>7 DEF Bijection, Injection, Surjection, IsInjective
  <1>9. ASSUME NEW y \in DOMAIN p PROVE q[phi[y]] = p[y]
    <2>1. PICK x : x = Partner(f, m, y)
      OBVIOUS
    <2>2. x \in DOMAIN q /\ Partner(f, n, x) = y /\ phi[y] = x
      BY <1>a, <1>4, <2>1
    <2>3. x.peer = y.peer
      <3>1. y \in SharedUplinks(f, m, n)
        BY <1>1, PoolFacts
      <3> QED BY <2>1, <3>1, PartnerFacts
    <2>4. MadeBy(f, x, y, p[y])
      BY <1>1, <2>1, PoolEntry
    <2>5. MadeBy(f, y, x, q[x])
      BY <1>2, <2>2, PoolEntry
    <2>6. Smaller(y.speed, x.speed) = Smaller(x.speed, y.speed)
      <3>1. x.speed \in Nat /\ y.speed \in Nat
        BY <2>4 DEF MadeBy
      <3> QED BY SMT, <3>1 DEF Smaller
    <2> QED BY <2>2, <2>3, <2>4, <2>5, <2>6 DEF MadeBy, EntryBy
  <1> QED BY <1>1, <1>2, <1>8, <1>9 DEF Mirrored

\* Every entry of one pool is an entry of the other; how many entries are of a kind.
Contained(p, q) == \A x \in DOMAIN p : \E y \in DOMAIN q : q[y] = p[x]
Among(p, V) == Cardinality({x \in DOMAIN p : p[x] \in V})

\* Mirrored pools have the same entries.
LEMMA MirrorEntries ==
  ASSUME NEW p, NEW q, Mirrored(p, q)
  PROVE  Contained(p, q) /\ Contained(q, p)
PROOF
  <1>1. PICK phi \in Bijection(DOMAIN p, DOMAIN q) : \A x \in DOMAIN p : q[phi[x]] = p[x]
    BY DEF Mirrored
  <1>2. /\ phi \in [DOMAIN p -> DOMAIN q]
        /\ \A z \in DOMAIN q : \E x \in DOMAIN p : phi[x] = z
    BY DEF Bijection, Surjection
  <1>3. Contained(p, q)
    BY <1>1, <1>2 DEF Contained
  <1>4. Contained(q, p)
    BY <1>1, <1>2 DEF Contained
  <1> QED BY <1>3, <1>4

\* Mirrored pools have as many entries of any kind.
LEMMA MirrorCount ==
  ASSUME NEW p, NEW q, Mirrored(p, q), IsFiniteSet(DOMAIN p), NEW V
  PROVE  Among(p, V) = Among(q, V)
PROOF
  <1>1. PICK phi \in Bijection(DOMAIN p, DOMAIN q) : \A x \in DOMAIN p : q[phi[x]] = p[x]
    BY DEF Mirrored
  <1>2. /\ phi \in [DOMAIN p -> DOMAIN q]
        /\ \A x, y \in DOMAIN p : phi[x] = phi[y] => x = y
        /\ \A z \in DOMAIN q : \E x \in DOMAIN p : phi[x] = z
    BY DEF Bijection, Injection, Surjection, IsInjective
  <1>3. PICK A : A = {x \in DOMAIN p : p[x] \in V}
    OBVIOUS
  <1>4. PICK B : B = {y \in DOMAIN q : q[y] \in V}
    OBVIOUS
  <1>5. PICK psi : psi = [x \in A |-> phi[x]]
    OBVIOUS
  <1>6. psi \in [A -> B]
    BY <1>1, <1>2, <1>3, <1>4, <1>5
  <1>7. \A x, y \in A : psi[x] = psi[y] => x = y
    BY <1>2, <1>3, <1>5
  <1>8. \A z \in B : \E x \in A : psi[x] = z
    BY <1>1, <1>2, <1>3, <1>4, <1>5
  <1>9. psi \in Bijection(A, B)
    BY <1>6, <1>7, <1>8 DEF Bijection, Injection, Surjection, IsInjective
  <1>10. ExistsBijection(A, B)
    BY <1>9 DEF ExistsBijection
  <1>11. IsFiniteSet(A)
    BY <1>3, FS_Subset
  <1>12. Cardinality(A) = Cardinality(B)
    BY <1>10, <1>11, FS_Bijection
  <1> QED BY <1>3, <1>4, <1>12 DEF Among

\* Mirrored pools name the same spines and domains, with the same capacity.
LEMMA MirrorSame ==
  ASSUME NEW p, IsPool(p), NEW q, IsPool(q), Mirrored(p, q)
  PROVE  /\ Cardinality(DOMAIN p) = Cardinality(DOMAIN q)
         /\ SpinesOf(p) = SpinesOf(q) /\ DomainsOf(p) = DomainsOf(q) /\ Total(p) = Total(q)
         /\ Combinations(p) = Combinations(q) /\ Enumerated(p) = Enumerated(q)
PROOF
  <1>1. IsFiniteSet(DOMAIN p) /\ \A x \in DOMAIN p : IsEntry(p[x])
    BY DEF IsPool
  <1>2. IsFiniteSet(DOMAIN q) /\ \A y \in DOMAIN q : IsEntry(q[y])
    BY DEF IsPool
  <1>3. PICK E : E = {p[x] : x \in DOMAIN p}
    OBVIOUS
  <1>4. /\ \A x \in DOMAIN p : p[x] \in E /\ \E y \in DOMAIN q : q[y] = p[x]
        /\ \A y \in DOMAIN q : q[y] \in E /\ \E x \in DOMAIN p : p[x] = q[y]
    <2>0. Contained(p, q) /\ Contained(q, p)
      BY MirrorEntries
    <2>1. /\ \A x \in DOMAIN p : \E y \in DOMAIN q : q[y] = p[x]
          /\ \A y \in DOMAIN q : \E x \in DOMAIN p : p[x] = q[y]
      BY <2>0 DEF Contained
    <2>2. \A x \in DOMAIN p : p[x] \in E
      BY <1>3
    <2>3. \A y \in DOMAIN q : q[y] \in E
      BY <2>1, <2>2
    <2> QED BY <2>1, <2>2, <2>3
  <1>5. Cardinality(DOMAIN p) = Cardinality(DOMAIN q)
    <2>1. /\ DOMAIN p = {x \in DOMAIN p : p[x] \in E}
          /\ DOMAIN q = {y \in DOMAIN q : q[y] \in E}
      BY <1>4
    <2>2. Among(p, E) = Among(q, E)
      BY <1>1, MirrorCount
    <2> QED BY ONLY <2>1, <2>2, Zenon DEF Among
  <1>6. SpinesOf(p) = SpinesOf(q)
    <2>1. {p[x].spine : x \in DOMAIN p} = {q[y].spine : y \in DOMAIN q}
      <3>1. \A x \in DOMAIN p : \E y \in DOMAIN q : q[y].spine = p[x].spine
        BY <1>4
      <3>2. \A y \in DOMAIN q : \E x \in DOMAIN p : p[x].spine = q[y].spine
        BY <1>4
      <3>3. PICK P : P = {p[x].spine : x \in DOMAIN p}
        OBVIOUS
      <3>4. PICK Q : Q = {q[y].spine : y \in DOMAIN q}
        OBVIOUS
      <3>5. \A s : s \in P <=> \E x \in DOMAIN p : s = p[x].spine
        BY <3>3
      <3>6. \A s : s \in Q <=> \E y \in DOMAIN q : s = q[y].spine
        BY <3>4
      <3>7. P \subseteq Q
        BY <3>1, <3>5, <3>6
      <3>8. Q \subseteq P
        BY <3>2, <3>5, <3>6
      <3>9. P = Q
        BY <3>7, <3>8
      <3> QED BY <3>3, <3>4, <3>9
    <2>2. ASSUME NEW s
          PROVE  Cardinality({x \in DOMAIN p : p[x].spine = s})
                   = Cardinality({y \in DOMAIN q : q[y].spine = s})
      <3>1. PICK V : V = {e \in E : e.spine = s}
        OBVIOUS
      <3>2. {x \in DOMAIN p : p[x].spine = s} = {x \in DOMAIN p : p[x] \in V}
        BY <1>4, <3>1
      <3>3. {y \in DOMAIN q : q[y].spine = s} = {y \in DOMAIN q : q[y] \in V}
        BY <1>4, <3>1
      <3>4. Among(p, V) = Among(q, V)
        BY <1>1, MirrorCount
      <3> QED BY ONLY <3>2, <3>3, <3>4, Zenon DEF Among
    <2> QED BY ONLY <2>1, <2>2, Zenon DEF SpinesOf
  <1>7. DomainsOf(p) = DomainsOf(q)
    <2>1. \A x \in DOMAIN p : \E y \in DOMAIN q : q[y].domain = p[x].domain
      BY <1>4
    <2>2. \A y \in DOMAIN q : \E x \in DOMAIN p : p[x].domain = q[y].domain
      BY <1>4
    <2>3. \A d : d \in DomainsOf(p) <=> \E x \in DOMAIN p : d = p[x].domain
      BY DEF DomainsOf
    <2>4. \A d : d \in DomainsOf(q) <=> \E y \in DOMAIN q : d = q[y].domain
      BY DEF DomainsOf
    <2>5. DomainsOf(p) \subseteq DomainsOf(q)
      BY <2>1, <2>3, <2>4
    <2>6. DomainsOf(q) \subseteq DomainsOf(p)
      BY <2>2, <2>3, <2>4
    <2> QED BY <2>5, <2>6
  <1>8. Total(p) = Total(q)
    <2>1. PICK g : g = [x \in DOMAIN p |-> p[x].capacity]
      OBVIOUS
    <2>2. PICK h : h = [y \in DOMAIN q |-> q[y].capacity]
      OBVIOUS
    <2>3. Countable(g) /\ Countable(h)
      BY <1>1, <1>2, <2>1, <2>2 DEF Countable, IsEntry
    <2>4. PICK phi \in Bijection(DOMAIN p, DOMAIN q) : \A x \in DOMAIN p : q[phi[x]] = p[x]
      BY DEF Mirrored
    <2>5. \A x \in DOMAIN p : phi[x] \in DOMAIN q
      BY <2>4 DEF Bijection, Injection
    <2>6. DOMAIN g = DOMAIN p /\ DOMAIN h = DOMAIN q /\ \A x \in DOMAIN g : h[phi[x]] = g[x]
      BY <2>1, <2>2, <2>4, <2>5
    <2>7. phi \in Bijection(DOMAIN g, DOMAIN h)
      BY <2>4, <2>6
    <2>8. SumFunction(g) = SumFunction(h)
      BY <2>3, <2>6, <2>7, SumRenamed
    <2> QED BY <2>1, <2>2, <2>8 DEF Total
  <1>9. Combinations(p) = Combinations(q)
    <2>1. ASSUME NEW d PROVE Cardinality(InDomain(p, d)) = Cardinality(InDomain(q, d))
      <3>1. PICK V : V = {e \in E : e.domain = d}
        OBVIOUS
      <3>2. InDomain(p, d) = {x \in DOMAIN p : p[x] \in V}
        BY <1>4, <3>1 DEF InDomain
      <3>3. InDomain(q, d) = {y \in DOMAIN q : q[y] \in V}
        BY <1>4, <3>1 DEF InDomain
      <3>4. Among(p, V) = Among(q, V)
        BY <1>1, MirrorCount
      <3> QED BY ONLY <3>2, <3>3, <3>4, Zenon DEF Among
    <2>2. [d \in DomainsOf(p) |-> Cardinality(InDomain(p, d))]
            = [d \in DomainsOf(q) |-> Cardinality(InDomain(q, d))]
      BY <1>7, <2>1
    <2> QED BY <2>2 DEF Combinations
  <1>10. Enumerated(p) = Enumerated(q)
    <2>1. ASSUME NEW s PROVE Selection(p, s) <=> Selection(q, s)
      <3>1. PICK D : D = DomainsOf(p) /\ D = DomainsOf(q)
        BY <1>7
      <3>2. ASSUME NEW d \in D
            PROVE  (\E x \in DOMAIN p : s[d] = p[x]) <=> (\E y \in DOMAIN q : s[d] = q[y])
        BY <1>4
      <3>3. Selection(p, s) <=> /\ s = [d \in D |-> s[d]]
                               /\ \A d \in D : s[d].domain = d /\ \E x \in DOMAIN p : s[d] = p[x]
        BY <3>1 DEF Selection
      <3>4. Selection(q, s) <=> /\ s = [d \in D |-> s[d]]
                               /\ \A d \in D : s[d].domain = d /\ \E y \in DOMAIN q : s[d] = q[y]
        BY <3>1 DEF Selection
      <3> QED BY ONLY <3>2, <3>3, <3>4, Zenon
    <2>2. \A s : s \in Enumerated(p) <=> s \in Enumerated(q)
      BY <2>1, EnumeratedIs
    <2> QED BY <2>2
  <1> QED BY <1>5, <1>6, <1>7, <1>8, <1>9, <1>10

\* The same spine sets are selected from mirrored pools.
LEMMA MirrorSets ==
  ASSUME NEW p, IsPool(p), p = [x \in DOMAIN p |-> p[x]],
         NEW q, IsPool(q), q = [x \in DOMAIN q |-> q[x]], Mirrored(p, q), NEW c
  PROVE  select_spine_sets(p, c) = select_spine_sets(q, c)
PROOF
  <1>1. ASSUME NEW r, IsPool(r), r = [x \in DOMAIN r |-> r[x]] PROVE EligiblePool(r) = r
    <2>1. ASSUME NEW x \in DOMAIN r PROVE r[x].verdict = "eligible"
      <3>1. PICK e : e = r[x]
        OBVIOUS
      <3>2. IsEntry(e)
        BY <1>1, <3>1 DEF IsPool
      <3>3. e.verdict = "eligible"
        BY <3>2, SMT DEF IsEntry
      <3> QED BY <3>1, <3>3
    <2>2. Having(r, "eligible") = DOMAIN r
      BY <2>1 DEF Having
    <2> QED BY <1>1, <2>2 DEF EligiblePool, Restrict
  <1>2. /\ SpinesOf(p) = SpinesOf(q) /\ DomainsOf(p) = DomainsOf(q) /\ Total(p) = Total(q)
        /\ Combinations(p) = Combinations(q) /\ Enumerated(p) = Enumerated(q)
    BY MirrorSame
  <1>3. SetOf(p) = SetOf(q)
    BY <1>2 DEF SetOf
  <1>4. Greedy(p) = Greedy(q)
    BY <1>2, GreedyRanksFirst
  <1>5. DOMAIN p = {} <=> DOMAIN q = {}
    <2>1. Contained(p, q) /\ Contained(q, p)
      BY MirrorEntries
    <2> QED BY <2>1 DEF Contained
  <1>6. EligiblePool(p) = p /\ EligiblePool(q) = q
    BY <1>1
  <1> QED BY <1>2, <1>3, <1>4, <1>5, <1>6 DEF select_spine_sets

\* Two adjacencies are the two ends of one link.
Ends(x, y) ==
    /\ x.link = y.link /\ x.self = y.peer /\ x.peer = y.self
    /\ x.local = y.remote /\ x.remote = y.local
    /\ x.cls = y.cls /\ x.speed = y.speed

\* The index has both ends of a link.
LEMMA OtherEnd ==
  ASSUME NEW f, NEW x \in build(f)
  PROVE  \E y \in build(f) : Ends(x, y)
PROOF
  <1>1. PICK i \in EnabledLinks(f) : x = Forward(f, i) \/ x = Backward(f, i)
    BY DEF build
  <1>2. Forward(f, i) \in build(f) /\ Backward(f, i) \in build(f)
    BY <1>1 DEF build
  <1>3. Ends(Forward(f, i), Backward(f, i)) /\ Ends(Backward(f, i), Forward(f, i))
    BY DEF Ends, Forward, Backward
  <1> QED BY <1>1, <1>2, <1>3

\* Adjacency goes both ways.
LEMMA AdjacentBack ==
  ASSUME NEW f, NEW a, NEW b, adjacent(f, a, b)
  PROVE  adjacent(f, b, a)
PROOF
  <1>1. PICK x \in build(f) : x.self = a /\ x.peer = b
    BY DEF adjacent, Towards, adjacencies
  <1>2. PICK y \in build(f) : Ends(x, y)
    BY OtherEnd
  <1>3. y.self = b /\ y.peer = a
    BY <1>1, <1>2 DEF Ends
  <1> QED BY <1>2, <1>3 DEF adjacent, Towards, adjacencies

\* Both directions of a question about two adjacent nodes look at the same link.
LEMMA BetweenBack ==
  ASSUME NEW f, WellFormed(f), NEW a, NEW b, adjacent(f, a, b)
  PROVE  Ends(adjacency_between(f, a, b), adjacency_between(f, b, a))
PROOF
  <1>1. PICK S : S = Towards(adjacencies(f, a), b)
    OBVIOUS
  <1>2. PICK T : T = Towards(adjacencies(f, b), a)
    OBVIOUS
  <1>3. /\ \A x : x \in S <=> x \in build(f) /\ x.self = a /\ x.peer = b
        /\ \A x : x \in T <=> x \in build(f) /\ x.self = b /\ x.peer = a
    BY <1>1, <1>2 DEF Towards, adjacencies
  <1>4. S # {} /\ T # {}
    BY <1>1, <1>2, AdjacentBack DEF adjacent
  <1>5. PICK x : x = Lowest(S)
    OBVIOUS
  <1>6. PICK y : y = Lowest(T)
    OBVIOUS
  <1>7. x \in S /\ \A z \in S : x.link <= z.link
    <2>1. S \in SUBSET build(f)
      BY <1>3
    <2> QED BY <1>4, <1>5, <2>1, Extremes
  <1>8. y \in T /\ \A z \in T : y.link <= z.link
    <2>1. T \in SUBSET build(f)
      BY <1>3
    <2> QED BY <1>4, <1>6, <2>1, Extremes
  <1>9. x \in build(f) /\ x.self = a /\ x.peer = b /\ y \in build(f) /\ y.self = b /\ y.peer = a
    BY <1>3, <1>7, <1>8
  <1>10. PICK u \in build(f) : Ends(x, u)
    BY <1>9, OtherEnd
  <1>11. PICK v \in build(f) : Ends(y, v)
    BY <1>9, OtherEnd
  <1>12. u \in T /\ v \in S
    BY <1>3, <1>9, <1>10, <1>11 DEF Ends
  <1>13. y.link <= x.link /\ x.link <= y.link
    BY <1>7, <1>8, <1>10, <1>11, <1>12 DEF Ends
  <1>14. x.link \in Nat /\ y.link \in Nat
    BY <1>9, BuiltEnds DEF IsEnd, EnabledLinks, WellFormed, FabricShape
  <1>15. x.link = y.link
    BY ONLY <1>13, <1>14, SMT
  <1>16. u.link = y.link /\ u.self = y.self
    BY <1>9, <1>10, <1>15 DEF Ends
  <1>17. u = y
    BY <1>9, <1>10, <1>16, BuiltOnce
  <1> QED BY <1>1, <1>2, <1>5, <1>6, <1>10, <1>17 DEF adjacency_between

\* Two leaves are of one class in both directions.
LEMMA ClassBack ==
  ASSUME NEW f, WellFormed(f), NEW m, NEW n
  PROVE  PairClass(f, m, n) = PairClass(f, n, m)
PROOF
  <1>1. PICK a : a = Leaf(m)
    OBVIOUS
  <1>2. PICK b : b = Leaf(n)
    OBVIOUS
  <1>3. Tier(a) = "leaf" /\ Tier(b) = "leaf"
    BY <1>1, <1>2 DEF Tier, Leaf
  <1>4. adjacent(f, a, b) <=> adjacent(f, b, a)
    BY AdjacentBack
  <1>5. adjacent(f, a, b) => adjacency_between(f, a, b).cls = adjacency_between(f, b, a).cls
    BY BetweenBack DEF Ends
  <1>6. \A i, j : common_spines(f, i, j) = common_spines(f, j, i)
    BY DEF common_spines
  <1>7. LeafPairClass(f, a, b) = LeafPairClass(f, b, a)
    <2>1. PICK k : k = Cardinality(common_spines(f, Index(a), Index(b)))
      OBVIOUS
    <2>2. k = Cardinality(common_spines(f, Index(b), Index(a)))
      BY <1>6, <2>1
    <2> QED BY <2>1, <2>2 DEF LeafPairClass
  <1>8. structural_class(f, a, b) = structural_class(f, b, a)
    BY <1>3, <1>4, <1>5, <1>7 DEF structural_class
  <1> QED BY <1>1, <1>2, <1>8 DEF PairClass

\* Two answers name the same spines, sets and capacity, and do not contradict
\* each other.
Agree(p, q) ==
    /\ p.spines = q.spines /\ p.capacity = q.capacity /\ p.sets = q.sets
    /\ {p.verdict, q.verdict} # {"eligible", "ineligible"}

\* An answer without any spine.
IsBare(p, verdict, capacity) ==
    /\ p.spines = EmptyCounts /\ p.capacity = capacity /\ p.sets = {}
    /\ p.verdict = verdict

\* Answers without any spine agree when verdict and capacity do.
LEMMA BareAgree ==
  ASSUME NEW p, NEW q, NEW v, NEW k, IsBare(p, v, k), IsBare(q, v, k)
  PROVE  Agree(p, q)
PROOF
  <1>1. {v, v} # {"eligible", "ineligible"}
    BY SMT
  <1> QED BY <1>1 DEF IsBare, Agree

\* The verdict on a direct link, of which either end is looked at.
PeerVerdict(f, x, c, who) ==
    LET best == evidence_for(f, x.link)
        record == CHOOSE e \in best : TRUE
    IN  IF ~c.peers \/ ~PortsEnabled(f, x) THEN "ineligible"
        ELSE IF ~requires_evidence(f, c) THEN "eligible"
        ELSE IF Cardinality(best) # 1 \/ ~IsFresh(f, record, who, f.epoch) THEN "indeterminate"
        ELSE IF record.observed = "up" THEN "eligible" ELSE "ineligible"

\* What a question about two leaves with a direct link is answered.
LEMMA PeerFields ==
  ASSUME NEW f, NEW a, NEW b, NEW c, NEW who, NEW x, x = adjacency_between(f, a, b)
  PROVE  IsBare(assess_peer(f, a, b, c, who), PeerVerdict(f, x, c, who),
                IF PeerVerdict(f, x, c, who) = "eligible" THEN x.speed ELSE 0)
PROOF
  <1>1. PICK v : v = PeerVerdict(f, x, c, who)
    OBVIOUS
  <1>2. assess_peer(f, a, b, c, who)
          = [Bare(f, a, b, who, v) EXCEPT !.capacity = IF v = "eligible" THEN x.speed ELSE 0]
    BY <1>1 DEF assess_peer, PeerVerdict
  <1> QED BY <1>1, <1>2 DEF Bare, IsBare

\* The two directions of a question about two leaves with a direct link.
LEMMA PeerAgree ==
  ASSUME NEW f, WellFormed(f), NEW a, NEW b, adjacent(f, a, b), NEW c, NEW who
  PROVE  Agree(assess_peer(f, a, b, c, who), assess_peer(f, b, a, c, who))
PROOF
  <1>1. PICK x : x = adjacency_between(f, a, b)
    OBVIOUS
  <1>2. PICK y : y = adjacency_between(f, b, a)
    OBVIOUS
  <1>3. Ends(x, y)
    BY <1>1, <1>2, BetweenBack
  <1>4. PortsEnabled(f, x) <=> PortsEnabled(f, y)
    BY <1>3 DEF Ends, PortsEnabled
  <1>5. PeerVerdict(f, x, c, who) = PeerVerdict(f, y, c, who)
    BY <1>3, <1>4 DEF Ends, PeerVerdict
  <1>6. PICK v : v = PeerVerdict(f, x, c, who) /\ v = PeerVerdict(f, y, c, who)
    BY <1>5
  <1>7. PICK k : k = (IF v = "eligible" THEN x.speed ELSE 0)
    OBVIOUS
  <1>8. k = IF v = "eligible" THEN y.speed ELSE 0
    BY <1>3, <1>7 DEF Ends
  <1>9. IsBare(assess_peer(f, a, b, c, who), v, k)
    BY <1>1, <1>6, <1>7, PeerFields
  <1>10. IsBare(assess_peer(f, b, a, c, who), v, k)
    BY <1>2, <1>6, <1>8, PeerFields
  <1> QED BY <1>9, <1>10, BareAgree

\* What a pool of two leaves meets, it meets for both orders of the leaves.
LEMMA MetBack ==
  ASSUME NEW f, WellFormed(f), NEW m \in DOMAIN f.leaves, NEW n \in DOMAIN f.leaves, NEW c,
         NEW p, NEW q, Cardinality(DOMAIN p) = Cardinality(DOMAIN q),
         DomainsOf(p) = DomainsOf(q), Total(p) = Total(q)
  PROVE  Met(f, m, n, p, c) <=> Met(f, n, m, q, c)
PROOF
  <1>1. f.leaves[m].access \in Nat /\ f.leaves[n].access \in Nat
    BY DEF WellFormed, FabricShape, LeafShape
  <1>2. PICK i : i = f.leaves[m].access
    OBVIOUS
  <1>3. PICK j : j = f.leaves[n].access
    OBVIOUS
  <1>4. i \in Nat /\ j \in Nat
    BY <1>1, <1>2, <1>3
  <1>5. i + j = j + i
    BY ONLY <1>4, SMT
  <1> QED BY <1>2, <1>3, <1>5 DEF Met


\* The two directions of a question about two leaves that share a spine.
LEMMA SharedAgree ==
  ASSUME NEW f, WellFormed(f), ~Parallel(f), NEW m \in DOMAIN f.leaves,
         NEW n \in DOMAIN f.leaves, NEW c, NEW who
  PROVE  Agree(assess_shared(f, m, n, c, who), assess_shared(f, n, m, c, who))
PROOF
  <1>1. PICK p : p = PairPool(f, m, n, c, who)
    OBVIOUS
  <1>2. PICK q : q = PairPool(f, n, m, c, who)
    OBVIOUS
  <1>3. IsPool(p) /\ IsPool(q) /\ Mirrored(p, q)
    BY <1>1, <1>2, PairPoolIsPool, PoolsMirrored
  <1>4. p = [x \in DOMAIN p |-> p[x]] /\ q = [x \in DOMAIN q |-> q[x]]
    BY <1>1, <1>2 DEF PairPool, EligiblePool, Restrict
  <1>5. /\ Cardinality(DOMAIN p) = Cardinality(DOMAIN q)
        /\ SpinesOf(p) = SpinesOf(q) /\ DomainsOf(p) = DomainsOf(q) /\ Total(p) = Total(q)
    BY <1>3, MirrorSame
  <1>6. select_spine_sets(p, c) = select_spine_sets(q, c)
    BY <1>3, <1>4, MirrorSets
  <1>7. Met(f, m, n, p, c) <=> Met(f, n, m, q, c)
    BY <1>5, MetBack
  <1>8. PICK P : P = assess_shared(f, m, n, c, who)
    OBVIOUS
  <1>9. PICK Q : Q = assess_shared(f, n, m, c, who)
    OBVIOUS
  <1>10. /\ P.spines = SpinesOf(p) /\ P.capacity = Total(p) /\ P.sets = select_spine_sets(p, c)
         /\ P.verdict = Verdict(Met(f, m, n, p, c), Cardinality(DOMAIN p),
                                Cardinality(Having(Combined(f, m, n, c, who), "indeterminate")))
    BY <1>1, <1>8 DEF assess_shared, PairPool, Bare
  <1>11. /\ Q.spines = SpinesOf(q) /\ Q.capacity = Total(q) /\ Q.sets = select_spine_sets(q, c)
         /\ Q.verdict = Verdict(Met(f, n, m, q, c), Cardinality(DOMAIN q),
                                Cardinality(Having(Combined(f, n, m, c, who), "indeterminate")))
    BY <1>2, <1>9 DEF assess_shared, PairPool, Bare
  <1>12. {P.verdict, Q.verdict} # {"eligible", "ineligible"}
    <2>1. PICK v : v = P.verdict
      OBVIOUS
    <2>2. PICK w : w = Q.verdict
      OBVIOUS
    <2>3. \/ v \in {"eligible", "indeterminate"} /\ w \in {"eligible", "indeterminate"}
          \/ v \in {"ineligible", "indeterminate"} /\ w \in {"ineligible", "indeterminate"}
      BY <1>7, <1>10, <1>11, <2>1, <2>2 DEF Verdict
    <2>4. {v, w} # {"eligible", "ineligible"}
      BY ONLY <2>3, SMT
    <2> QED BY <2>1, <2>2, <2>4
  <1> QED BY <1>5, <1>6, <1>8, <1>9, <1>10, <1>11, <1>12 DEF Agree

\* Without parallel links the answers to a question and to its reverse agree.
LEMMA DirectionsAgree ==
  ASSUME NEW f, WellFormed(f), ~Parallel(f), NEW m \in DOMAIN f.leaves,
         NEW n \in DOMAIN f.leaves, NEW c, NEW who
  PROVE  Agree(assess_leaf_pair(f, m, n, c, who), assess_leaf_pair(f, n, m, c, who))
PROOF
  <1>1. PICK cls : cls = PairClass(f, m, n) /\ cls = PairClass(f, n, m)
    BY ClassBack
  <1>2. CASE cls \in SharedClasses
    <2>1. /\ assess_leaf_pair(f, m, n, c, who) = assess_shared(f, m, n, c, who)
          /\ assess_leaf_pair(f, n, m, c, who) = assess_shared(f, n, m, c, who)
      BY <1>1, <1>2 DEF assess_leaf_pair, PairClass, SharedClasses
    <2> QED BY <2>1, SharedAgree
  <1>3. CASE cls = "DirectPeer"
    <2>1. /\ assess_leaf_pair(f, m, n, c, who) = assess_peer(f, Leaf(m), Leaf(n), c, who)
          /\ assess_leaf_pair(f, n, m, c, who) = assess_peer(f, Leaf(n), Leaf(m), c, who)
      BY <1>1, <1>3 DEF assess_leaf_pair, PairClass
    <2>2. adjacent(f, Leaf(m), Leaf(n))
      BY <1>1, <1>3 DEF PairClass, structural_class, LeafPairClass, Tier, Leaf
    <2> QED BY <2>1, <2>2, PeerAgree
  <1>4. CASE cls \in {"SameNode", "DirectLeafSpine", "LeafSpineViaPeer", "Unreachable"}
    <2>1. PICK v : /\ assess_leaf_pair(f, m, n, c, who) = Bare(f, Leaf(m), Leaf(n), who, v)
                   /\ assess_leaf_pair(f, n, m, c, who) = Bare(f, Leaf(n), Leaf(m), who, v)
      BY <1>1, <1>4 DEF assess_leaf_pair, PairClass
    <2>2. \A a, b : IsBare(Bare(f, a, b, who, v), v, 0)
      BY DEF Bare, IsBare
    <2> QED BY <2>1, <2>2, BareAgree
  <1>5. cls \in PairClasses
    <2>1. PairClass(f, m, n) \in PairClasses
      BY PairClassType
    <2> QED BY <1>1, <2>1
  <1> QED BY <1>2, <1>3, <1>4, <1>5 DEF PairClasses

\* The shared uplinks a question keeps are a pool of the engine's, and the set
\* picked from them domain by domain, when there are too many combinations to
\* examine, is the one the examination would have ranked first.
THEOREM GreedyIsBestHolds == Spec => []GreedyIsBest
PROOF
  <1>1. ASSUME Inv PROVE GreedyIsBest
    <2>1. SUFFICES ASSUME first # NoAnswer
                   PROVE  Greedy(first.pool) = Ranked(Enumerated(first.pool), 1)
      BY DEF GreedyIsBest, Asked
    <2>2. PICK p \in LeafPairs, c \in Queries : first = Reply(p, c)
      BY <1>1, <2>1 DEF Inv
    <2>3. first.pool = PairPool(fabric, p[1], p[2], c, me)
      BY <2>2 DEF Reply, PairPool
    <2>4. WellFormed(fabric)
      BY <1>1 DEF Inv
    <2>5. IsPool(first.pool)
      BY <2>3, <2>4, PairPoolIsPool
    <2> QED BY <2>5, GreedyRanksFirst
  <1> QED BY <1>1, Invariance, PTL

-----------------------------------------------------------------------------
(* The second answer.                                                      *)

\* Without parallel links the direction of a question does not matter: the same
\* spines, sets and capacity, and never eligible one way and ineligible the other.
THEOREM SymmetricHolds == Spec => []Symmetric
PROOF
  <1>1. ASSUME Inv PROVE Symmetric
    <2>1. SUFFICES ASSUME again.setting = "reversed", ~Parallel(fabric)
                   PROVE  Agree(first.answer, again.answer)
      BY DEF Symmetric, Again, Agree
    <2>2. again # NoAnswer
      BY SMT, <2>1 DEF NoAnswer
    <2>3. first # NoAnswer
      BY <1>1, <2>2 DEF Inv
    <2>4. PICK s \in Settings : again = ReplyIn(s)
      BY <1>1, <2>2 DEF Inv
    <2>5. s.setting = "reversed"
      BY <2>1, <2>4 DEF ReplyIn
    <2>6. s = [setting |-> "reversed", at |-> fabric, pair |-> <<first.pair[2], first.pair[1]>>]
      BY SMT, <2>5 DEF Settings
    <2>7. PICK p \in LeafPairs, c \in Queries : first = Reply(p, c)
      BY <1>1, <2>3 DEF Inv
    <2>8. PICK m : m = p[1]
      OBVIOUS
    <2>9. PICK n : n = p[2]
      OBVIOUS
    <2>10. /\ first.pair[1] = m /\ first.pair[2] = n /\ first.query = c
           /\ first.answer = assess_leaf_pair(fabric, m, n, c, me)
      BY <2>7, <2>8, <2>9 DEF Reply
    <2>11. again.answer = assess_leaf_pair(fabric, n, m, c, me)
      BY <2>4, <2>6, <2>10 DEF ReplyIn
    <2>12. WellFormed(fabric) /\ m \in DOMAIN fabric.leaves /\ n \in DOMAIN fabric.leaves
      BY <1>1, <2>7, <2>8, <2>9 DEF Inv, LeafPairs
    <2> QED BY <2>1, <2>10, <2>11, <2>12, DirectionsAgree
  <1> QED BY <1>1, Invariance, PTL

\* As many failure domains as an answer claims may be lost: some spine stays.
THEOREM ToleranceHonouredHolds == Spec => []ToleranceHonoured
PROOF
  <1>1. ASSUME Inv PROVE ToleranceHonoured
    <2>1. SUFFICES ASSUME again.setting = "lost", first.answer.spines # EmptyCounts
                   PROVE  again.answer.spines # EmptyCounts
      BY DEF ToleranceHonoured, Again
    <2>2. again # NoAnswer
      BY SMT, <2>1 DEF NoAnswer
    <2>3. first # NoAnswer
      BY <1>1, <2>2 DEF Inv
    <2>4. PICK s \in Settings : again = ReplyIn(s)
      BY <1>1, <2>2 DEF Inv
    <2>5. s.setting = "lost"
      BY <2>1, <2>4 DEF ReplyIn
    <2>6. PICK lost \in kSubset(first.answer.tolerance, first.answer.domains) :
            s = [setting |-> "lost", at |-> WithLost(lost), pair |-> first.pair]
      BY SMT, <2>5 DEF Settings
    <2>7. PICK m : m = first.pair[1]
      OBVIOUS
    <2>8. PICK n : n = first.pair[2]
      OBVIOUS
    <2>9. /\ WellFormed(fabric)
          /\ first.answer = assess_leaf_pair(fabric, m, n, first.query, me)
      BY <1>1, <2>3, <2>7, <2>8, FirstIs
    <2>10. WithLost(lost) = Lost(fabric, lost)
      BY DEF WithLost, Lost
    <2>11. again.answer = assess_leaf_pair(Lost(fabric, lost), m, n, first.query, me)
      BY <2>4, <2>6, <2>7, <2>8, <2>10 DEF ReplyIn
    <2> QED BY <2>1, <2>6, <2>9, <2>11, ToleratesLoss
  <1> QED BY <1>1, Invariance, PTL

\* Fresh observations of the undecided links change nothing else.
LEMMA ObservedIs ==
  ASSUME WellFormed(fabric), NEW outcome, DOMAIN outcome = Undecided
  PROVE  Reobserved(fabric, WithObserved(outcome), first.query, me)
PROOF
  <1>1. PICK R : R = {[link |-> id, observed |-> outcome[id], gen |-> fabric.gen,
                       observer |-> me, epoch |-> fabric.epoch, seq |-> 1] :
                        id \in DOMAIN outcome}
    OBVIOUS
  <1>2. PICK U : U = DOMAIN outcome
    OBVIOUS
  <1>3. PICK g : g = [fabric EXCEPT !.evidence = Counted(Without(@, U), R)]
    OBVIOUS
  <1>4. WithObserved(outcome) = g
    BY <1>1, <1>2, <1>3 DEF WithObserved
  <1>5. FabricShape(fabric)
    BY DEF WellFormed
  <1>6. /\ SameGraph(fabric, g) /\ g.spines = fabric.spines /\ g.options = fabric.options
        /\ g.gen = fabric.gen /\ g.epoch = fabric.epoch
    BY <1>3, <1>5 DEF SameGraph, FabricShape
  <1>7. \A r \in R : r.link \in U
    BY SMT, <1>1, <1>2
  <1>8. \A i : i \notin U => evidence_for(g, i) = evidence_for(fabric, i)
    <2>1. g.evidence = Counted(Without(fabric.evidence, U), R)
      BY <1>3, <1>5 DEF FabricShape
    <2>2. Replaces(fabric, g, U, R)
      BY <1>7, <2>1 DEF Replaces
    <2> QED BY <2>2, OthersKept
  <1>9. \A i \in U :
          ObservedVerdict(fabric, i, requires_evidence(fabric, first.query), me)
            = "indeterminate"
    BY <1>2 DEF Undecided
  <1> QED BY <1>4, <1>6, <1>8, <1>9 DEF Reobserved

\* Observing what is undecided never takes an eligible verdict away, and never
\* makes a pair eligible that was called ineligible for want of any spine.
THEOREM EvidenceMonotoneHolds == Spec => []EvidenceMonotone
PROOF
  <1>1. ASSUME Inv PROVE EvidenceMonotone
    <2>1. SUFFICES ASSUME again.setting = "observed"
                   PROVE  /\ first.answer.verdict = "eligible" => again.answer.verdict = "eligible"
                          /\ first.answer.verdict = "ineligible" /\ first.answer.spines = EmptyCounts
                               /\ first.answer.cls # "DirectPeer"
                               => again.answer.verdict # "eligible"
      BY DEF EvidenceMonotone, Again
    <2>2. again # NoAnswer
      BY SMT, <2>1 DEF NoAnswer
    <2>3. first # NoAnswer
      BY <1>1, <2>2 DEF Inv
    <2>4. PICK s \in Settings : again = ReplyIn(s)
      BY <1>1, <2>2 DEF Inv
    <2>5. s.setting = "observed"
      BY <2>1, <2>4 DEF ReplyIn
    <2>6. PICK outcome \in [Undecided -> {"up", "down"}] :
            s = [setting |-> "observed", at |-> WithObserved(outcome), pair |-> first.pair]
      BY SMT, <2>5 DEF Settings
    <2>7. PICK m : m = first.pair[1]
      OBVIOUS
    <2>8. PICK n : n = first.pair[2]
      OBVIOUS
    <2>9. /\ WellFormed(fabric) /\ first.query.minSpines \in Nat
          /\ first.answer = assess_leaf_pair(fabric, m, n, first.query, me)
      BY <1>1, <2>3, <2>7, <2>8, FirstIs
    <2>10. PICK g : g = WithObserved(outcome)
      OBVIOUS
    <2>11. Reobserved(fabric, g, first.query, me)
      BY <2>6, <2>9, <2>10, ObservedIs
    <2>12. again.answer = assess_leaf_pair(g, m, n, first.query, me)
      BY <2>4, <2>6, <2>7, <2>8, <2>10 DEF ReplyIn
    <2> QED BY SMT, <2>9, <2>11, <2>12, AnswerStays
  <1> QED BY <1>1, Invariance, PTL

-----------------------------------------------------------------------------
(* Classes and paths.                                                      *)

\* An adjacency leads to a node, of the same tier exactly when it is a peer link.
LEMMA AdjacencyKind ==
  ASSUME NEW f, WellFormed(f), NEW x \in build(f)
  PROVE  /\ x.cls \in {"leafspine", "peer"} /\ x.peer \in nodes(f)
         /\ x.cls = "peer" <=> Tier(x.self) = Tier(x.peer)
PROOF
  <1>1. IsEnd(f, x)
    BY BuiltEnds
  <1>2. PICK l : l = f.links[x.link]
    OBVIOUS
  <1>3. Attached(f, l) /\ LinkShape(l)
    BY <1>1, <1>2 DEF IsEnd, EnabledLinks, WellFormed, FabricShape
  <1>4. /\ x.cls \in {"leafspine", "peer"}
        /\ x.cls = "peer" <=> Tier(x.self) = Tier(x.peer)
    BY <1>1, <1>2, <1>3 DEF IsEnd, Attached, LinkShape
  <1>5. x.peer \in NodeKeys /\ HasNode(f, x.peer)
    BY <1>1, <1>2, <1>3 DEF IsEnd, Attached, LinkShape
  <1>6. x.peer \in nodes(f)
    BY SMT, <1>5 DEF NodeKeys, HasNode, nodes, Tier, Index, Leaf, Spine
  <1> QED BY <1>4, <1>6

\* Two adjacent nodes are joined by an adjacency of the class their tiers imply.
LEMMA AdjacentBy ==
  ASSUME NEW f, WellFormed(f), NEW a, NEW b, adjacent(f, a, b)
  PROVE  \E x \in OfClass(f, a, IF Tier(a) = Tier(b) THEN "peer" ELSE "leafspine") :
           x.peer = b
PROOF
  <1>1. PICK x \in build(f) : x.self = a /\ x.peer = b
    BY DEF adjacent, Towards, adjacencies
  <1>2. x.cls = IF Tier(a) = Tier(b) THEN "peer" ELSE "leafspine"
    BY SMT, <1>1, AdjacencyKind
  <1> QED BY <1>1, <1>2 DEF OfClass, adjacencies

\* A walk of one step takes an adjacency, and one of two steps turns at a node.
IsStep(f, a, b, w) == w \in [1..1 -> build(f)] /\ w[1].self = a /\ w[1].peer = b
IsTurn(f, a, b, w) ==
    /\ w \in [1..2 -> build(f)]
    /\ w[1].self = a /\ w[2].peer = b /\ w[2].self = w[1].peer

LEMMA WalkShape ==
  ASSUME NEW f, NEW a, NEW b, NEW w \in Walks(f, a, b, 2)
  PROVE  /\ Len(w) = 1 \/ Len(w) = 2
         /\ Len(w) = 1 => IsStep(f, a, b, w)
         /\ Len(w) = 2 => IsTurn(f, a, b, w)
PROOF
  <1>1. PICK h \in 1..2 : w \in [1..h -> build(f)]
    BY DEF Walks
  <1>2. w[1].self = a /\ w[Len(w)].peer = b /\ \A i \in 2..Len(w) : w[i].self = w[i - 1].peer
    BY DEF Walks
  <1>3. h = 1 \/ h = 2
    BY SMT
  <1>4. CASE h = 1
    <2>1. Len(w) = 1
      BY SMT, <1>1, <1>4
    <2> QED BY SMT, <1>1, <1>2, <1>4, <2>1 DEF IsStep
  <1>5. CASE h = 2
    <2>1. Len(w) = 2
      BY SMT, <1>1, <1>5
    <2>2. w[2].self = w[1].peer
      BY SMT, <1>2, <2>1
    <2> QED BY SMT, <1>1, <1>2, <1>5, <2>1, <2>2 DEF IsTurn
  <1> QED BY <1>3, <1>4, <1>5

\* Two nodes are adjacent exactly when a walk of one step joins them.
LEMMA OneStep ==
  ASSUME NEW f, NEW a, NEW b, a # b
  PROVE  adjacent(f, a, b) <=> \E w \in Walks(f, a, b, 2) : Len(w) = 1
PROOF
  <1>1. ASSUME NEW w \in Walks(f, a, b, 2), Len(w) = 1 PROVE adjacent(f, a, b)
    <2>1. w \in [1..1 -> build(f)] /\ w[1].self = a /\ w[1].peer = b
      <3>1. IsStep(f, a, b, w)
        BY <1>1, WalkShape
      <3> QED BY <3>1 DEF IsStep
    <2>2. w[1] \in build(f)
      BY SMT, <2>1
    <2> QED BY <2>1, <2>2 DEF adjacent, Towards, adjacencies
  <1>2. ASSUME adjacent(f, a, b) PROVE \E w \in Walks(f, a, b, 2) : Len(w) = 1
    <2>1. PICK x \in build(f) : x.self = a /\ x.peer = b
      BY <1>2 DEF adjacent, Towards, adjacencies
    <2>2. PICK w : w = <<x>>
      OBVIOUS
    <2>3. w \in [1..1 -> build(f)] /\ Len(w) = 1 /\ DOMAIN w = 1..1 /\ w[1] = x
      BY SMT, <2>2
    <2>4. w \in UNION {[1..h -> build(f)] : h \in 1..2}
      <3>1. 1 \in 1..2
        BY SMT
      <3> QED BY <2>3, <3>1
    <2>5. \A i \in 2..Len(w) : w[i].self = w[i - 1].peer
      BY SMT, <2>3
    <2>6. \A i \in DOMAIN w : i = 1
      BY SMT, <2>3
    <2>7. w \in Walks(f, a, b, 2)
      BY <2>1, <2>3, <2>4, <2>5, <2>6 DEF Walks
    <2> QED BY <2>3, <2>7
  <1> QED BY <1>1, <1>2

\* A walk of two steps turns at a node that is adjacent to both ends, and at every
\* such node a walk turns.
TurnsAt(W, k) == \E w \in W : Len(w) = 2 /\ w[1].peer = k

LEMMA TwoSteps ==
  ASSUME NEW f, NEW a, NEW b, a # b, NEW k
  PROVE  /\ TurnsAt(Walks(f, a, b, 2), k) => adjacent(f, a, k) /\ adjacent(f, k, b)
         /\ a # k /\ k # b /\ adjacent(f, a, k) /\ adjacent(f, k, b) =>
              TurnsAt(Walks(f, a, b, 2), k)
PROOF
  <1>1. ASSUME NEW w \in Walks(f, a, b, 2), Len(w) = 2, w[1].peer = k
        PROVE  adjacent(f, a, k) /\ adjacent(f, k, b)
    <2>1. /\ w \in [1..2 -> build(f)]
          /\ w[1].self = a /\ w[2].peer = b /\ w[2].self = w[1].peer
      <3>1. IsTurn(f, a, b, w)
        BY <1>1, WalkShape
      <3> QED BY <3>1 DEF IsTurn
    <2>2. w[1] \in build(f) /\ w[2] \in build(f)
      BY SMT, <2>1
    <2> QED BY <1>1, <2>1, <2>2 DEF adjacent, Towards, adjacencies
  <1>2. ASSUME a # k, k # b, adjacent(f, a, k), adjacent(f, k, b)
        PROVE  \E w \in Walks(f, a, b, 2) : Len(w) = 2 /\ w[1].peer = k
    <2>1. PICK x \in build(f) : x.self = a /\ x.peer = k
      BY <1>2 DEF adjacent, Towards, adjacencies
    <2>2. PICK y \in build(f) : y.self = k /\ y.peer = b
      BY <1>2 DEF adjacent, Towards, adjacencies
    <2>3. PICK w : w = <<x, y>>
      OBVIOUS
    <2>4. w \in [1..2 -> build(f)] /\ Len(w) = 2 /\ DOMAIN w = 1..2 /\ w[1] = x /\ w[2] = y
      BY SMT, <2>3
    <2>5. w \in UNION {[1..h -> build(f)] : h \in 1..2}
      <3>1. 2 \in 1..2
        BY SMT
      <3> QED BY <2>4, <3>1
    <2>6. \A i \in DOMAIN w : i = 1 \/ i = 2
      BY SMT, <2>4
    <2>7. \A i \in 2..Len(w) : w[i].self = w[i - 1].peer
      <3>1. \A i \in 2..Len(w) : i = 2 /\ i - 1 = 1
        BY SMT, <2>4
      <3> QED BY <2>1, <2>2, <2>4, <3>1
    <2>8. w \in Walks(f, a, b, 2)
      BY <1>2, <2>1, <2>2, <2>4, <2>5, <2>6, <2>7 DEF Walks
    <2> QED BY <2>1, <2>4, <2>8
  <1> QED BY <1>1, <1>2 DEF TurnsAt

\* Some things are ordered by adjacency_less.
InOrder(S) ==
    /\ \A x \in S : ~adjacency_less(x, x)
    /\ \A x, y, z \in S : adjacency_less(x, y) /\ adjacency_less(y, z) => adjacency_less(x, z)

\* The adjacencies of a fabric are ordered.
LEMMA AdjacenciesInOrder ==
  ASSUME NEW f, WellFormed(f)
  PROVE  InOrder(build(f))
PROOF
  <1>1. ASSUME NEW x \in build(f)
        PROVE  /\ x.link \in Int /\ Index(x.peer) \in Int
               /\ Tier(x.peer) \in {"leaf", "spine"}
               /\ x.peer = <<Tier(x.peer), Index(x.peer)>>
    <2>1. IsEnd(f, x)
      BY BuiltEnds
    <2>2. LinkShape(f.links[x.link]) /\ x.link \in Nat
      BY <2>1 DEF IsEnd, EnabledLinks, WellFormed, FabricShape
    <2>3. x.peer \in NodeKeys
      BY <2>1, <2>2 DEF IsEnd, LinkShape
    <2> QED BY SMT, <2>2, <2>3 DEF NodeKeys, Tier, Index
  <1>2. ASSUME NEW x \in build(f) PROVE ~adjacency_less(x, x)
    BY SMT, <1>1 DEF adjacency_less
  <1>3. ASSUME NEW x \in build(f), NEW y \in build(f), NEW z \in build(f),
               adjacency_less(x, y), adjacency_less(y, z)
        PROVE  adjacency_less(x, z)
    <2>1. PICK tx, ix, lx : tx = Tier(x.peer) /\ ix = Index(x.peer) /\ lx = x.link
      OBVIOUS
    <2>2. PICK ty, iy, ly : ty = Tier(y.peer) /\ iy = Index(y.peer) /\ ly = y.link
      OBVIOUS
    <2>3. PICK tz, iz, lz : tz = Tier(z.peer) /\ iz = Index(z.peer) /\ lz = z.link
      OBVIOUS
    <2>4. /\ lx \in Int /\ ix \in Int /\ ly \in Int /\ iy \in Int /\ lz \in Int /\ iz \in Int
          /\ tx \in {"leaf", "spine"} /\ ty \in {"leaf", "spine"} /\ tz \in {"leaf", "spine"}
      BY <1>1, <2>1, <2>2, <2>3
    <2>5. /\ x.peer = y.peer <=> tx = ty /\ ix = iy
          /\ y.peer = z.peer <=> ty = tz /\ iy = iz
          /\ x.peer = z.peer <=> tx = tz /\ ix = iz
      BY <1>1, <2>1, <2>2, <2>3
    <2>6. IF x.peer # y.peer
          THEN IF tx # ty THEN tx = "leaf" /\ ty = "spine" ELSE ix < iy
          ELSE lx < ly
      BY <1>3, <2>1, <2>2 DEF adjacency_less, KeyLess
    <2>7. IF y.peer # z.peer
          THEN IF ty # tz THEN ty = "leaf" /\ tz = "spine" ELSE iy < iz
          ELSE ly < lz
      BY <1>3, <2>2, <2>3 DEF adjacency_less, KeyLess
    <2>8. IF x.peer # z.peer
          THEN IF tx # tz THEN tx = "leaf" /\ tz = "spine" ELSE ix < iz
          ELSE lx < lz
      BY SMT, <2>4, <2>5, <2>6, <2>7
    <2> QED BY <2>1, <2>3, <2>8 DEF adjacency_less, KeyLess
  <1> QED BY <1>2, <1>3 DEF InOrder

\* The order in which walks are met is irreflexive and transitive.
MeetingOrder(W) ==
    /\ \A w \in W : ~MetBefore(w, w)
    /\ \A u, v, w \in W : MetBefore(u, v) /\ MetBefore(v, w) => MetBefore(u, w)

LEMMA WalksInOrder ==
  ASSUME NEW f, WellFormed(f), NEW a, NEW b
  PROVE  MeetingOrder(Walks(f, a, b, 2))
PROOF
  <1>1. PICK S, W : S = build(f) /\ W = Walks(f, a, b, 2)
    OBVIOUS
  <1>2. InOrder(S)
    BY <1>1, AdjacenciesInOrder
  <1>3. ASSUME NEW w \in W, NEW i \in DOMAIN w PROVE w[i] \in S /\ i \in Nat
    <2>1. PICK h \in 1..2 : w \in [1..h -> S]
      BY <1>1 DEF Walks
    <2> QED BY SMT, <1>3, <2>1
  <1>4. ASSUME NEW w \in W PROVE ~MetBefore(w, w)
    BY <1>2, <1>3 DEF InOrder, MetBefore
  <1>5. ASSUME NEW u \in W, NEW v \in W, NEW w \in W, MetBefore(u, v), MetBefore(v, w)
        PROVE  MetBefore(u, w)
    <2>1. PICK i \in DOMAIN u \cap DOMAIN v :
            adjacency_less(u[i], v[i]) /\ \A j \in 1..(i - 1) : u[j] = v[j]
      BY <1>5 DEF MetBefore
    <2>2. PICK k \in DOMAIN v \cap DOMAIN w :
            adjacency_less(v[k], w[k]) /\ \A j \in 1..(k - 1) : v[j] = w[j]
      BY <1>5 DEF MetBefore
    <2>3. i \in Nat /\ k \in Nat /\ u[i] \in S /\ v[i] \in S /\ v[k] \in S /\ w[k] \in S
      BY <1>3, <2>1, <2>2
    <2>4. CASE i = k
      <3>1. adjacency_less(u[i], w[i])
        BY <1>2, <2>1, <2>2, <2>3, <2>4 DEF InOrder
      <3>2. \A j \in 1..(i - 1) : u[j] = w[j]
        BY <2>1, <2>2, <2>4
      <3> QED BY <2>1, <2>2, <2>4, <3>1, <3>2 DEF MetBefore
    <2>5. CASE i < k
      <3>1. i \in 1..(k - 1) /\ 1..(i - 1) \subseteq 1..(k - 1) /\ i \in DOMAIN w
        <4>1. PICK h \in 1..2 : w \in [1..h -> S]
          BY <1>1 DEF Walks
        <4>2. PICK g \in 1..2 : u \in [1..g -> S]
          BY <1>1 DEF Walks
        <4> QED BY SMT, <2>1, <2>2, <2>3, <2>5, <4>1, <4>2
      <3>2. v[i] = w[i] /\ \A j \in 1..(i - 1) : u[j] = w[j]
        BY <2>1, <2>2, <3>1
      <3>3. adjacency_less(u[i], w[i])
        BY <2>1, <3>2
      <3>4. i \in DOMAIN u \cap DOMAIN w
        BY <2>1, <3>1
      <3> QED BY <3>2, <3>3, <3>4 DEF MetBefore
    <2>6. CASE k < i
      <3>1. k \in 1..(i - 1) /\ 1..(k - 1) \subseteq 1..(i - 1) /\ k \in DOMAIN u
        <4>1. PICK h \in 1..2 : w \in [1..h -> S]
          BY <1>1 DEF Walks
        <4>2. PICK g \in 1..2 : u \in [1..g -> S]
          BY <1>1 DEF Walks
        <4> QED BY SMT, <2>1, <2>2, <2>3, <2>6, <4>1, <4>2
      <3>2. u[k] = v[k] /\ \A j \in 1..(k - 1) : u[j] = w[j]
        BY <2>1, <2>2, <3>1
      <3>3. adjacency_less(u[k], w[k])
        BY <2>2, <3>2
      <3>4. k \in DOMAIN u \cap DOMAIN w
        BY <2>2, <3>1
      <3> QED BY <3>2, <3>3, <3>4 DEF MetBefore
    <2> QED BY SMT, <2>3, <2>4, <2>5, <2>6
  <1> QED BY <1>1, <1>4, <1>5 DEF MeetingOrder

\* There are finitely many walks of at most two steps.
LEMMA WalksFinite ==
  ASSUME NEW f, WellFormed(f), NEW a, NEW b
  PROVE  IsFiniteSet(Walks(f, a, b, 2))
PROOF
  <1>1. PICK S, W : S = build(f) /\ W = Walks(f, a, b, 2)
    OBVIOUS
  <1>2. IsFiniteSet(S) /\ IsFiniteSet(S \X S)
    BY <1>1, BuiltFinite, FS_Product
  <1>3. PICK one, two : one = [x \in S |-> <<x>>] /\ two = [p \in S \X S |-> <<p[1], p[2]>>]
    OBVIOUS
  <1>4. ASSUME NEW w \in W, Len(w) = 1 PROVE \E x \in S : w = one[x]
    <2>1. w \in [1..1 -> S]
      BY <1>1, <1>4, WalkShape DEF IsStep
    <2>2. w[1] \in S /\ w = <<w[1]>>
      BY SMT, <2>1
    <2> QED BY <1>3, <2>2
  <1>5. ASSUME NEW w \in W, Len(w) = 2 PROVE \E p \in S \X S : w = two[p]
    <2>1. w \in [1..2 -> S]
      BY <1>1, <1>5, WalkShape DEF IsTurn
    <2>2. w[1] \in S /\ w[2] \in S /\ w = <<w[1], w[2]>>
      BY SMT, <2>1
    <2>3. w \in S \X S
      BY <2>2
    <2> QED BY <1>3, <2>2, <2>3
  <1>6. PICK A, B : A = {w \in W : Len(w) = 1} /\ B = {w \in W : Len(w) = 2}
    OBVIOUS
  <1>7. DOMAIN one = S /\ DOMAIN two = S \X S
    BY <1>3
  <1>8. IsFiniteSet(A)
    <2>1. \A w \in A : \E x \in S : w = one[x]
      BY <1>4, <1>6
    <2> QED BY <1>2, <1>7, <2>1, FiniteReach
  <1>9. IsFiniteSet(B)
    <2>1. PICK P : P = S \X S
      OBVIOUS
    <2>2. \A w \in B : \E p \in P : w = two[p]
      BY <1>5, <1>6, <2>1
    <2>3. IsFiniteSet(P) /\ DOMAIN two = P
      BY <1>2, <1>7, <2>1
    <2> QED BY <2>2, <2>3, FiniteReach
  <1>10. W = A \cup B
    <2>1. \A w \in W : Len(w) = 1 \/ Len(w) = 2
      BY <1>1, WalkShape
    <2> QED BY SMT, <1>6, <2>1
  <1> QED BY <1>1, <1>8, <1>9, <1>10, FS_Union

\* The walks that are met before one of them.
Earlier(W, w) == {v \in W : MetBefore(v, w)}

\* When fewer of the walks are among the first ones than may be, all of them are.
LEMMA NothingCut ==
  ASSUME NEW W, IsFiniteSet(W), MeetingOrder(W), NEW max \in Nat,
         NEW F, F = {w \in W : Cardinality(Earlier(W, w)) < max}, Cardinality(F) < max
  PROVE  F = W
PROOF
  <1>1. SUFFICES ASSUME F # W PROVE FALSE
    OBVIOUS
  <1>2. \A w \in W : IsFiniteSet(Earlier(W, w)) /\ Cardinality(Earlier(W, w)) \in Nat
    BY FS_Subset, FS_CardinalityType DEF Earlier
  <1>3. DEFINE Ranks == {Cardinality(Earlier(W, w)) : w \in W \ F}
  <1>4. Ranks \in SUBSET Nat /\ Ranks # {}
    BY <1>1, <1>2
  <1>5. PICK n \in Ranks : \A m \in Ranks : n <= m
    BY <1>4, LowestNumber
  <1>6. PICK w \in W \ F : n = Cardinality(Earlier(W, w))
    BY <1>5
  <1>7. Earlier(W, w) \subseteq F
    <2>1. SUFFICES ASSUME NEW v \in Earlier(W, w), v \notin F PROVE FALSE
      OBVIOUS
    <2>2. v \in W /\ MetBefore(v, w)
      BY DEF Earlier
    <2>3. Earlier(W, v) \subseteq Earlier(W, w)
      BY <2>2 DEF Earlier, MeetingOrder
    <2>4. v \notin Earlier(W, v)
      BY <2>2 DEF Earlier, MeetingOrder
    <2>5. PICK m : m = Cardinality(Earlier(W, v))
      OBVIOUS
    <2>6. m <= n /\ m # n
      BY <1>2, <1>6, <2>1, <2>3, <2>4, <2>5, FS_Subset
    <2>7. m \in Ranks
      BY <2>1, <2>2, <2>5
    <2>8. n <= m
      BY <1>5, <2>7
    <2>9. m \in Nat /\ n \in Nat
      BY <1>4, <1>5, <2>7
    <2> QED BY SMT, <2>6, <2>8, <2>9
  <1>8. IsFiniteSet(F) /\ Cardinality(F) \in Nat
    BY FS_Subset, FS_CardinalityType
  <1>9. n <= Cardinality(F)
    BY <1>6, <1>7, <1>8, FS_Subset
  <1>10. ~(n < max)
    BY <1>6
  <1>11. n \in Nat
    BY <1>4, <1>5
  <1> HIDE DEF Ranks
  <1>12. PICK k \in Nat : k = Cardinality(F)
    BY <1>8
  <1> QED BY SMT, <1>9, <1>10, <1>11, <1>12

\* What is returned are walks, and all of them when the bound is not reached.
LEMMA WhatIsFound ==
  ASSUME NEW f, WellFormed(f), NEW a, NEW b, NEW max \in Nat
  PROVE  LET found == enumerate_paths(f, a, b, 2, max)
             walks == Walks(f, a, b, 2)
         IN  found \subseteq walks /\ (Cardinality(found) < max => found = walks)
PROOF
  <1>1. PICK W, F : W = Walks(f, a, b, 2) /\ F = enumerate_paths(f, a, b, 2, max)
    OBVIOUS
  <1>2. F = {w \in W : Cardinality(Earlier(W, w)) < max}
    BY <1>1 DEF enumerate_paths, Earlier
  <1>3. IsFiniteSet(W) /\ MeetingOrder(W)
    BY <1>1, WalksFinite, WalksInOrder
  <1>4. Cardinality(F) < max => F = W
    BY <1>2, <1>3, NothingCut
  <1> QED BY <1>1, <1>2, <1>4

\* A spine is common to two leaves exactly when it is adjacent to both.
LEMMA CommonIs ==
  ASSUME NEW f, WellFormed(f), NEW m, NEW n, m # n, NEW s
  PROVE  s \in common_spines(f, m, n) <=>
           /\ Spine(s) \in nodes(f)
           /\ adjacent(f, Leaf(m), Spine(s)) /\ adjacent(f, Spine(s), Leaf(n))
PROOF
  <1>1. ASSUME s \in common_spines(f, m, n)
        PROVE  /\ Spine(s) \in nodes(f)
               /\ adjacent(f, Leaf(m), Spine(s)) /\ adjacent(f, Spine(s), Leaf(n))
    <2>1. PICK x \in uplinks(f, m), y \in uplinks(f, n) :
            s = Index(x.peer) /\ s = Index(y.peer)
      BY <1>1 DEF common_spines
    <2>2. IsUplink(f, m, x) /\ IsUplink(f, n, y)
      BY UplinkFacts
    <2>3. x.peer = Spine(s) /\ y.peer = Spine(s) /\ s \in DOMAIN f.spines
      BY <2>1, <2>2 DEF IsUplink
    <2>4. adjacent(f, Leaf(m), Spine(s)) /\ adjacent(f, Leaf(n), Spine(s))
      BY <2>2, <2>3 DEF IsUplink, adjacent, Towards, adjacencies
    <2> QED BY <2>3, <2>4, AdjacentBack DEF nodes
  <1>2. ASSUME adjacent(f, Leaf(m), Spine(s)), adjacent(f, Spine(s), Leaf(n))
        PROVE  s \in common_spines(f, m, n)
    <2>1. adjacent(f, Leaf(n), Spine(s))
      BY <1>2, AdjacentBack
    <2>2. Tier(Leaf(m)) # Tier(Spine(s)) /\ Tier(Leaf(n)) # Tier(Spine(s))
      BY DEF Tier, Leaf, Spine
    <2>3. PICK x \in uplinks(f, m) : x.peer = Spine(s)
      BY SMT, <1>2, <2>2, AdjacentBy DEF uplinks
    <2>4. PICK y \in uplinks(f, n) : y.peer = Spine(s)
      BY SMT, <2>1, <2>2, AdjacentBy DEF uplinks
    <2>5. Index(Spine(s)) = s
      BY DEF Index, Spine
    <2> QED BY <2>3, <2>4, <2>5 DEF common_spines
  <1> QED BY <1>1, <1>2

\* Two leaves have finitely many spines in common.
LEMMA CommonFinite ==
  ASSUME NEW f, WellFormed(f), NEW m, NEW n
  PROVE  /\ IsFiniteSet(common_spines(f, m, n))
         /\ Cardinality(common_spines(f, m, n)) \in Nat
         /\ Cardinality(common_spines(f, m, n)) = 0 <=> common_spines(f, m, n) = {}
PROOF
  <1>1. PICK C : C = common_spines(f, m, n)
    OBVIOUS
  <1>2. PICK S : S = uplinks(f, m)
    OBVIOUS
  <1>3. S \subseteq build(f)
    BY <1>2 DEF uplinks, OfClass, adjacencies
  <1>4. IsFiniteSet(S)
    BY <1>3, BuiltFinite, FS_Subset
  <1>5. PICK g : g = [x \in S |-> Index(x.peer)]
    OBVIOUS
  <1>6. \A s \in C : \E x \in S : s = g[x]
    BY <1>1, <1>2, <1>5 DEF common_spines
  <1>7. DOMAIN g = S
    BY <1>5
  <1>8. IsFiniteSet(C)
    BY <1>4, <1>6, <1>7, FiniteReach
  <1> QED BY <1>1, <1>8, FS_EmptySet, FS_CardinalityType

\* The nodes of a tier in the middle of some walks.
Middle(f, W, tier) ==
    {k \in nodes(f) : Tier(k) = tier /\ TurnsAt(W, k)}

\* The spines in the middle of the walks between two leaves are their common ones.
LEMMA MiddleCount ==
  ASSUME NEW f, WellFormed(f), NEW m, NEW n, m # n
  PROVE  LET M == Middle(f, Walks(f, Leaf(m), Leaf(n), 2), "spine")
         IN  IsFiniteSet(M) /\ Cardinality(M) = Cardinality(common_spines(f, m, n))
PROOF
  <1>1. PICK a, b : a = Leaf(m) /\ b = Leaf(n)
    OBVIOUS
  <1>2. PICK C : C = common_spines(f, m, n)
    OBVIOUS
  <1>3. PICK M : M = Middle(f, Walks(f, a, b, 2), "spine")
    OBVIOUS
  <1>4. PICK g : g = [s \in C |-> Spine(s)]
    OBVIOUS
  <1>5. a # b /\ \A s : Spine(s) # a /\ Spine(s) # b /\ Tier(Spine(s)) = "spine"
    BY <1>1 DEF Leaf, Spine, Tier
  <1>6. \A s \in C : Spine(s) \in M
    <2>1. SUFFICES ASSUME NEW s \in C PROVE Spine(s) \in M
      OBVIOUS
    <2>2. Spine(s) \in nodes(f) /\ adjacent(f, a, Spine(s)) /\ adjacent(f, Spine(s), b)
      BY <1>1, <1>2, CommonIs
    <2>3. TurnsAt(Walks(f, a, b, 2), Spine(s))
      <3>1. PICK k : k = Spine(s)
        OBVIOUS
      <3>2. a # b /\ a # k /\ k # b /\ adjacent(f, a, k) /\ adjacent(f, k, b)
        BY <1>5, <2>2, <3>1
      <3>3. TurnsAt(Walks(f, a, b, 2), k)
        BY <3>2, TwoSteps
      <3> QED BY <3>1, <3>3
    <2> QED BY <1>3, <1>5, <2>2, <2>3 DEF Middle
  <1>7. g \in [C -> M]
    BY <1>4, <1>6
  <1>8. \A s, t \in C : g[s] = g[t] => s = t
    BY <1>4 DEF Spine
  <1>9. \A k \in M : \E s \in C : g[s] = k
    <2>1. ASSUME NEW k \in M PROVE \E s \in C : g[s] = k
      <3>1. /\ k \in nodes(f) /\ Tier(k) = "spine"
            /\ TurnsAt(Walks(f, a, b, 2), k)
        BY <1>3 DEF Middle
      <3>2. adjacent(f, a, k) /\ adjacent(f, k, b)
        BY <1>5, <3>1, TwoSteps
      <3>3. PICK s : k = Spine(s)
        BY SMT, <3>1 DEF nodes, Tier, Leaf
      <3>4. s \in C
        BY <1>1, <1>2, <3>1, <3>2, <3>3, CommonIs
      <3> QED BY <1>4, <3>3, <3>4
    <2> QED BY <2>1
  <1>10. g \in Bijection(C, M)
    BY <1>7, <1>8, <1>9 DEF Bijection, Injection, Surjection, IsInjective
  <1>11. IsFiniteSet(C)
    BY <1>2, CommonFinite
  <1>12. IsFiniteSet(M) /\ Cardinality(M) = Cardinality(C)
    BY <1>10, <1>11, FS_Bijection DEF ExistsBijection
  <1> QED BY <1>1, <1>2, <1>3, <1>12

\* The classes of nodes that are not adjacent, by tier.
LEMMA ClassIs ==
  ASSUME NEW f, NEW a \in nodes(f), NEW b \in nodes(f), a # b
  PROVE  LET cls == structural_class(f, a, b)
         IN  /\ cls \in {"DirectLeafSpine", "DirectPeer"} <=> adjacent(f, a, b)
             /\ ~adjacent(f, a, b) =>
                  \/ /\ Tier(a) = "leaf" /\ Tier(b) = "leaf" /\ cls = LeafPairClass(f, a, b)
                  \/ /\ Tier(a) = "spine" /\ Tier(b) = "spine" /\ cls = SpinePairClass(f, a, b)
                  \/ /\ Tier(a) = "leaf" /\ Tier(b) = "spine" /\ cls = LeafSpineClass(f, a, b)
                  \/ /\ Tier(a) = "spine" /\ Tier(b) = "leaf" /\ cls = LeafSpineClass(f, b, a)
PROOF
  <1>1. PICK cls : cls = structural_class(f, a, b)
    OBVIOUS
  <1>2. /\ Tier(a) = "leaf" \/ Tier(a) = "spine"
        /\ Tier(b) = "leaf" \/ Tier(b) = "spine"
    BY SMT DEF nodes, Tier, Leaf, Spine
  <1>3. CASE adjacent(f, a, b)
    <2>1. cls \in {"DirectLeafSpine", "DirectPeer"}
      BY <1>1, <1>3 DEF structural_class
    <2> QED BY <1>1, <1>3, <2>1
  <1>4. CASE ~adjacent(f, a, b)
    <2>1. \/ /\ Tier(a) = "leaf" /\ Tier(b) = "leaf" /\ cls = LeafPairClass(f, a, b)
          \/ /\ Tier(a) = "spine" /\ Tier(b) = "spine" /\ cls = SpinePairClass(f, a, b)
          \/ /\ Tier(a) = "leaf" /\ Tier(b) = "spine" /\ cls = LeafSpineClass(f, a, b)
          \/ /\ Tier(a) = "spine" /\ Tier(b) = "leaf" /\ cls = LeafSpineClass(f, b, a)
      BY <1>1, <1>2, <1>4 DEF structural_class
    <2>2. cls \notin {"DirectLeafSpine", "DirectPeer"}
      BY <2>1 DEF LeafPairClass, SpinePairClass, LeafSpineClass
    <2> QED BY <1>1, <1>4, <2>1, <2>2
  <1> QED BY <1>3, <1>4

\* The class of two leaves that are not adjacent counts the spines between them.
Counts(cls, M) ==
    /\ IsFiniteSet(M) /\ Cardinality(M) \in Nat
    /\ cls \in {"LeafLeafSingleSpine", "LeafLeafMultiSpine"} <=> M # {}
    /\ cls = "LeafLeafMultiSpine" <=> Cardinality(M) >= 2
    /\ cls = "LeafLeafSingleSpine" => Cardinality(M) = 1

LEMMA LeafClassCounts ==
  ASSUME NEW f, WellFormed(f), NEW a \in nodes(f), NEW b \in nodes(f), a # b,
         Tier(a) = "leaf", Tier(b) = "leaf"
  PROVE  LET cls == LeafPairClass(f, a, b)
             M == Middle(f, Walks(f, a, b, 2), "spine")
         IN  /\ Counts(cls, M)
             /\ cls = "Unreachable" => ~PeerBridge(f, a, b)
             /\ cls = "LeafSpineViaPeer" => PeerBridge(f, a, b) \/ PeerBridge(f, b, a)
             /\ cls # "SpineSpineViaLeaf"
PROOF
  <1>1. PICK m, n : a = Leaf(m) /\ b = Leaf(n)
    BY SMT DEF nodes, Tier, Spine
  <1>2. m # n /\ Index(a) = m /\ Index(b) = n
    BY <1>1 DEF Leaf, Index
  <1>3. PICK M : M = Middle(f, Walks(f, a, b, 2), "spine")
    OBVIOUS
  <1>4. PICK k : k = Cardinality(common_spines(f, m, n))
    OBVIOUS
  <1>5. IsFiniteSet(M) /\ Cardinality(M) = k
    BY <1>1, <1>2, <1>3, <1>4, MiddleCount
  <1>6. k \in Nat
    BY <1>4, CommonFinite
  <1>7. k = 0 <=> M = {}
    BY <1>5, FS_EmptySet
  <1>8. PICK cls : cls = LeafPairClass(f, a, b)
    OBVIOUS
  <1>9. /\ k >= 2 => cls = "LeafLeafMultiSpine"
        /\ k = 1 => cls = "LeafLeafSingleSpine"
        /\ k = 0 => cls \in {"LeafSpineViaPeer", "Unreachable"}
        /\ k = 0 /\ cls = "Unreachable" => ~PeerBridge(f, a, b)
        /\ k = 0 /\ cls = "LeafSpineViaPeer" => PeerBridge(f, a, b) \/ PeerBridge(f, b, a)
    BY SMT, <1>2, <1>4, <1>6, <1>8 DEF LeafPairClass
  <1>10. \/ k >= 2 /\ k # 0 /\ k # 1
         \/ k = 1 /\ k # 0 /\ ~(k >= 2)
         \/ k = 0 /\ ~(k >= 2)
    BY SMT, <1>6
  <1>11. Counts(cls, M)
    BY <1>5, <1>6, <1>7, <1>9, <1>10 DEF Counts
  <1> QED BY <1>3, <1>8, <1>9, <1>10, <1>11

\* A walk over a leaf is one over a peer of a leaf, or between two spines.
LEMMA LeafInTheMiddle ==
  ASSUME NEW f, WellFormed(f), NEW a \in nodes(f), NEW b \in nodes(f), a # b,
         NEW k \in Middle(f, Walks(f, a, b, 2), "leaf")
  PROVE  /\ Tier(a) = "leaf" => PeerBridge(f, a, b)
         /\ Tier(b) = "leaf" => PeerBridge(f, b, a)
         /\ Tier(a) = "spine" => \E x \in downlinks(f, Index(a)) : adjacent(f, x.peer, b)
PROOF
  <1>1. Tier(k) = "leaf" /\ TurnsAt(Walks(f, a, b, 2), k)
    BY DEF Middle
  <1>2. adjacent(f, a, k) /\ adjacent(f, k, b)
    BY <1>1, TwoSteps
  <1>3. adjacent(f, k, a) /\ adjacent(f, b, k)
    BY <1>2, AdjacentBack
  <1>4. ASSUME Tier(a) = "leaf" PROVE PeerBridge(f, a, b)
    <2>1. PICK x \in peer_links(f, a) : x.peer = k
      BY SMT, <1>1, <1>2, <1>4, AdjacentBy DEF peer_links
    <2> QED BY <1>2, <2>1 DEF PeerBridge
  <1>5. ASSUME Tier(b) = "leaf" PROVE PeerBridge(f, b, a)
    <2>1. PICK x \in peer_links(f, b) : x.peer = k
      BY SMT, <1>1, <1>3, <1>5, AdjacentBy DEF peer_links
    <2> QED BY <1>3, <2>1 DEF PeerBridge
  <1>6. ASSUME Tier(a) = "spine" PROVE \E x \in downlinks(f, Index(a)) : adjacent(f, x.peer, b)
    <2>1. a = Spine(Index(a))
      BY SMT, <1>6 DEF nodes, Tier, Index, Leaf, Spine
    <2>2. PICK x \in downlinks(f, Index(a)) : x.peer = k
      BY SMT, <1>1, <1>2, <1>6, <2>1, AdjacentBy DEF downlinks
    <2> QED BY <1>2, <2>2
  <1> QED BY <1>4, <1>5, <1>6

\* A bridge over a peer, or over a leaf between two spines, has a leaf in it.
LEMMA BridgeHasLeaf ==
  ASSUME NEW f, WellFormed(f), NEW a \in nodes(f), NEW b
  PROVE  LET between == \E k \in nodes(f) :
                          Tier(k) = "leaf" /\ adjacent(f, a, k) /\ adjacent(f, k, b)
         IN  /\ Tier(a) = "leaf" /\ PeerBridge(f, a, b) => between
             /\ Tier(a) = "spine" /\ (\E x \in downlinks(f, Index(a)) : adjacent(f, x.peer, b))
                  => between
PROOF
  <1>1. ASSUME Tier(a) = "leaf", PeerBridge(f, a, b)
        PROVE  \E k \in nodes(f) : Tier(k) = "leaf" /\ adjacent(f, a, k) /\ adjacent(f, k, b)
    <2>1. PICK x \in build(f) : x.self = a /\ x.cls = "peer" /\ adjacent(f, x.peer, b)
      BY <1>1 DEF PeerBridge, peer_links, OfClass, adjacencies
    <2>2. x.peer \in nodes(f) /\ Tier(x.peer) = "leaf"
      BY <1>1, <2>1, AdjacencyKind
    <2> QED BY <2>1, <2>2 DEF adjacent, Towards, adjacencies
  <1>2. ASSUME Tier(a) = "spine", NEW y \in downlinks(f, Index(a)), adjacent(f, y.peer, b)
        PROVE  \E k \in nodes(f) : Tier(k) = "leaf" /\ adjacent(f, a, k) /\ adjacent(f, k, b)
    <2>1. a = Spine(Index(a))
      BY SMT, <1>2 DEF nodes, Tier, Index, Leaf, Spine
    <2>2. y \in build(f) /\ y.self = a /\ y.cls = "leafspine"
      BY <2>1 DEF downlinks, OfClass, adjacencies
    <2>3. y.peer \in nodes(f) /\ Tier(y.peer) # "spine"
      BY <1>2, <2>2, AdjacencyKind
    <2>4. Tier(y.peer) = "leaf"
      BY SMT, <2>3 DEF nodes, Tier, Leaf, Spine
    <2> QED BY <1>2, <2>2, <2>3, <2>4 DEF adjacent, Towards, adjacencies
  <1> QED BY <1>1, <1>2

\* The class of nodes that are not adjacent, but not both leaves, tells whether a
\* leaf is between them; and so does that of two leaves without a common spine.
LEMMA LeafBetween ==
  ASSUME NEW f, WellFormed(f), NEW a \in nodes(f), NEW b \in nodes(f), a # b,
         ~adjacent(f, a, b)
  PROVE  LET cls == structural_class(f, a, b)
             L == Middle(f, Walks(f, a, b, 2), "leaf")
         IN  /\ L # {} => cls # "Unreachable"
             /\ cls \in {"LeafSpineViaPeer", "SpineSpineViaLeaf"} => L # {}
             /\ ~(Tier(a) = "leaf" /\ Tier(b) = "leaf") =>
                  cls \in {"LeafSpineViaPeer", "SpineSpineViaLeaf", "Unreachable"}
PROOF
  <1>1. PICK cls, L : cls = structural_class(f, a, b) /\ L = Middle(f, Walks(f, a, b, 2), "leaf")
    OBVIOUS
  <1>2. ASSUME NEW k \in nodes(f), Tier(k) = "leaf", adjacent(f, a, k), adjacent(f, k, b)
        PROVE  L # {}
    <2>1. TurnsAt(Walks(f, a, b, 2), k)
      BY <1>2, TwoSteps
    <2> QED BY <1>1, <1>2, <2>1 DEF Middle
  <1>3. ASSUME Tier(a) = "leaf", PeerBridge(f, a, b) PROVE L # {}
    BY <1>2, <1>3, BridgeHasLeaf
  <1>4. ASSUME Tier(b) = "leaf", PeerBridge(f, b, a) PROVE L # {}
    <2>1. PICK k \in nodes(f) : Tier(k) = "leaf" /\ adjacent(f, b, k) /\ adjacent(f, k, a)
      BY <1>4, BridgeHasLeaf
    <2> QED BY <1>2, <2>1, AdjacentBack
  <1>5. CASE Tier(a) = "leaf" /\ Tier(b) = "leaf"
    <2>1. cls = LeafPairClass(f, a, b)
      BY <1>1, <1>5, ClassIs
    <2>2. L # {} => PeerBridge(f, a, b)
      BY <1>1, <1>5, LeafInTheMiddle
    <2> QED BY <1>1, <1>3, <1>4, <1>5, <2>1, <2>2, LeafClassCounts
  <1>6. CASE ~(Tier(a) = "leaf" /\ Tier(b) = "leaf")
    <2>1. \/ /\ Tier(a) = "spine" /\ cls = SpinePairClass(f, a, b)
          \/ /\ Tier(a) = "leaf" /\ cls = LeafSpineClass(f, a, b)
          \/ /\ Tier(b) = "leaf" /\ cls = LeafSpineClass(f, b, a)
      BY <1>1, <1>6, ClassIs
    <2>2. cls \in {"LeafSpineViaPeer", "SpineSpineViaLeaf", "Unreachable"}
      BY <2>1 DEF SpinePairClass, LeafSpineClass
    <2>3. L # {} => cls # "Unreachable"
      BY <1>1, <2>1, LeafInTheMiddle DEF SpinePairClass, LeafSpineClass
    <2>4. CASE Tier(a) = "spine" /\ cls = SpinePairClass(f, a, b)
      <3>1. cls # "Unreachable" => \E x \in downlinks(f, Index(a)) : adjacent(f, x.peer, b)
        BY <2>4 DEF SpinePairClass
      <3>2. cls # "Unreachable" => L # {}
        BY <1>2, <2>4, <3>1, BridgeHasLeaf
      <3> QED BY <1>1, <2>2, <2>3, <3>2
    <2>5. CASE Tier(a) = "leaf" /\ cls = LeafSpineClass(f, a, b)
      <3>1. cls # "Unreachable" => L # {}
        BY <1>3, <2>5 DEF LeafSpineClass
      <3> QED BY <1>1, <2>2, <2>3, <3>1
    <2>6. CASE Tier(b) = "leaf" /\ cls = LeafSpineClass(f, b, a)
      <3>1. cls # "Unreachable" => L # {}
        BY <1>4, <2>6 DEF LeafSpineClass
      <3> QED BY <1>1, <2>2, <2>3, <3>1
    <2> QED BY <2>1, <2>4, <2>5, <2>6
  <1> QED BY <1>5, <1>6

\* Two adjacent leaves are peers.
LEMMA AdjacentLeaves ==
  ASSUME NEW f, WellFormed(f), NEW a, NEW b, a # b,
         Tier(a) = "leaf", Tier(b) = "leaf", adjacent(f, a, b)
  PROVE  structural_class(f, a, b) = "DirectPeer"
PROOF
  <1>1. PICK S : S = Towards(adjacencies(f, a), b)
    OBVIOUS
  <1>2. S \in SUBSET build(f) /\ S # {}
    BY <1>1 DEF Towards, adjacencies, adjacent
  <1>3. Lowest(S) \in S
    BY <1>2, Extremes
  <1>4. Lowest(S) \in build(f) /\ Lowest(S).self = a /\ Lowest(S).peer = b
    BY <1>1, <1>3 DEF Towards, adjacencies
  <1>5. Lowest(S).cls = "peer"
    BY <1>4, AdjacencyKind
  <1> QED BY <1>1, <1>5 DEF structural_class, adjacency_between

\* The class of two nodes and the paths found between them agree: what is found
\* under any bound bears the class out, and below the bound it justifies it.
THEOREM ClassifiesPathsHolds == Spec => []ClassifiesPaths
PROOF
  <1>1. ASSUME Inv PROVE ClassifiesPaths
    <2>1. SUFFICES ASSUME NEW a \in nodes(fabric), NEW b \in nodes(fabric),
                          NEW max \in 1..PathLimit, a # b
                   PROVE  LET found == enumerate_paths(fabric, a, b, 2, max)
                              direct == \E w \in found : Len(w) = 1
                              leaves == Tier(a) = "leaf" /\ Tier(b) = "leaf"
                              cls == structural_class(fabric, a, b)
                              M == Middle(fabric, found, "spine")
                              L == Middle(fabric, found, "leaf")
                          IN  /\ direct => cls \in {"DirectLeafSpine", "DirectPeer"}
                              /\ L # {} => cls # "Unreachable"
                              /\ leaves /\ Cardinality(M) >= 2 =>
                                   cls \in {"DirectPeer", "LeafLeafMultiSpine"}
                              /\ Cardinality(found) < max =>
                                   /\ cls \in {"DirectLeafSpine", "DirectPeer"} => direct
                                   /\ cls \in {"LeafLeafSingleSpine", "LeafLeafMultiSpine"} <=>
                                        leaves /\ ~direct /\ M # {}
                                   /\ cls = "LeafLeafMultiSpine" => Cardinality(M) >= 2
                                   /\ cls = "LeafLeafSingleSpine" => Cardinality(M) = 1
                                   /\ cls \in {"LeafSpineViaPeer", "SpineSpineViaLeaf"} => L # {}
      BY DEF ClassifiesPaths, Middle, TurnsAt
    <2>2. WellFormed(fabric)
      BY <1>1 DEF Inv
    <2>3. PICK cls, W, F : /\ cls = structural_class(fabric, a, b)
                           /\ W = Walks(fabric, a, b, 2)
                           /\ F = enumerate_paths(fabric, a, b, 2, max)
      OBVIOUS
    <2>4. PICK M, N, L, K : /\ M = Middle(fabric, F, "spine") /\ N = Middle(fabric, W, "spine")
                            /\ L = Middle(fabric, F, "leaf") /\ K = Middle(fabric, W, "leaf")
      OBVIOUS
    <2>5. max \in Nat
      BY SMT, EngineAssumption
    <2>6. F \subseteq W /\ (Cardinality(F) < max => F = W)
      BY <2>2, <2>3, <2>5, WhatIsFound
    <2>7. M \subseteq N /\ L \subseteq K /\ (F = W => M = N /\ L = K)
      BY <2>4, <2>6 DEF Middle, TurnsAt
    <2>8. cls \in {"DirectLeafSpine", "DirectPeer"} <=> adjacent(fabric, a, b)
      BY <2>1, <2>3, ClassIs
    <2>9. adjacent(fabric, a, b) <=> \E w \in W : Len(w) = 1
      BY <2>1, <2>3, OneStep
    <2>10. ~adjacent(fabric, a, b) =>
             /\ K # {} => cls # "Unreachable"
             /\ cls \in {"LeafSpineViaPeer", "SpineSpineViaLeaf"} => K # {}
             /\ ~(Tier(a) = "leaf" /\ Tier(b) = "leaf") =>
                  cls \in {"LeafSpineViaPeer", "SpineSpineViaLeaf", "Unreachable"}
      BY <2>1, <2>2, <2>3, <2>4, LeafBetween
    <2>11. ASSUME Tier(a) = "leaf", Tier(b) = "leaf", ~adjacent(fabric, a, b)
           PROVE  /\ cls \in {"LeafLeafSingleSpine", "LeafLeafMultiSpine"} <=> N # {}
                  /\ cls = "LeafLeafMultiSpine" <=> Cardinality(N) >= 2
                  /\ cls = "LeafLeafSingleSpine" => Cardinality(N) = 1
      <3>1. cls = LeafPairClass(fabric, a, b)
        BY <2>1, <2>3, <2>11, ClassIs
      <3>2. Counts(cls, N)
        BY <2>1, <2>2, <2>3, <2>4, <2>11, <3>1, LeafClassCounts
      <3> QED BY <3>2 DEF Counts
    <2>12. ASSUME Tier(a) = "leaf", Tier(b) = "leaf", Cardinality(M) >= 2
           PROVE  cls \in {"DirectPeer", "LeafLeafMultiSpine"}
      <3>1. CASE adjacent(fabric, a, b)
        BY <2>1, <2>2, <2>3, <2>12, <3>1, AdjacentLeaves
      <3>2. CASE ~adjacent(fabric, a, b)
        <4>1. IsFiniteSet(N) /\ Cardinality(N) \in Nat
          BY <2>1, <2>2, <2>3, <2>4, <2>12, LeafClassCounts DEF Counts
        <4>2. IsFiniteSet(M) /\ Cardinality(M) \in Nat /\ Cardinality(M) <= Cardinality(N)
          BY <2>7, <4>1, FS_Subset, FS_CardinalityType
        <4>3. Cardinality(N) >= 2
          BY SMT, <2>12, <4>1, <4>2
        <4> QED BY <2>11, <2>12, <3>2, <4>3
      <3> QED BY <3>1, <3>2
    <2>13. ASSUME Cardinality(F) < max
           PROVE  /\ cls \in {"DirectLeafSpine", "DirectPeer"} => \E w \in F : Len(w) = 1
                  /\ cls \in {"LeafLeafSingleSpine", "LeafLeafMultiSpine"} <=>
                       /\ Tier(a) = "leaf" /\ Tier(b) = "leaf"
                       /\ ~(\E w \in F : Len(w) = 1) /\ M # {}
                  /\ cls = "LeafLeafMultiSpine" => Cardinality(M) >= 2
                  /\ cls = "LeafLeafSingleSpine" => Cardinality(M) = 1
                  /\ cls \in {"LeafSpineViaPeer", "SpineSpineViaLeaf"} => L # {}
      <3>1. F = W /\ M = N /\ L = K
        BY <2>6, <2>7, <2>13
      <3>2. CASE adjacent(fabric, a, b)
        BY <2>8, <2>9, <3>1, <3>2
      <3>3. CASE ~adjacent(fabric, a, b) /\ Tier(a) = "leaf" /\ Tier(b) = "leaf"
        BY <2>8, <2>9, <2>10, <2>11, <3>1, <3>3
      <3>4. CASE ~adjacent(fabric, a, b) /\ ~(Tier(a) = "leaf" /\ Tier(b) = "leaf")
        BY <2>8, <2>9, <2>10, <3>1, <3>4
      <3> QED BY <3>2, <3>3, <3>4
    <2>14. L # {} => cls # "Unreachable"
      BY <2>7, <2>8, <2>10
    <2>15. (\E w \in F : Len(w) = 1) => cls \in {"DirectLeafSpine", "DirectPeer"}
      BY <2>6, <2>8, <2>9
    <2> QED BY <2>3, <2>4, <2>12, <2>13, <2>14, <2>15
  <1> QED BY <1>1, Invariance, PTL
=============================================================================
