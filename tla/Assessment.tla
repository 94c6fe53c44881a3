----------------------------- MODULE Assessment -----------------------------
(***************************************************************************)
(* The questions an operator asks of the eligibility engine: a pair of     *)
(* leaves, a leaf and a spine, the health of the fabric.                   *)
(***************************************************************************)
EXTENDS Eligibility

Required(c) == IF c.minSpines = 0 THEN 1 ELSE c.minSpines

\* The coordinate an answer is bound to.
Coordinate(f, me) ==
    [gen |-> f.gen, epoch |-> f.epoch, controller |-> me, digest |-> TopologyDigest(f)]

\* An answer that names no spine; the code that explains it is left out.
Bare(f, a, b, me, verdict) ==
    [from |-> a, to |-> b, at |-> Coordinate(f, me), cls |-> structural_class(f, a, b),
     verdict |-> verdict, spines |-> EmptyCounts, domains |-> {}, tolerance |-> 0,
     sets |-> {}, capacity |-> 0]

-----------------------------------------------------------------------------
(* Capacity: exact ratios of access to uplink capacity.                    *)

\* Ratios are compared by cross multiplication.  No denominator is zero: a link has
\* a speed and a bound is made by Rational::make.  Products beyond 64 bits, which the
\* code answers as undecided, are left out.
compare(p, q) == p[1] * q[2] - q[1] * p[2]

\* An oversubscription bound is looked at only when there is an uplink.
Oversubscribed(access, uplink, count, c) ==
    c.maxOver # <<>> /\ count > 0 /\ compare(<<access, uplink>>, c.maxOver) > 0

-----------------------------------------------------------------------------
(* Two leaves.                                                             *)

\* A direct link between two leaves; their states are not looked at.
assess_peer(f, a, b, c, me) ==
    LET x == adjacency_between(f, a, b)
        best == evidence_for(f, x.link)
        record == CHOOSE e \in best : TRUE
        Answer(v) == [Bare(f, a, b, me, v) EXCEPT
                        !.capacity = IF v = "eligible" THEN x.speed ELSE 0]
    IN  IF ~c.peers \/ ~PortsEnabled(f, x) THEN Answer("ineligible")
        ELSE IF ~requires_evidence(f, c) THEN Answer("eligible")
        ELSE IF Cardinality(best) # 1 \/ ~IsFresh(f, record, me, f.epoch)
        THEN Answer("indeterminate")
        ELSE Answer(IF record.observed = "up" THEN "eligible" ELSE "ineligible")

\* The uplinks of n towards spines m has an uplink to.
SharedUplinks(f, m, n) == {y \in uplinks(f, n) : Towards(uplinks(f, m), y.peer) # {}}

\* Mutation of Joined: the capacity of the first leaf's uplink stands.
FirstCapacity(o, e) == IF o.verdict = "eligible" /\ e.verdict # "eligible" THEN e ELSE o

\* What the entries of the two leaves for one spine amount to.
Joined(o, e) ==
    IF o.verdict # "eligible" THEN o
    ELSE IF e.verdict # "eligible" THEN e
    ELSE [o EXCEPT !.capacity = Smaller(o.capacity, e.capacity)]

\* The shared uplinks of n, each combined with the last uplink of m to that spine.
Combined(f, m, n, c, me) ==
    [y \in SharedUplinks(f, m, n) |->
       Joined(evaluate_uplink(f, m, Highest(Towards(uplinks(f, m), y.peer)), c, me),
              evaluate_uplink(f, n, y, c, me))]

\* Mutation of ToleranceOf: one spine less than there are.
SpinesLess(pool) == IF DOMAIN pool = {} THEN 0 ELSE Cardinality(DOMAIN pool) - 1

\* How many failure domains may be lost.
ToleranceOf(pool) ==
    IF DOMAIN pool = {} THEN 0 ELSE Cardinality(DomainsOf(pool)) - 1

\* Mutation of Verdict: what is not met is ineligible.
UnmetIsIneligible(met, eligible, undecided) ==
    IF met THEN IF undecided > 0 THEN "indeterminate" ELSE "eligible"
    ELSE "ineligible"

\* The verdict on a pair, from whether the eligible spines meet the constraints
\* and how many shared uplinks are eligible and undecided.
Verdict(met, eligible, undecided) ==
    IF met THEN IF undecided > 0 THEN "indeterminate" ELSE "eligible"
    ELSE IF eligible = 0 /\ undecided > 0 THEN "indeterminate" ELSE "ineligible"

\* The eligible spines meet the constraints.
Met(f, m, n, pool, c) ==
    LET count == Cardinality(DOMAIN pool)
    IN  /\ count >= Required(c)
        /\ c.diversity => Cardinality(DomainsOf(pool)) >= Required(c)
        /\ Total(pool) >= c.minCapacity
        /\ ~Oversubscribed(f.leaves[m].access + f.leaves[n].access, Total(pool), count, c)

\* Two leaves that share a spine.
assess_shared(f, m, n, c, me) ==
    LET all == Combined(f, m, n, c, me)
        pool == EligiblePool(all)
        count == Cardinality(DOMAIN pool)
        undecided == Cardinality(Having(all, "indeterminate"))
    IN  [Bare(f, Leaf(m), Leaf(n), me, Verdict(Met(f, m, n, pool, c), count, undecided)) EXCEPT
           !.cls = CASE count >= 2 -> "LeafLeafMultiSpine"
                     [] count = 1 -> "LeafLeafSingleSpine"
                     [] OTHER -> @,
           !.spines = SpinesOf(pool),
           !.domains = DomainsOf(pool),
           !.tolerance = ToleranceOf(pool),
           !.sets = select_spine_sets(pool, c),
           !.capacity = Total(pool)]

assess_leaf_pair(f, m, n, c, me) ==
    LET cls == structural_class(f, Leaf(m), Leaf(n))
        Answer(v) == Bare(f, Leaf(m), Leaf(n), me, v)
    IN  CASE cls = "SameNode" -> Answer("ineligible")
          [] cls \in {"DirectLeafSpine", "LeafSpineViaPeer"} -> Answer("indeterminate")
          [] cls = "Unreachable" -> Answer("ineligible")
          [] cls = "DirectPeer" -> assess_peer(f, Leaf(m), Leaf(n), c, me)
          [] OTHER -> assess_shared(f, m, n, c, me)

-----------------------------------------------------------------------------
(* A leaf and a spine: the first uplink between them decides.              *)

assess_leaf_to_spine(f, m, s, c, me) ==
    LET cls == structural_class(f, Leaf(m), Spine(s))
        between == Towards(uplinks(f, m), Spine(s))
        pool == Evaluated(f, m, {Lowest(between)}, c, me)
        entry == pool[Lowest(between)]
        Answer(v) == Bare(f, Leaf(m), Spine(s), me, v)
    IN  CASE cls = "Unreachable" \/ (cls = "DirectLeafSpine" /\ between = {}) ->
               Answer("ineligible")
          [] cls = "DirectLeafSpine" /\ between # {} ->
               [Answer(entry.verdict) EXCEPT
                  !.spines = SpinesOf(pool), !.domains = DomainsOf(pool),
                  !.sets = select_spine_sets(pool, c),
                  !.capacity = IF entry.verdict = "eligible" THEN entry.capacity ELSE 0]
          [] OTHER -> Answer("indeterminate")

\* assess_paths: a question about two spines has no answer, and one about a node
\* the fabric does not have ends in an error, which like an ineligible answer
\* gives no authority.
assess_paths(f, a, b, c, me) ==
    IF ~HasNode(f, a) \/ ~HasNode(f, b) THEN Bare(f, a, b, me, "ineligible")
    ELSE CASE Tier(a) = "leaf" /\ Tier(b) = "leaf" ->
                assess_leaf_pair(f, Index(a), Index(b), c, me)
           [] Tier(a) = "leaf" /\ Tier(b) = "spine" ->
                assess_leaf_to_spine(f, Index(a), Index(b), c, me)
           [] Tier(a) = "spine" /\ Tier(b) = "leaf" ->
                assess_leaf_to_spine(f, Index(b), Index(a), c, me)
           [] OTHER -> Bare(f, a, b, me, "indeterminate")

-----------------------------------------------------------------------------
(* Health.                                                                 *)

\* Mutation of LeafHealth: the required number is not enough.
MoreThanRequired(f, m, c, me) ==
    LET all == evaluate_uplinks(f, m, c, me)
        Count(v) == Cardinality(Having(all, v))
    IN  IF state_is_serving(node_state(f, Leaf(m))) /\ Count("eligible") > Required(c)
        THEN "serving" ELSE "isolated"

\* What a leaf counts as.
LeafHealth(f, m, c, me) ==
    LET all == evaluate_uplinks(f, m, c, me)
        Count(v) == Cardinality(Having(all, v))
        serving == state_is_serving(node_state(f, Leaf(m)))
    IN  CASE serving /\ Count("eligible") >= Required(c) -> "serving"
          [] serving /\ Count("eligible") = 0 /\ Count("indeterminate") > 0
               -> "indeterminate"
          [] OTHER -> "isolated"

health(f, c, me) ==
    LET leaves == {LeafHealth(f, m, c, me) : m \in DOMAIN f.leaves}
        spines == {node_state(f, Spine(s)) : s \in DOMAIN f.spines}
    IN  CASE f.state = "unformed" \/ DOMAIN f.leaves = {} -> "unformed"
          [] DOMAIN f.leaves # {} /\ f.state \in {"retired", "draining"} -> f.state
          [] OTHER ->
               IF "isolated" \in leaves \/ spines \cap {"failed", "draining"} # {}
               THEN "degraded"
               ELSE IF "indeterminate" \in leaves THEN "indeterminate"
               ELSE "operational"
=============================================================================
