---------------------------- MODULE Eligibility ----------------------------
(***************************************************************************)
(* The eligibility engine: which spines may carry traffic between two      *)
(* leaves, decided from configuration and from observations of links.      *)
(*                                                                         *)
(* The engine reads one immutable index.  A query names the constraints    *)
(*                                                                         *)
(*   [diversity, minSpines, minCapacity, maxOver, peers, evidence, sets]   *)
(*                                                                         *)
(* maxOver is <<>> or a ratio <<num, den>>; sets bounds the spine sets     *)
(* reported.  Explanations and cancellation are left out.  Capacities stay *)
(* far below 64 bits: max_links * max_capacity_mbps is about 2^57.         *)
(***************************************************************************)
EXTENDS Topology, FiniteSetsExt

CONSTANT
    MaxCombinations     \* kMaxExaminedCombinations

ASSUME CombinationsAssumption == MaxCombinations \in Nat

\* The constraints a fabric's options imply.
defaults_for(options) ==
    [diversity |-> options.diversity, minSpines |-> options.minSpines,
     minCapacity |-> 0, maxOver |-> <<>>, peers |-> TRUE,
     evidence |-> options.policy = "require_fresh", sets |-> 16]

requires_evidence(f, c) == c.evidence \/ f.options.policy = "require_fresh"

-----------------------------------------------------------------------------
(* One uplink.                                                             *)

PortsEnabled(f, x) ==
    \A p \in {x.local, x.remote} : f.ports[p].admin = "enabled"

\* Mutation of InService: the ports are not looked at.
NodesInService(f, leaf, x) ==
    /\ state_is_serving(node_state(f, Leaf(leaf)))
    /\ state_is_serving(node_state(f, x.peer))

\* Configuration lets the uplink carry traffic.
InService(f, leaf, x) ==
    /\ state_is_serving(node_state(f, Leaf(leaf)))
    /\ state_is_serving(node_state(f, x.peer))
    /\ PortsEnabled(f, x)

\* What the observations of a link decide.  Conflicting ones decide nothing;
\* absent or historical ones count only when evidence is required.
ObservedVerdict(f, link, required, me) ==
    LET best == evidence_for(f, link)
        record == CHOOSE e \in best : TRUE
    IN  CASE Cardinality(best) > 1 -> "indeterminate"
          [] best = {} -> IF required THEN "indeterminate" ELSE "eligible"
          [] OTHER ->
               IF ~IsFresh(f, record, me, f.epoch)
               THEN IF required THEN "indeterminate" ELSE "eligible"
               ELSE [up |-> "eligible", down |-> "ineligible",
                     unknown |-> "indeterminate"][record.observed]

evaluate_uplink(f, leaf, x, c, me) ==
    [spine |-> Index(x.peer), domain |-> node_domain(f, x.peer), capacity |-> x.speed,
     verdict |-> IF InService(f, leaf, x)
                 THEN ObservedVerdict(f, x.link, requires_evidence(f, c), me)
                 ELSE "ineligible"]

\* The verdicts on some uplinks of a leaf, by uplink.
Evaluated(f, leaf, S, c, me) == [x \in S |-> evaluate_uplink(f, leaf, x, c, me)]

evaluate_uplinks(f, leaf, c, me) == Evaluated(f, leaf, uplinks(f, leaf), c, me)

-----------------------------------------------------------------------------
(* Spine sets.  A pool is a function whose values are entries of the kind  *)
(* evaluate_uplink returns.  Equal candidates are reported once here.      *)

Having(pool, verdict) == {x \in DOMAIN pool : pool[x].verdict = verdict}
EligiblePool(pool) == Restrict(pool, Having(pool, "eligible"))

\* The spines of a pool, each as often as it has entries.
SpinesOf(pool) ==
    [s \in {pool[x].spine : x \in DOMAIN pool} |->
       Cardinality({x \in DOMAIN pool : pool[x].spine = s})]
DomainsOf(pool) == {pool[x].domain : x \in DOMAIN pool}
Total(pool) == SumFunction([x \in DOMAIN pool |-> pool[x].capacity])
SetOf(pool) ==
    [spines |-> SpinesOf(pool), capacity |-> Total(pool), domains |-> DomainsOf(pool)]

\* Lexicographic order of the spines of two candidates, which have one spine of
\* every domain.
Lower(s, t) ==
    LET differ == {n \in DOMAIN s \cup DOMAIN t : n \notin DOMAIN s \cap DOMAIN t}
    IN  differ # {} /\ Min(differ) \in DOMAIN s

set_is_better(s, t) ==
    s.capacity > t.capacity \/ (s.capacity = t.capacity /\ Lower(s.spines, t.spines))

\* The entries of a pool that lie in one domain.
InDomain(pool, d) == {x \in DOMAIN pool : pool[x].domain = d}

\* The product of the values of a function.
ProductOf(g) == FoldFunction(LAMBDA a, b : a * b, 1, g)

Combinations(pool) == ProductOf([d \in DomainsOf(pool) |-> Cardinality(InDomain(pool, d))])

\* One entry of every domain, in every way.
Chosen(pool, pick) == SetOf([d \in DomainsOf(pool) |-> pool[pick[d]]])
Enumerated(pool) ==
    {Chosen(pool, pick) :
       pick \in {p \in [DomainsOf(pool) -> DOMAIN pool] :
                   \A d \in DomainsOf(pool) : p[d] \in InDomain(pool, d)}}

\* Mutation of Greedy: the lowest spine of each domain.
FirstOfEach(pool) ==
    LET first(d) == CHOOSE x \in InDomain(pool, d) :
                      \A y \in InDomain(pool, d) : pool[x].spine <= pool[y].spine
    IN  {Chosen(pool, [d \in DomainsOf(pool) |-> first(d)])}

\* The fastest entry of each domain, and of the fastest the lowest spine.
Greedy(pool) ==
    LET better(x, y) == \/ pool[x].capacity > pool[y].capacity
                        \/ /\ pool[x].capacity = pool[y].capacity
                           /\ pool[x].spine < pool[y].spine
        best(d) == CHOOSE x \in InDomain(pool, d) :
                     \A y \in InDomain(pool, d) : ~better(y, x)
    IN  {Chosen(pool, [d \in DomainsOf(pool) |-> best(d)])}

\* The best `limit' candidates.
Ranked(candidates, limit) ==
    {s \in candidates :
       Cardinality({t \in candidates : set_is_better(t, s)}) < limit}

\* Without diversity all eligible spines form the one set; with it, sets of one
\* spine per domain compete, all of them or, beyond a bound, a greedy one.
select_spine_sets(eligible, c) ==
    LET pool == EligiblePool(eligible)
    IN  CASE DOMAIN pool = {} -> {}
          [] DOMAIN pool # {} /\ ~c.diversity -> {SetOf(pool)}
          [] OTHER -> Ranked(IF Combinations(pool) <= MaxCombinations
                             THEN Enumerated(pool) ELSE Greedy(pool),
                             IF c.sets = 0 THEN 1 ELSE c.sets)
=============================================================================
