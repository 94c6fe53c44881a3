----------------------------- MODULE PathsProofs -----------------------------
(***************************************************************************)
(* What path authorities stand on, for every fabric, every command and     *)
(* every interleaving: proofs of the safety properties of Paths.           *)
(***************************************************************************)
EXTENDS Paths, AssessmentProofs

\* Leaves go to Zenon unless they cite another prover.
USE Zenon

-----------------------------------------------------------------------------
(* The invariant.                                                          *)

\* What an answer or an authority names is allowed, on every leaf it touches, by
\* the topology whose digest it carries.
Stands(x) ==
    \A k \in {x.from, x.to} : Tier(k) = "leaf" =>
      \A s \in DOMAIN x.spines : link_eligible_config_only(x.at.digest, Index(k), s)

\* The fabric is well formed, and so is the index a call has taken; answers that
\* are eligible and authorities stand on the topology they were computed for,
\* which need not be the live one.
GroundInv ==
    /\ WellFormed(fabric)
    /\ call.stage = "read" => WellFormed(call.index)
    /\ call.stage = "assessed" /\ call.answer.verdict = "eligible" => Stands(call.answer)
    /\ \A a \in issued : Stands(a)

LeaseShape(l) == DOMAIN l = {"id", "at", "expires"}

\* A lease that is held has a token, and the holder's token is current as long as
\* nothing was installed.
HolderInv ==
    /\ DOMAIN used = {"commands", "installs", "calls"} /\ used.installs \in Nat
    /\ lease # NoLease => LeaseShape(lease)
    /\ HolderKeepsAuthority

-----------------------------------------------------------------------------
(* Answers.                                                                *)

\* The reference looks only at what the topology digest covers.
LEMMA DigestDecides ==
  ASSUME NEW f, NEW m, NEW s
  PROVE  link_eligible_config_only(TopologyDigest(f), m, s)
           <=> link_eligible_config_only(f, m, s)
PROOF
  <1>1. PICK d : d = TopologyDigest(f)
    OBVIOUS
  <1>2. /\ d.leaves = f.leaves /\ d.spines = f.spines
        /\ d.ports = f.ports /\ d.links = f.links
    BY <1>1 DEF TopologyDigest, canonical_topology
  <1>3. /\ \A k : HasNode(d, k) <=> HasNode(f, k)
        /\ \A k : node_state(d, k) = node_state(f, k)
        /\ EnabledLinks(d) = EnabledLinks(f)
        /\ \A l : effective_link_speed(d, l) = effective_link_speed(f, l)
    BY <1>2 DEF HasNode, node_state, Node, EnabledLinks, effective_link_speed
  <1>4. link_eligible_config_only(d, m, s) <=> link_eligible_config_only(f, m, s)
    BY <1>2, <1>3 DEF link_eligible_config_only
  <1> QED BY <1>1, <1>4

\* An answer that names no spine stands.
LEMMA BareStands ==
  ASSUME NEW f, NEW a, NEW b, NEW i, NEW v
  PROVE  Stands(Bare(f, a, b, i, v))
PROOF
  <1>1. DOMAIN Bare(f, a, b, i, v).spines = {}
    BY DEF Bare, EmptyCounts
  <1> QED BY <1>1 DEF Stands

\* An answer about two leaves stands.
LEMMA PairStands ==
  ASSUME NEW f, WellFormed(f), NEW m, NEW n, NEW c, NEW i
  PROVE  Stands(assess_leaf_pair(f, m, n, c, i))
PROOF
  <1>1. PICK A : A = assess_leaf_pair(f, m, n, c, i)
    OBVIOUS
  <1>2. A.from = Leaf(m) /\ A.to = Leaf(n) /\ A.at = Coordinate(f, i)
    BY SMT, <1>1, PairAnswer
  <1>3. A.at.digest = TopologyDigest(f)
    BY SMT, <1>2 DEF Coordinate
  <1>4. \A s \in DOMAIN A.spines :
          link_eligible_config_only(f, m, s) /\ link_eligible_config_only(f, n, s)
    BY <1>1, FoundInReference DEF eligible_spines_for_pair
  <1>5. \A s \in DOMAIN A.spines :
          /\ link_eligible_config_only(A.at.digest, m, s)
          /\ link_eligible_config_only(A.at.digest, n, s)
    BY <1>3, <1>4, DigestDecides
  <1>6. Stands(A)
    BY SMT, <1>2, <1>5 DEF Stands, Leaf, Index
  <1> QED BY <1>1, <1>6

\* An eligible answer about a leaf and a spine stands.
LEMMA LeafSpineStands ==
  ASSUME NEW f, WellFormed(f), NEW m, NEW s, NEW c, NEW i,
         assess_leaf_to_spine(f, m, s, c, i).verdict = "eligible"
  PROVE  Stands(assess_leaf_to_spine(f, m, s, c, i))
PROOF
  <1>1. PICK A : A = assess_leaf_to_spine(f, m, s, c, i)
    OBVIOUS
  <1>2. A.from = Leaf(m) /\ A.to = Spine(s) /\ A.at = Coordinate(f, i)
    BY <1>1 DEF assess_leaf_to_spine, Bare
  <1>3. A.at.digest = TopologyDigest(f)
    BY SMT, <1>2 DEF Coordinate
  <1>4. \A t \in DOMAIN A.spines : link_eligible_config_only(f, m, t)
    BY <1>1, LeafSpineReference
  <1>5. \A t \in DOMAIN A.spines : link_eligible_config_only(A.at.digest, m, t)
    BY <1>3, <1>4, DigestDecides
  <1>6. Stands(A)
    BY SMT, <1>2, <1>5 DEF Stands, Leaf, Spine, Tier, Index
  <1> QED BY <1>1, <1>6

\* Whatever is asked of a well-formed index, an eligible answer stands.
LEMMA AnswerStands ==
  ASSUME NEW f, WellFormed(f), NEW a, NEW b, NEW c, NEW i,
         assess_paths(f, a, b, c, i).verdict = "eligible"
  PROVE  Stands(assess_paths(f, a, b, c, i))
PROOF
  <1>1. PICK A : A = assess_paths(f, a, b, c, i)
    OBVIOUS
  <1>2. CASE ~HasNode(f, a) \/ ~HasNode(f, b)
    <2>1. A = Bare(f, a, b, i, "ineligible")
      BY <1>1, <1>2 DEF assess_paths
    <2> QED BY <1>1, <2>1, BareStands
  <1>3. CASE HasNode(f, a) /\ HasNode(f, b)
    <2>1. \/ A = assess_leaf_pair(f, Index(a), Index(b), c, i)
          \/ A = assess_leaf_to_spine(f, Index(a), Index(b), c, i)
          \/ A = assess_leaf_to_spine(f, Index(b), Index(a), c, i)
          \/ A = Bare(f, a, b, i, "indeterminate")
      BY <1>1, <1>3 DEF assess_paths
    <2> QED BY <1>1, <2>1, PairStands, LeafSpineStands, BareStands
  <1> QED BY <1>2, <1>3

-----------------------------------------------------------------------------
(* Authorities stand.                                                      *)

\* Steps that leave the fabric and the authorities alone.
LEMMA GroundKept ==
  ASSUME GroundInv, UNCHANGED <<fabric, issued>>, call' \in {call, NoCall}
  PROVE  GroundInv'
PROOF
  <1>1. WellFormed(fabric') /\ \A a \in issued' : Stands(a)
    BY DEF GroundInv
  <1>2. CASE call' = call
    BY <1>1, <1>2 DEF GroundInv
  <1>3. CASE call' = NoCall
    <2>1. call'.stage = "none"
      BY <1>3 DEF NoCall
    <2> QED BY <1>1, <2>1 DEF GroundInv
  <1> QED BY <1>2, <1>3

\* What mint_path_authority issues inherits what the answer stands on.
LEMMA MintStands ==
  ASSUME NEW answer, answer.verdict = "eligible" => Stands(answer), NEW ttl,
         NEW a \in mint_path_authority(answer, ttl)
  PROVE  Stands(a)
PROOF
  <1>1. /\ answer.verdict = "eligible" /\ answer.at = lease.at
        /\ a.at = lease.at /\ a.from = answer.from /\ a.to = answer.to
        /\ a.spines = answer.spines
    BY SMT DEF mint_path_authority
  <1> QED BY <1>1 DEF Stands

\* The invariant holds at first.
LEMMA GroundInit ==
  ASSUME Init
  PROVE  GroundInv
  BY ContentsAssumption DEF Init, GroundInv, NoCall

\* Every step keeps it: one case per action.
LEMMA GroundNext ==
  ASSUME GroundInv, [Next]_vars
  PROVE  GroundInv'
PROOF
  <1>1. ASSUME NEW q \in Questions, AuthorizeRead(q) PROVE GroundInv'
    <2>1. /\ call'.stage = "read" /\ call'.index = fabric
          /\ UNCHANGED <<fabric, issued>>
      BY <1>1 DEF AuthorizeRead
    <2> QED BY <2>1 DEF GroundInv
  <1>2. CASE AuthorizeAssess
    <2>1. PICK q : q = call.question
      OBVIOUS
    <2>2. /\ call.stage = "read" /\ UNCHANGED <<fabric, issued>>
          /\ call'.stage = "assessed"
          /\ call'.answer = assess_paths(call.index, q.a, q.b, q.query, me)
      BY <1>2, <2>1 DEF AuthorizeAssess
    <2>3. call'.answer.verdict = "eligible" => Stands(call'.answer)
      BY <2>2, AnswerStands DEF GroundInv
    <2> QED BY <2>2, <2>3 DEF GroundInv
  <1>3. ASSUME NEW ttl \in {0, PathTime}, AuthorizeMint(ttl) PROVE GroundInv'
    <2>1. /\ call.stage = "assessed" /\ fabric' = fabric /\ call' = NoCall
          /\ \A a \in issued' : a \in issued \/ a \in mint_path_authority(call.answer, ttl)
      BY <1>3 DEF AuthorizeMint
    <2>2. \A a \in issued' : Stands(a)
      BY <2>1, MintStands DEF GroundInv
    <2>3. call'.stage = "none"
      BY <2>1 DEF NoCall
    <2> QED BY <2>1, <2>2, <2>3 DEF GroundInv
  <1>4. ASSUME NEW c \in Commands, apply(c) PROVE GroundInv'
    <2>1. fabric' \in Validated(fabric, c, epoch, me) /\ UNCHANGED <<call, issued>>
      BY <1>4 DEF apply
    <2>2. WellFormed(fabric')
      BY <2>1, ContentsAssumption, ValidatedWellFormed DEF GroundInv
    <2> QED BY <2>1, <2>2 DEF GroundInv
  <1>5. ASSUME NEW f \in Installs, install_fabric(f) PROVE GroundInv'
    <2>1. fabric' = f /\ UNCHANGED <<call, issued>> /\ WellFormed(f)
      BY <1>5, ContentsAssumption DEF install_fabric
    <2> QED BY <2>1 DEF GroundInv
  <1>6. CASE acquire_authority \/ revoke_authority
    BY <1>6, GroundKept DEF acquire_authority, revoke_authority
  <1>7. CASE SweepRead \/ SweepWork \/ SweepPublish
    BY <1>7, GroundKept DEF SweepRead, SweepWork, SweepPublish
  <1>8. CASE restart \/ Reboot \/ Tick
    BY <1>8, GroundKept DEF restart, Reboot, Tick
  <1>9. CASE UNCHANGED vars
    BY <1>9, GroundKept DEF vars
  <1> QED BY <1>1, <1>2, <1>3, <1>4, <1>5, <1>6, <1>7, <1>8, <1>9 DEF Next

\* A path authority that validates names only spines that the configuration of the
\* live fabric allows on every leaf it touches: validate_path_authority compares
\* the digest, and nothing is minted but for the topology an answer was computed on.
THEOREM AuthorityStands == Spec => []AuthorityStandsOnTopology
PROOF
  <1>1. Init => GroundInv
    BY GroundInit
  <1>2. GroundInv /\ [Next]_vars => GroundInv'
    BY GroundNext
  <1>3. ASSUME GroundInv PROVE AuthorityStandsOnTopology
    <2>1. SUFFICES ASSUME NEW a \in issued, validate_path_authority(a),
                          NEW k \in {a.from, a.to}, Tier(k) = "leaf",
                          NEW s \in DOMAIN a.spines
                   PROVE  link_eligible_config_only(fabric, Index(k), s)
      BY DEF AuthorityStandsOnTopology
    <2>2. a.at.digest = TopologyDigest(fabric)
      BY SMT, <2>1 DEF validate_path_authority, authority_context
    <2>3. link_eligible_config_only(a.at.digest, Index(k), s)
      BY <1>3, <2>1 DEF GroundInv, Stands
    <2>4. link_eligible_config_only(TopologyDigest(fabric), Index(k), s)
      BY <2>2, <2>3
    <2> QED BY <2>4, DigestDecides
  <1> QED BY <1>1, <1>2, <1>3, PTL DEF Spec

-----------------------------------------------------------------------------
(* The holder of a lease keeps authority.                                  *)

\* The invariant on the lease holds at first.
LEMMA HolderInit ==
  ASSUME Init
  PROVE  HolderInv
  BY DEF Init, HolderInv, HolderKeepsAuthority

\* Steps that leave fabric, incarnation, epoch and installations alone, and leave
\* the lease or drop it.
LEMMA HolderKept ==
  ASSUME HolderInv, UNCHANGED <<fabric, me, epoch>>, lease' \in {lease, NoLease},
         DOMAIN used' = DOMAIN used, used'.installs = used.installs
  PROVE  HolderInv'
  BY DEF HolderInv, HolderKeepsAuthority, authority_context, LeaseShape

\* Steps that drop the lease.
LEMMA HolderDropped ==
  ASSUME HolderInv, lease' = NoLease, used' = used
  PROVE  HolderInv'
  BY DEF HolderInv, HolderKeepsAuthority

\* A coordinate with another generation and digest.
LEMMA Renewed ==
  ASSUME NEW i, NEW e, NEW g, NEW old, NEW new, NEW d, NEW t, NEW u,
         t = [controller |-> i, epoch |-> e, gen |-> g, digest |-> old],
         u = [[t EXCEPT !.gen = new] EXCEPT !.digest = d]
  PROVE  u = [controller |-> i, epoch |-> e, gen |-> new, digest |-> d]
PROOF
  <1>1. PICK w : w = [controller |-> i, epoch |-> e, gen |-> new, digest |-> d]
    OBVIOUS
  <1>2. PICK K : K = {"controller", "epoch", "gen", "digest"}
    OBVIOUS
  <1>3. u = [k \in K |-> u[k]] /\ w = [k \in K |-> w[k]]
    BY <1>1, <1>2
  <1>4. \A k \in K : u[k] = w[k]
    <2>1. PICK v : v = [t EXCEPT !.gen = new]
      OBVIOUS
    <2>2. /\ DOMAIN v = K /\ v["controller"] = i /\ v["epoch"] = e /\ v["gen"] = new
      BY <1>2, <2>1
    <2>3. u = [v EXCEPT !.digest = d]
      BY <2>1
    <2>4. u["controller"] = i /\ u["epoch"] = e /\ u["gen"] = new /\ u["digest"] = d
      BY <1>2, <2>2, <2>3
    <2>5. w["controller"] = i /\ w["epoch"] = e /\ w["gen"] = new /\ w["digest"] = d
      BY <1>1
    <2> QED BY <1>2, <2>4, <2>5
  <1> QED BY <1>1, <1>3, <1>4

\* Every step keeps it.
LEMMA HolderNext ==
  ASSUME HolderInv, [Next]_vars
  PROVE  HolderInv'
PROOF
  <1>1. CASE acquire_authority
    <2>1. /\ lease' = [id |-> granted + 1, at |-> authority_context, expires |-> now + LeaseTime]
          /\ UNCHANGED <<fabric, me, epoch, used>>
      BY <1>1 DEF acquire_authority
    <2>2. LeaseShape(lease)' /\ lease'.at = authority_context
      BY <2>1 DEF LeaseShape
    <2>3. authority_context' = authority_context
      BY <2>1 DEF authority_context
    <2> QED BY <2>1, <2>2, <2>3 DEF HolderInv, HolderKeepsAuthority
  <1>2. ASSUME NEW c \in Commands, apply(c) PROVE HolderInv'
    <2>1. /\ lease # NoLease /\ lease' = Refreshed(fabric') /\ UNCHANGED <<me, epoch>>
          /\ used' = [used EXCEPT !.commands = @ + 1]
      BY <1>2 DEF apply
    <2>2. lease' = [lease EXCEPT !.at.gen = fabric'.gen,
                                 !.at.digest = TopologyDigest(fabric')]
      BY <2>1 DEF Refreshed
    <2>3. DOMAIN used' = DOMAIN used /\ used'.installs = used.installs
      BY <2>1 DEF HolderInv
    <2>4. LeaseShape(lease')
      BY <2>1, <2>2 DEF HolderInv, LeaseShape
    <2>5. lease.at = authority_context => lease'.at = authority_context'
      <3>1. SUFFICES ASSUME lease.at = authority_context PROVE lease'.at = authority_context'
        OBVIOUS
      <3>2. lease'.at = [[lease.at EXCEPT !.gen = fabric'.gen]
                           EXCEPT !.digest = TopologyDigest(fabric')]
        BY <2>1, <2>2 DEF HolderInv, LeaseShape
      <3>3. PICK d : d = TopologyDigest(fabric')
        OBVIOUS
      <3>4. lease'.at = [controller |-> me, epoch |-> epoch, gen |-> fabric'.gen, digest |-> d]
        <4>1. PICK g, old : g = fabric.gen /\ old = TopologyDigest(fabric)
          OBVIOUS
        <4>2. PICK new : new = fabric'.gen
          OBVIOUS
        <4>3. lease.at = [controller |-> me, epoch |-> epoch, gen |-> g, digest |-> old]
          BY <3>1, <4>1 DEF authority_context
        <4>4. PICK u : u = lease'.at
          OBVIOUS
        <4>5. PICK t : t = lease.at
          OBVIOUS
        <4>6. u = [[t EXCEPT !.gen = new] EXCEPT !.digest = d]
          BY <3>2, <3>3, <4>2, <4>4, <4>5
        <4>7. t = [controller |-> me, epoch |-> epoch, gen |-> g, digest |-> old]
          BY <4>3, <4>5
        <4>8. u = [controller |-> me, epoch |-> epoch, gen |-> new, digest |-> d]
          BY <4>6, <4>7, Renewed
        <4> QED BY <4>2, <4>4, <4>8
      <3> QED BY <2>1, <3>3, <3>4 DEF authority_context, TopologyDigest, canonical_topology
    <2> QED BY <2>1, <2>3, <2>4, <2>5 DEF HolderInv, HolderKeepsAuthority, LeaseShape
  <1>3. ASSUME NEW f \in Installs, install_fabric(f) PROVE HolderInv'
    <2>1. /\ used' = [used EXCEPT !.installs = @ + 1] /\ lease' = lease
      BY <1>3 DEF install_fabric
    <2>2. DOMAIN used' = DOMAIN used /\ used'.installs = used.installs + 1
      BY <2>1 DEF HolderInv
    <2>3. used'.installs \in Nat /\ used'.installs # 0
      BY SMT, <2>2 DEF HolderInv
    <2> QED BY <2>1, <2>2, <2>3 DEF HolderInv, HolderKeepsAuthority, LeaseShape
  <1>4. ASSUME NEW q \in Questions, AuthorizeRead(q) PROVE HolderInv'
    <2>1. /\ used' = [used EXCEPT !.calls = @ + 1]
          /\ UNCHANGED <<fabric, me, epoch, lease>>
      BY <1>4 DEF AuthorizeRead
    <2>2. DOMAIN used' = DOMAIN used /\ used'.installs = used.installs
      BY <2>1 DEF HolderInv
    <2> QED BY <2>1, <2>2, HolderKept
  <1>5. CASE AuthorizeAssess \/ \E ttl \in {0, PathTime} : AuthorizeMint(ttl)
    BY <1>5, HolderKept DEF AuthorizeAssess, AuthorizeMint
  <1>6. CASE revoke_authority \/ SweepRead \/ SweepWork \/ SweepPublish
    BY <1>6, HolderKept DEF revoke_authority, SweepRead, SweepWork, SweepPublish, Lapsed
  <1>7. CASE restart \/ Reboot
    BY <1>7, HolderDropped DEF restart, Reboot
  <1>8. CASE Tick \/ UNCHANGED vars
    BY <1>8, HolderKept DEF Tick, vars
  <1> QED BY <1>1, <1>2, <1>3, <1>4, <1>5, <1>6, <1>7, <1>8 DEF Next

\* As long as nothing is installed, no command, sweep or lapse leaves the holder of
\* a lease with a token that the runtime would refuse as out of date: apply hands
\* the holder a refreshed token with every fabric it publishes.
THEOREM HolderKeeps == Spec => []HolderKeepsAuthority
PROOF
  <1>1. Init => HolderInv
    BY HolderInit
  <1>2. HolderInv /\ [Next]_vars => HolderInv'
    BY HolderNext
  <1>3. HolderInv => HolderKeepsAuthority
    BY DEF HolderInv
  <1> QED BY <1>1, <1>2, <1>3, PTL DEF Spec
=============================================================================
