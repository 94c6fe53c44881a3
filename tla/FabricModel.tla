---------------------------- MODULE FabricModel ----------------------------
(***************************************************************************)
(* The contents of a fabric: nodes of two tiers, their ports, the links    *)
(* between ports, retired links and observations of links.  The program    *)
(* keeps records in maps by identity, and in vectors in the order of       *)
(* identities; both are functions from identities to records here.         *)
(* Observations have no identity: they are counted, as a function from     *)
(* observations to the number of copies.  Names, sites and the text of     *)
(* reports are left out; speeds and capacities are small numbers.          *)
(*                                                                         *)
(*   leaf    [role, domain, state, access, gen]                            *)
(*   spine   [domain, state, capacity, gen]                                *)
(*   port    [owner, speed, admin, gen]                                    *)
(*   link    [a, pa, b, pb, cls, admin, speed, gen]                        *)
(*   observation  [link, observed, gen, observer, epoch, seq]              *)
(***************************************************************************)
EXTENDS Integers, Sequences, FiniteSets, Functions

\* A node key is a tier and an index in that tier.
Leaf(n)  == <<"leaf", n>>
Spine(n) == <<"spine", n>>
Tier(k)  == k[1]
Index(k) == k[2]

FabricStates == {"unformed", "forming", "operational", "draining", "retired"}
AdminStates == {"enabled", "disabled"}
NodeStates == {"active", "draining", "maintenance", "failed", "retired"}
state_is_serving(s) == s = "active"

\* Roles that may terminate a link between two leaves.
is_peer_capable(role) == role \in {"border", "service"}

-----------------------------------------------------------------------------
(* Lookups.                                                                *)

HasNode(f, k) ==
    Index(k) \in IF Tier(k) = "leaf" THEN DOMAIN f.leaves ELSE DOMAIN f.spines
Node(f, k) == IF Tier(k) = "leaf" THEN f.leaves[Index(k)] ELSE f.spines[Index(k)]
node_state(f, k)  == Node(f, k).state
node_domain(f, k) == Node(f, k).domain

Smaller(a, b) == IF a < b THEN a ELSE b

\* The declared speed of a link, or the speed of its slower port.
effective_link_speed(f, l) ==
    IF l.speed # 0 THEN l.speed
    ELSE Smaller(f.ports[l.pa].speed, f.ports[l.pb].speed)

-----------------------------------------------------------------------------
(* Observations.                                                           *)

\* Nothing counted, and a copy of each member of S counted in.
EmptyCounts == [e \in {} |-> 0]
Counted(counts, S) ==
    [e \in DOMAIN counts \cup S |->
       (IF e \in DOMAIN counts THEN counts[e] ELSE 0) + IF e \in S THEN 1 ELSE 0]

\* The observations of a link that carry its highest sequence number and, among
\* those, the highest generation: none when the link was never observed, more
\* than one when the observations conflict.
evidence_for(f, id) ==
    LET recs == {e \in DOMAIN f.evidence : e.link = id}
    IN  {e \in recs : \A o \in recs :
           o.seq < e.seq \/ (o.seq = e.seq /\ o.gen <= e.gen)}

\* An observation counts only for the incarnation that made it, at the
\* generation and epoch it was made at.
IsFresh(f, e, controller, epoch) ==
    /\ e.observer = controller
    /\ e.gen = f.gen
    /\ e.epoch = epoch

-----------------------------------------------------------------------------
(* Digests are injective: the topology digest tells apart every two        *)
(* fabrics that differ in anything but their observations.                 *)

canonical_topology(f) ==
    [header |-> <<f.gen, f.epoch, f.state, f.options>>,
     domains |-> f.domains, leaves |-> f.leaves, spines |-> f.spines,
     ports |-> f.ports, links |-> f.links, history |-> f.history]

canonical_evidence(f) == [gen |-> f.gen, records |-> f.evidence]

TopologyDigest(f) == canonical_topology(f)
=============================================================================
