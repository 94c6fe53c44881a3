------------------------------ MODULE Builder ------------------------------
(***************************************************************************)
(* The fabric builder, and the two ways the controller uses it: to         *)
(* validate the outcome of a command, and to read a stored fabric back.    *)
(*                                                                         *)
(* A record is accepted or refused by what is in the builder already; the  *)
(* order of records matters only between links and retired links.  The     *)
(* builder stops at the first error; which error it reports, and the       *)
(* warnings it collects, are left out.                                     *)
(***************************************************************************)
EXTENDS FabricModel

CONSTANT
    Limits      \* config_.limits: bounds of the vectors and of a capacity

LimitNames == {"domains", "leaves", "spines", "ports", "links", "history",
               "evidence", "capacity"}

ASSUME LimitsAssumption == Limits \in [LimitNames -> Nat]

\* The limits are the builder's own: there is room for all records of each kind,
\* and no capacity or speed is larger than any can be.  They are checked as the
\* records are added; here, of the fabric that results.
Within(f, limits) ==
    /\ \A kind \in {"domains", "leaves", "spines", "ports", "links", "history"} :
         Cardinality(DOMAIN f[kind]) <= limits[kind]
    /\ SumFunction(f.evidence) <= limits["evidence"]
    /\ \A n \in DOMAIN f.leaves : f.leaves[n].access <= limits["capacity"]
    /\ \A n \in DOMAIN f.spines : f.spines[n].capacity <= limits["capacity"]
    /\ \A p \in DOMAIN f.ports : f.ports[p].speed <= limits["capacity"]
    /\ \A i \in DOMAIN f.links : f.links[i].speed <= limits["capacity"]

OptionsOk(f) == f.options.minSpines # 0

add_failure_domain(f, d) == f.domains[d].gen = f.gen

validate_node_common(f, n) == n.gen = f.gen

add_leaf(f, n) == n # 0 /\ validate_node_common(f, f.leaves[n])

add_spine(f, n) == n # 0 /\ validate_node_common(f, f.spines[n])

add_port(f, n) ==
    LET p == f.ports[n]
    IN  /\ n # 0
        /\ p.gen = f.gen
        /\ HasNode(f, p.owner)
        /\ p.speed = 0 => p.admin # "enabled"

PortBelongs(f, p, k) == p \in DOMAIN f.ports /\ f.ports[p].owner = k

\* A link joins two different nodes by ports of theirs, and its class fits the
\* tiers of its ends.
Attached(f, l) ==
    /\ l.a # l.b
    /\ Tier(l.a) = Tier(l.b) <=> l.cls = "peer"
    /\ HasNode(f, l.a) /\ HasNode(f, l.b)
    /\ PortBelongs(f, l.pa, l.a) /\ PortBelongs(f, l.pb, l.b)

SamePorts(l, m) == {l.pa, l.pb} = {m.pa, m.pb}

\* Nodes of one tier may be joined only when policy and roles allow it; a link is
\* no faster than its slower port, and no other link uses the same ports.
add_link(f, i) ==
    LET l == f.links[i]
        sameTier == Tier(l.a) = Tier(l.b)
    IN  /\ i # 0
        /\ l.gen = f.gen
        /\ sameTier => f.options.sameTier
        /\ Attached(f, l)
        /\ sameTier /\ Tier(l.a) = "leaf" =>
             \A k \in {l.a, l.b} : is_peer_capable(Node(f, k).role)
        /\ l.speed <= Smaller(f.ports[l.pa].speed, f.ports[l.pb].speed)
        /\ \A j \in DOMAIN f.links \ {i} : ~SamePorts(f.links[j], l)

\* A retired link belongs to an older generation, and its identity is refused
\* when it is among the links added so far.
add_history_link(f, i, added) ==
    /\ i # 0
    /\ i \notin added
    /\ f.history[i].gen < f.gen

add_evidence(f, e) ==
    /\ e.gen <= f.gen
    /\ e.observer # 0 /\ e.seq # 0
    /\ e.link \in DOMAIN f.links \cup DOMAIN f.history

\* freeze() refuses a link that has no usable speed.
validate_links(f) ==
    \A i \in DOMAIN f.links : effective_link_speed(f, f.links[i]) # 0

\* Nodes and ports come first in every use of the builder.
NodesAccepted(f) ==
    /\ OptionsOk(f)
    /\ \A d \in DOMAIN f.domains : add_failure_domain(f, d)
    /\ \A n \in DOMAIN f.leaves : add_leaf(f, n)
    /\ \A n \in DOMAIN f.spines : add_spine(f, n)
    /\ \A p \in DOMAIN f.ports : add_port(f, p)

\* freeze(): validation; putting the records in order changes nothing here.
freeze(f) == validate_links(f)

\* A fabric is rebuilt from scratch, retired links before links.
Rebuilt(f) ==
    /\ NodesAccepted(f)
    /\ \A i \in DOMAIN f.history : add_history_link(f, i, {})
    /\ \A i \in DOMAIN f.links : add_link(f, i)
    /\ \A e \in DOMAIN f.evidence : add_evidence(f, e)
    /\ freeze(f)

\* The controller's builder has the limits of its configuration.
builder_from_modified(f) == Within(f, Limits) /\ Rebuilt(f)

-----------------------------------------------------------------------------
(* The fabrics the index is built over.                                    *)

NodeKeys == {"leaf", "spine"} \X Nat

\* What the types of the program say of the records and of the contents of a fabric.
LeafShape(n) ==
    DOMAIN n = {"role", "domain", "state", "access", "gen"} /\ n.access \in Nat
SpineShape(n) == DOMAIN n = {"domain", "state", "capacity", "gen"}
PortShape(p) == DOMAIN p = {"owner", "speed", "admin", "gen"} /\ p.speed \in Nat

LinkShape(l) ==
    /\ DOMAIN l = {"a", "pa", "b", "pb", "cls", "admin", "speed", "gen"}
    /\ l.a \in NodeKeys /\ l.b \in NodeKeys
    /\ l.cls \in {"leafspine", "peer"} /\ l.speed \in Nat

FabricShape(f) ==
    /\ DOMAIN f = {"gen", "epoch", "state", "options", "domains", "leaves", "spines",
                   "ports", "links", "history", "evidence"}
    /\ \A n \in DOMAIN f.leaves : LeafShape(f.leaves[n])
    /\ \A n \in DOMAIN f.spines : SpineShape(f.spines[n])
    /\ \A p \in DOMAIN f.ports : PortShape(f.ports[p])
    /\ IsFiniteSet(DOMAIN f.links) /\ DOMAIN f.links \subseteq Nat
    /\ \A i \in DOMAIN f.links : LinkShape(f.links[i])

\* What the builder has made sure of: no link dangles and each can be used.
WellFormed(f) ==
    /\ FabricShape(f)
    /\ \A i \in DOMAIN f.links : Attached(f, f.links[i])
    /\ validate_links(f)
=============================================================================
