------------------------------ MODULE Topology ------------------------------
(***************************************************************************)
(* The adjacency index over one fabric, and the structural questions it    *)
(* answers.  The compressed arrays of the program, one per node and class  *)
(* of link in the order of peer and link, are sets here; where the code    *)
(* takes the first or the last entry, that is the lowest or the highest    *)
(* link to that peer.                                                      *)
(***************************************************************************)
EXTENDS FabricModel

nodes(f) == {Leaf(n) : n \in DOMAIN f.leaves} \cup {Spine(n) : n \in DOMAIN f.spines}

\* A link seen from its first and from its second end.
Forward(f, i) ==
    LET l == f.links[i]
    IN  [link |-> i, self |-> l.a, peer |-> l.b, local |-> l.pa, remote |-> l.pb,
         cls |-> l.cls, speed |-> effective_link_speed(f, l)]
Backward(f, i) ==
    LET l == f.links[i]
    IN  [link |-> i, self |-> l.b, peer |-> l.a, local |-> l.pb, remote |-> l.pa,
         cls |-> l.cls, speed |-> effective_link_speed(f, l)]

EnabledLinks(f) == {i \in DOMAIN f.links : f.links[i].admin = "enabled"}

\* TopologyIndex::build: both ends of every enabled link.  A disabled link is
\* not part of the graph.
build(f) ==
    {Forward(f, i) : i \in EnabledLinks(f)} \cup {Backward(f, i) : i \in EnabledLinks(f)}

\* The adjacencies of a node, of all classes or of one.
adjacencies(f, k) == {x \in build(f) : x.self = k}
OfClass(f, k, cls) == {x \in adjacencies(f, k) : x.cls = cls}

uplinks(f, n)    == OfClass(f, Leaf(n), "leafspine")
downlinks(f, n)  == OfClass(f, Spine(n), "leafspine")
peer_links(f, k) == OfClass(f, k, "peer")

\* The first and the last of some adjacencies to one peer.
Lowest(S)  == CHOOSE x \in S : \A y \in S : x.link <= y.link
Highest(S) == CHOOSE x \in S : \A y \in S : x.link >= y.link

\* The adjacencies of a among S that lead to b.
Towards(S, b) == {x \in S : x.peer = b}

adjacent(f, a, b) == Towards(adjacencies(f, a), b) # {}
adjacency_between(f, a, b) == Lowest(Towards(adjacencies(f, a), b))

\* Mutation of common_spines: links are counted, not the spines they lead to.
CommonUplinks(f, m, n) ==
    IF m = n THEN {}
    ELSE {x.link : x \in {x \in uplinks(f, m) :
            Towards(uplinks(f, n), x.peer) # {}}}

\* Spines with an uplink of both leaves.
common_spines(f, m, n) ==
    IF m = n THEN {}
    ELSE {Index(x.peer) : x \in uplinks(f, m)} \cap {Index(y.peer) : y \in uplinks(f, n)}

\* A leaf reaches k over a peer of its own tier.
PeerBridge(f, leaf, k) == \E x \in peer_links(f, leaf) : adjacent(f, x.peer, k)

LeafPairClass(f, a, b) ==
    LET common == Cardinality(common_spines(f, Index(a), Index(b)))
    IN  CASE common >= 2 -> "LeafLeafMultiSpine"
          [] common = 1 -> "LeafLeafSingleSpine"
          [] OTHER -> IF PeerBridge(f, a, b) \/ PeerBridge(f, b, a)
                      THEN "LeafSpineViaPeer" ELSE "Unreachable"

SpinePairClass(f, a, b) ==
    IF \E x \in downlinks(f, Index(a)) : adjacent(f, x.peer, b)
    THEN "SpineSpineViaLeaf" ELSE "Unreachable"

LeafSpineClass(f, leaf, spine) ==
    IF PeerBridge(f, leaf, spine) THEN "LeafSpineViaPeer" ELSE "Unreachable"

structural_class(f, a, b) ==
    IF a = b THEN "SameNode"
    ELSE IF adjacent(f, a, b)
    THEN IF adjacency_between(f, a, b).cls = "leafspine"
         THEN "DirectLeafSpine" ELSE "DirectPeer"
    ELSE CASE Tier(a) = "leaf" /\ Tier(b) = "leaf" -> LeafPairClass(f, a, b)
           [] Tier(a) = "spine" /\ Tier(b) = "spine" -> SpinePairClass(f, a, b)
           [] Tier(a) = "leaf" /\ Tier(b) = "spine" -> LeafSpineClass(f, a, b)
           [] Tier(a) = "spine" /\ Tier(b) = "leaf" -> LeafSpineClass(f, b, a)

-----------------------------------------------------------------------------
(* Paths.  The search takes the adjacencies of a node in the order of peer *)
(* and link, depth first, so it meets the walks to its goal in the         *)
(* lexicographic order of their steps, and it stops at the bound.          *)

\* The order of node keys, and of adjacencies.
KeyLess(j, k) ==
    IF Tier(j) # Tier(k) THEN Tier(j) = "leaf" /\ Tier(k) = "spine" ELSE Index(j) < Index(k)
adjacency_less(x, y) ==
    IF x.peer # y.peer THEN KeyLess(x.peer, y.peer) ELSE x.link < y.link

\* The walks from a to b of at most max_hops steps that come to no node twice.
Walks(f, a, b, max_hops) ==
    LET edges == build(f)
    IN  {w \in UNION {[1..h -> edges] : h \in 1..max_hops} :
           /\ w[1].self = a /\ w[Len(w)].peer = b
           /\ \A i \in 2..Len(w) : w[i].self = w[i - 1].peer
           /\ \A i \in DOMAIN w : w[i].peer # a
           /\ \A i, j \in DOMAIN w : w[i].peer = w[j].peer => i = j}

\* A walk is met before another when it is the lesser where they part.
MetBefore(v, w) ==
    \E i \in DOMAIN v \cap DOMAIN w :
      adjacency_less(v[i], w[i]) /\ \A j \in 1..(i - 1) : v[j] = w[j]

\* The paths that are returned, each by the walk that led the search along it:
\* the first max_paths of the walks.
enumerate_paths(f, a, b, max_hops, max_paths) ==
    LET walks == Walks(f, a, b, max_hops)
    IN  {w \in walks : Cardinality({v \in walks : MetBefore(v, w)}) < max_paths}

\* The nodes of the path of a walk, which is what the program returns of it.
NodesOf(w) == <<w[1].self>> \o [i \in DOMAIN w |-> w[i].peer]
=============================================================================
