------------------------------- MODULE Oracle -------------------------------
(***************************************************************************)
(* The reference evaluation of the test suite, over links and not over the *)
(* index: which spines configuration allows between two leaves.            *)
(***************************************************************************)
EXTENDS Assessment

Joins(l, a, b) == {l.a, l.b} = {a, b}

\* Two links between the same two nodes, which the test suite's fabrics avoid.
Parallel(f) ==
    \E i, j \in DOMAIN f.links :
      i # j /\ Joins(f.links[i], f.links[j].a, f.links[j].b)

\* A leaf and a spine in service with a usable link on enabled ports.
link_eligible_config_only(f, m, s) ==
    /\ HasNode(f, Leaf(m)) /\ HasNode(f, Spine(s))
    /\ state_is_serving(node_state(f, Leaf(m)))
    /\ state_is_serving(node_state(f, Spine(s)))
    /\ \E i \in EnabledLinks(f) :
         LET l == f.links[i]
         IN  /\ Joins(l, Leaf(m), Spine(s))
             /\ {l.pa, l.pb} \subseteq DOMAIN f.ports
             /\ \A p \in {l.pa, l.pb} : f.ports[p].admin = "enabled"
             /\ effective_link_speed(f, l) # 0

eligible_spines_for_pair(f, m, n) ==
    {s \in DOMAIN f.spines :
       link_eligible_config_only(f, m, s) /\ link_eligible_config_only(f, n, s)}
=============================================================================
