------------------------------ MODULE MCFabric ------------------------------
(***************************************************************************)
(* A fabric of two leaves and a spine for TLC.                             *)
(***************************************************************************)
EXTENDS FabricLife

MCLimits == [domains |-> 2, leaves |-> 2, spines |-> 1, ports |-> 4,
             links |-> 2, history |-> 2, evidence |-> 2, capacity |-> 4]

\* The limits snapshots are read under: fewer failure domains, larger capacities.
MCDefaults == [MCLimits EXCEPT !.domains = 1, !.capacity = 5]

MCOptions == [sameTier |-> FALSE, diversity |-> FALSE, minSpines |-> 1,
              policy |-> "config_only"]

Link(leaf, p, q, g) ==
    [a |-> Leaf(leaf), pa |-> p, b |-> Spine(1), pb |-> q,
     cls |-> "leafspine", admin |-> "enabled", speed |-> 0, gen |-> g]

Port(k, g) == [owner |-> k, speed |-> 2, admin |-> "enabled", gen |-> g]

Base(g) ==
    [gen |-> g, epoch |-> 1, state |-> "operational", options |-> MCOptions,
     domains |-> <<[gen |-> g]>>,
     leaves |-> [n \in 1..2 |-> [role |-> "access", domain |-> 1,
                                 state |-> "active", access |-> 4, gen |-> g]],
     spines |-> <<[domain |-> 1, state |-> "active", capacity |-> 4, gen |-> g]>>,
     ports |-> <<Port(Leaf(1), g), Port(Leaf(2), g), Port(Spine(1), g), Port(Spine(1), g)>>,
     links |-> <<Link(1, 1, 3, g), Link(2, 2, 4, g)>>,
     history |-> <<>>, evidence |-> EmptyCounts]

\* One that exceeds the limits of the configuration, and one the default limits.
Fast == [Base(1) EXCEPT !.spines[1].capacity = 5]
Spread == [Base(1) EXCEPT !.domains = <<[gen |-> 1], [gen |-> 1]>>]

MCSpecs == {Base(1), Fast, Spread}

Saw(l, o, n) == [link |-> l, observed |-> o, gen |-> 0, observer |-> 0, epoch |-> 0, seq |-> n]

\* One command of every kind; a link is retired and its identity, or its
\* ports, are used again.
MCCommands ==
    {[Command("RemoveLink") EXCEPT !.link = 2],
     [Command("AddLink") EXCEPT !.new_id = 2, !.new = Link(2, 2, 4, 0)],
     [Command("AddLink") EXCEPT !.new_id = 3, !.new = Link(2, 2, 4, 0)],
     [Command("SubmitEvidence") EXCEPT !.evidence = Saw(2, "down", 1)],
     [Command("ClearEvidence") EXCEPT !.link = 2],
     [Command("SetLinkAdmin") EXCEPT !.link = 2, !.link_admin = "disabled"],
     [Command("SetPortAdmin") EXCEPT !.port = 3, !.port_admin = "disabled"],
     [Command("SetSpineState") EXCEPT !.node = Spine(1), !.node_state = "failed"],
     [Command("SetFabricState") EXCEPT !.fabric_state = "draining"],
     [Command("SetLeafState") EXCEPT !.node = Leaf(1), !.node_state = "draining"],
     [Command("SetOptions") EXCEPT !.options = [MCOptions EXCEPT !.minSpines = 2]]}

\* Without a reused identity and within the limits of the configuration.
PlainCommands == {c \in MCCommands : c.kind # "AddLink"}
PlainSpecs == {Spread}
=============================================================================
