------------------------------ MODULE MCEngine ------------------------------
(***************************************************************************)
(* Two leaves and three spines in two failure domains for TLC.             *)
(***************************************************************************)
EXTENDS Engine

MCLimits == [domains |-> 2, leaves |-> 2, spines |-> 3, ports |-> 12,
             links |-> 8, history |-> 1, evidence |-> 3, capacity |-> 8]

MCOptions == [sameTier |-> TRUE, diversity |-> FALSE, minSpines |-> 1,
              policy |-> "config_only"]

\* Leaf m has port 10 * m + s towards spine s, which has port 30 + 10 * m + s.
Up(m, s, speed) ==
    [a |-> Leaf(m), pa |-> 10 * m + s, b |-> Spine(s), pb |-> 30 + 10 * m + s,
     cls |-> "leafspine", admin |-> "enabled", speed |-> speed, gen |-> 1]

Port(k) == [owner |-> k, speed |-> 4, admin |-> "enabled", gen |-> 1]

LeafPorts == {11, 12, 13, 21, 22, 23}
SpinePorts == {30 + p : p \in LeafPorts}

MCInitial ==
    [gen |-> 1, epoch |-> 1, state |-> "operational", options |-> MCOptions,
     domains |-> [d \in 1..2 |-> [gen |-> 1]],
     leaves |-> [m \in 1..2 |-> [role |-> "border", domain |-> 1,
                                 state |-> "active", access |-> 4, gen |-> 1]],
     spines |-> [s \in 1..3 |-> [domain |-> IF s = 3 THEN 2 ELSE 1,
                                 state |-> "active", capacity |-> 8, gen |-> 1]],
     ports |-> [p \in LeafPorts \cup SpinePorts |->
                  Port(IF p < 40 THEN Leaf(p \div 10) ELSE Spine(p % 10))],
     links |-> <<Up(1, 1, 2), Up(2, 1, 2), Up(1, 2, 3), Up(2, 2, 0), Up(1, 3, 2), Up(2, 3, 1)>>,
     history |-> <<>>, evidence |-> EmptyCounts]

Peer == [a |-> Leaf(1), pa |-> 12, b |-> Leaf(2), pb |-> 22, cls |-> "peer",
         admin |-> "enabled", speed |-> 0, gen |-> 0]

\* A second link between leaf 1 and spine 1.
Second == [Up(1, 1, 1) EXCEPT !.pb = 51]

Saw(l, o, n) == [link |-> l, observed |-> o, gen |-> 0, observer |-> 0, epoch |-> 0, seq |-> n]

MCCommands ==
    {[Command("AddLink") EXCEPT !.new_id = 7, !.new = Peer],
     [Command("AddLink") EXCEPT !.new_id = 8, !.new = Second]}
      \cup {[Command("SubmitEvidence") EXCEPT !.evidence = e] :
              e \in {Saw(1, "up", 1), Saw(1, "down", 1), Saw(3, "unknown", 2), Saw(7, "up", 1)}}
      \cup {[Command("SetSpineState") EXCEPT !.node = Spine(2), !.node_state = "failed"],
            [Command("SetLeafState") EXCEPT !.node = Leaf(1), !.node_state = "draining"],
            [Command("SetPortAdmin") EXCEPT !.port = 23, !.port_admin = "disabled"],
            [Command("SetLinkAdmin") EXCEPT !.link = 4, !.link_admin = "disabled"],
            [Command("RemoveLink") EXCEPT !.link = 5],
            [Command("ClearEvidence") EXCEPT !.link = 1],
            [Command("SetOptions") EXCEPT !.options = [MCOptions EXCEPT !.policy = "require_fresh"]]}

MCQueries ==
    {defaults_for(MCOptions),
     [defaults_for(MCOptions) EXCEPT !.diversity = TRUE, !.minSpines = 2, !.evidence = TRUE],
     [defaults_for(MCOptions) EXCEPT !.minSpines = 2, !.minCapacity = 3, !.maxOver = <<2, 1>>]}
=============================================================================
