------------------------------ MODULE MCPaths ------------------------------
(***************************************************************************)
(* Two leaves and two spines for TLC.                                      *)
(***************************************************************************)
EXTENDS Paths

MCLimits == [domains |-> 1, leaves |-> 2, spines |-> 2, ports |-> 8,
             links |-> 4, history |-> 1, evidence |-> 2, capacity |-> 8]

MCOptions == [sameTier |-> FALSE, diversity |-> FALSE, minSpines |-> 1,
              policy |-> "config_only"]

Up(m, s) ==
    [a |-> Leaf(m), pa |-> 10 * m + s, b |-> Spine(s), pb |-> 30 + 10 * m + s,
     cls |-> "leafspine", admin |-> "enabled", speed |-> 1, gen |-> 1]

Port(k) == [owner |-> k, speed |-> 1, admin |-> "enabled", gen |-> 1]

LeafPorts == {11, 12, 21, 22}
SpinePorts == {30 + p : p \in LeafPorts}

MCInitial ==
    [gen |-> 1, epoch |-> 1, state |-> "operational", options |-> MCOptions,
     domains |-> <<[gen |-> 1]>>,
     leaves |-> [m \in 1..2 |-> [role |-> "access", domain |-> 1,
                                 state |-> "active", access |-> 1, gen |-> 1]],
     spines |-> [s \in 1..2 |-> [domain |-> 1, state |-> "active",
                                 capacity |-> 1, gen |-> 1]],
     ports |-> [p \in LeafPorts \cup SpinePorts |->
                  Port(IF p < 40 THEN Leaf(p \div 10) ELSE Spine(p % 10))],
     links |-> <<Up(1, 1), Up(1, 2), Up(2, 1), Up(2, 2)>>,
     history |-> <<>>, evidence |-> EmptyCounts]

\* Another specification of the same generation, without one of the links.
MCInstalls == {[MCInitial EXCEPT !.links = Restrict(@, 2..4)]}

MCCommands ==
    {[Command("SubmitEvidence") EXCEPT
        !.evidence = [link |-> 1, observed |-> "down", gen |-> 0, observer |-> 0,
                      epoch |-> 0, seq |-> 1]],
     [Command("SetSpineState") EXCEPT !.node = Spine(1), !.node_state = "failed"],
     [Command("SetOptions") EXCEPT !.options = [MCOptions EXCEPT !.minSpines = 2]]}

MCQuestions ==
    {[a |-> Leaf(1), b |-> Leaf(2), query |-> defaults_for(MCOptions)],
     [a |-> Spine(1), b |-> Leaf(1), query |-> defaults_for(MCOptions)]}
=============================================================================
