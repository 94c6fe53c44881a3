--------------------------- MODULE FabricCommands ---------------------------
(***************************************************************************)
(* What the ten governed commands do to the contents of a fabric, and the  *)
(* stored forms of a command and of a fabric.                              *)
(***************************************************************************)
EXTENDS Builder

\* No fabric at all: a null pointer, or the error of a reader.
NoFabric == [gen |-> 0]

-----------------------------------------------------------------------------
(* Commands.                                                               *)

CommandKinds == {"SetFabricState", "SetLeafState", "SetSpineState", "SetPortAdmin",
                 "SetLinkAdmin", "AddLink", "RemoveLink", "SetOptions",
                 "SubmitEvidence", "ClearEvidence"}

\* A command of a kind, with every argument at its default.
Command(kind) ==
    [kind |-> kind, fabric_state |-> "operational",
     node |-> Leaf(0), node_state |-> "active",
     port |-> 0, port_admin |-> "enabled", link |-> 0, link_admin |-> "enabled",
     new_id |-> 0,
     new |-> [a |-> Leaf(0), pa |-> 0, b |-> Leaf(0), pb |-> 0,
              cls |-> "leafspine", admin |-> "enabled", speed |-> 0, gen |-> 0],
     evidence |-> [link |-> 0, observed |-> "unknown", gen |-> 0, observer |-> 0,
                   epoch |-> 0, seq |-> 0],
     options |-> [sameTier |-> FALSE, diversity |-> FALSE, minSpines |-> 1,
                  policy |-> "config_only"]]

\* What the types of the program say of a command and of its parts.
LinkRecord ==
    [a: NodeKeys, pa: Nat, b: NodeKeys, pb: Nat, cls: {"leafspine", "peer"},
     admin: AdminStates, speed: Nat, gen: Nat]
ObservationRecord ==
    [link: Nat, observed: {"up", "down", "unknown"}, gen: Nat, observer: Nat,
     epoch: Nat, seq: Nat]
FabricOptions ==
    [sameTier: BOOLEAN, diversity: BOOLEAN, minSpines: Nat,
     policy: {"config_only", "require_fresh"}]
GovernedCommand ==
    [kind: CommandKinds, fabric_state: FabricStates,
     node: NodeKeys, node_state: NodeStates,
     port: Nat, port_admin: AdminStates, link: Nat, link_admin: AdminStates,
     new_id: Nat, new: LinkRecord, evidence: ObservationRecord, options: FabricOptions]

is_topology_command(c) == c.kind \notin {"SubmitEvidence", "ClearEvidence"}

TargetGeneration(f, c) == IF is_topology_command(c) THEN f.gen + 1 ELSE f.gen

\* What apply_locked asks of the current topology.
Precondition(f, c) ==
    CASE c.kind = "SetLeafState" -> Tier(c.node) = "leaf" /\ HasNode(f, c.node)
      [] c.kind = "SetSpineState" -> Tier(c.node) = "spine" /\ HasNode(f, c.node)
      [] c.kind = "SetPortAdmin" -> c.port \in DOMAIN f.ports
      [] c.kind \in {"SetLinkAdmin", "RemoveLink"} -> c.link \in DOMAIN f.links
      [] c.kind = "AddLink" -> c.new_id # 0
      [] OTHER -> TRUE

\* The record with this identity gets a new value of one field.
Update(s, id, field, value) ==
    [i \in DOMAIN s |-> IF i = id THEN [s[i] EXCEPT ![field] = value] ELSE s[i]]

\* One more record.
With(s, id, record) ==
    [i \in DOMAIN s \cup {id} |-> IF i = id THEN record ELSE s[i]]

\* A removed link stays as history, at the generation it was last part of.
Retire(f, id) ==
    IF id \notin DOMAIN f.links THEN f
    ELSE [f EXCEPT
            !.history = With(@, id, [f.links[id] EXCEPT !.gen = f.gen]),
            !.links = [i \in DOMAIN @ \ {id} |-> @[i]]]

\* The outcome has two records under one identity: a link or a retired link that
\* is there already is added once more.
Collides(f, c) ==
    \/ c.kind = "AddLink" /\ c.new_id \in DOMAIN f.links
    \/ c.kind = "RemoveLink" /\ c.link \in DOMAIN f.links \cap DOMAIN f.history

\* An observation is stamped with the observer and the coordinates.
Observed(e, g, ep, observer) ==
    [e EXCEPT !.observer = observer, !.epoch = ep, !.gen = g]

\* The observations of other links.
Without(evidence, links) ==
    [e \in {o \in DOMAIN evidence : o.link \notin links} |-> evidence[e]]

Effect(f, c, g, ep, observer) ==
    CASE c.kind = "SetFabricState" -> [f EXCEPT !.state = c.fabric_state]
      [] c.kind = "SetOptions" -> [f EXCEPT !.options = c.options]
      [] c.kind = "SetLeafState" ->
           [f EXCEPT !.leaves = Update(@, Index(c.node), "state", c.node_state)]
      [] c.kind = "SetSpineState" ->
           [f EXCEPT !.spines = Update(@, Index(c.node), "state", c.node_state)]
      [] c.kind = "SetPortAdmin" ->
           [f EXCEPT !.ports = Update(@, c.port, "admin", c.port_admin)]
      [] c.kind = "SetLinkAdmin" ->
           [f EXCEPT !.links = Update(@, c.link, "admin", c.link_admin)]
      [] c.kind = "RemoveLink" -> Retire(f, c.link)
      [] c.kind = "AddLink" -> [f EXCEPT !.links = With(@, c.new_id, c.new)]
      [] c.kind = "SubmitEvidence" ->
           [f EXCEPT !.evidence = Counted(@, {Observed(c.evidence, g, ep, observer)})]
      [] c.kind = "ClearEvidence" ->
           [f EXCEPT !.evidence = Without(@, {c.link})]

Stamped(s, g) == [i \in DOMAIN s |-> [s[i] EXCEPT !.gen = g]]

\* Everything current is moved to the target generation; retired links and
\* observations keep theirs.
Restamp(f, g, ep) ==
    [f EXCEPT !.gen = g, !.epoch = ep,
              !.domains = Stamped(@, g), !.leaves = Stamped(@, g),
              !.spines = Stamped(@, g), !.ports = Stamped(@, g),
              !.links = Stamped(@, g)]

\* The outcome of a command, before the builder sees it.
Candidate(f, c, g, ep, observer) == Restamp(Effect(f, c, g, ep, observer), g, ep)

\* The outcome of a command; none when the builder refuses it.
apply_command_to(f, c, g, ep, observer) ==
    {o \in {Candidate(f, c, g, ep, observer)} :
       ~Collides(f, c) /\ builder_from_modified(o)}

\* The fabric a live command leads to; none when its precondition fails.
Validated(f, c, ep, observer) ==
    IF Precondition(f, c)
    THEN apply_command_to(f, c, TargetGeneration(f, c), ep, observer) ELSE {}

-----------------------------------------------------------------------------
(* The stored form of a command: all its arguments, in a fixed order.  The *)
(* request id and the token of a command are the subject of Controller.    *)

serialize_command(c) ==
    <<"command", c.kind, c.fabric_state, c.node, c.node_state, c.port, c.port_admin,
      c.link, c.link_admin, c.new_id, c.new, c.evidence, c.options>>

\* What the reader of a command insists on; it takes the ends and the
\* administrative state of a new link as they come.
Decodable(d) ==
    /\ Len(d) = 13 /\ d[1] = "command"
    /\ d[2] \in CommandKinds /\ d[3] \in FabricStates
    /\ Tier(d[4]) \in {"leaf", "spine"} /\ d[5] \in NodeStates
    /\ d[7] \in AdminStates /\ d[9] \in AdminStates
    /\ d[11].cls \in {"leafspine", "peer"}
    /\ d[12].observed \in {"up", "down", "unknown"}
    /\ d[13].policy \in {"config_only", "require_fresh"}

\* The fields in the order they are read.
deserialize_command(d) ==
    [kind |-> d[2], fabric_state |-> d[3], node |-> d[4], node_state |-> d[5],
     port |-> d[6], port_admin |-> d[7], link |-> d[8], link_admin |-> d[9],
     new_id |-> d[10], new |-> d[11], evidence |-> d[12], options |-> d[13]]

-----------------------------------------------------------------------------
(* The stored form of a fabric: a block for the topology and one for the   *)
(* observations.  Its size is counted in link and observation records.     *)

serialize_fabric(f) ==
    [topology |-> canonical_topology(f), evidence |-> canonical_evidence(f)]

StoredBytes(f) ==
    Cardinality(DOMAIN f.links) + Cardinality(DOMAIN f.history) + SumFunction(f.evidence)

\* The fields in the order they are read, before the builder sees them.
Decoded(d) ==
    LET t == d.topology
    IN  [gen |-> t.header[1], epoch |-> t.header[2], state |-> t.header[3],
         options |-> t.header[4], domains |-> t.domains, leaves |-> t.leaves,
         spines |-> t.spines, ports |-> t.ports, links |-> t.links,
         history |-> t.history, evidence |-> d.evidence.records]

\* read_links: the links are added, then the retired links.
read_links(f) ==
    /\ \A i \in DOMAIN f.links : add_link(f, i)
    /\ \A i \in DOMAIN f.history : add_history_link(f, i, DOMAIN f.links)

\* Mutation of ReadEvidence: observations of retired links are refused.
ReadCurrentEvidence(f) ==
    \A e \in DOMAIN f.evidence : add_evidence(f, e) /\ e.link \in DOMAIN f.links

ReadEvidence(f) == \A e \in DOMAIN f.evidence : add_evidence(f, e)

\* What reading a stored fabric under some limits yields; NoFabric when it is refused.
deserialize_fabric(d, limits) ==
    LET f == Decoded(d)
    IN  IF Within(f, limits) /\ NodesAccepted(f) /\ read_links(f) /\ ReadEvidence(f) /\ freeze(f)
        THEN f ELSE NoFabric
=============================================================================
