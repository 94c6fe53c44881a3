----------------------------- MODULE FabricData -----------------------------
(***************************************************************************)
(* The values the controller and its store exchange: the fabric, the       *)
(* commands that change it and the authority tokens that permit a change.  *)
(*                                                                         *)
(* A fabric keeps its coordinates (generation and epoch) and, in place of  *)
(* its leaves, spines, ports and links, the topology it was installed from *)
(* (base), the topology commands applied since (topo) and the evidence     *)
(* records it holds (evid).  Two fabrics with the same base and the same   *)
(* effects in the same order have the same contents.                       *)
(***************************************************************************)
EXTENDS Naturals, Sequences, FiniteSets

CONSTANTS
    Requests,       \* request ids; a retry keeps its id and its command, and
                    \* may carry a fresh token and the live coordinate
    Kind,           \* request id -> "topology", "submit" or "clear"
    Effect,         \* request id -> what the command does to the topology
    Specs,          \* fabrics an operator may install
    EmptyBase,      \* the topology of a controller that was given none
    NoFabric, NoRequest

\* A request id stands for one command, so its kind and effect are fixed.
ASSUME CommandAssumption ==
    /\ Kind \in [Requests -> {"topology", "submit", "clear"}]
    /\ Requests = DOMAIN Effect
    /\ NoRequest \notin Requests

\* One observation: who observed it, and at which coordinates.
Evidence == [req: Requests, inc: Nat, epoch: Nat, gen: Nat]

Bases == {EmptyBase} \cup {f.base : f \in Specs}

Fabric == [gen: Nat, epoch: Nat, base: Bases, topo: Seq(Requests),
           evid: SUBSET Evidence]

\* A fabric parsed from a specification file carries no command's effect; the
\* observations such a file may list are left out.
ASSUME SpecAssumption ==
    /\ \A f \in Specs : f \in Fabric /\ f.topo = <<>> /\ f.evid = {}
    /\ NoFabric \notin Fabric

\* The fabric of a first boot.
EmptyFabric ==
    [gen |-> 1, epoch |-> 1, base |-> EmptyBase, topo |-> <<>>, evid |-> {}]

IsTopologyCommand(r) == Kind[r] = "topology"

NextGeneration(g) == g + 1

\* The generation a command leaves the fabric at.
TargetGeneration(f, r) ==
    IF IsTopologyCommand(r) THEN NextGeneration(f.gen) ELSE f.gen

\* apply_command_to: every effect restamps the fabric with the target
\* generation and the epoch; a submitted observation is attributed to the
\* observer the caller names.  All observations are of one link, so clearing a
\* link's evidence leaves none.
ApplyCommand(f, r, g, e, observer) ==
    [gen   |-> g,
     epoch |-> e,
     base  |-> f.base,
     topo  |-> IF IsTopologyCommand(r) THEN Append(f.topo, r) ELSE f.topo,
     evid  |-> CASE Kind[r] = "submit" ->
                      f.evid \cup {[req |-> r, inc |-> observer,
                                    epoch |-> e, gen |-> g]}
                 [] Kind[r] = "clear" -> {}
                 [] OTHER -> f.evid]

\* The topology digest covers the coordinates and the topology, not the
\* evidence; commands of equal effect leave equal topologies.
Digest(f) ==
    [gen |-> f.gen, epoch |-> f.epoch, base |-> f.base,
     topo |-> [i \in DOMAIN f.topo |-> Effect[f.topo[i]]]]

Digests == [gen: Nat, epoch: Nat, base: Bases,
            topo: Seq({Effect[r] : r \in Requests})]

\* The coordinates and the lease an authority token is bound to.
Token(i, e, f, l) ==
    [inc |-> i, epoch |-> e, gen |-> f.gen, digest |-> Digest(f), lease |-> l]

Tokens == [inc: Nat, epoch: Nat, gen: Nat, digest: Digests, lease: Nat]

\* No command took effect twice in the contents of f.
DuplicateFree(f) ==
    /\ \A i, j \in DOMAIN f.topo : f.topo[i] = f.topo[j] => i = j
    /\ \A a, b \in f.evid : a.req = b.req => a = b
=============================================================================
