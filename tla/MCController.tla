---------------------------- MODULE MCController ----------------------------
(***************************************************************************)
(* Small instances of the controller for TLC.                              *)
(***************************************************************************)
EXTENDS ControllerInv, TLC

CONSTANTS r1, r2, r3, r4, base

\* r1 and r2 change the topology in the same way, r3 submits an observation and
\* r4 clears the evidence.
Kinds == (r1 :> "topology") @@ (r2 :> "topology") @@ (r3 :> "submit")
           @@ (r4 :> "clear")
MCKind == [r \in Requests |-> Kinds[r]]
MCEffect == [r \in Requests |-> Kinds[r]]

MCSpecs == {[gen |-> 1, epoch |-> 1, base |-> base, topo |-> <<>>, evid |-> {}]}
=============================================================================
