----------------------------- MODULE MCService -----------------------------
(***************************************************************************)
(* Two clients of two workers for TLC.  Both clients may send the same     *)
(* command; a client makes a call after one that has failed.               *)
(***************************************************************************)
EXTENDS Service, TLC

CONSTANTS c1, c2, k1

MCClients == {c1, c2}
MCScript == c1 :> <<{"query"}, {k1, "bye"}, {"query"}>> @@ c2 :> <<{k1, "malformed"}>>

\* The workers do the same.
WorkerSymmetry == Permutations(Workers)

\* For liveness, which needs the whole state graph: no command.
LiveScript == c1 :> <<{"query"}, {"damaged"}>> @@ c2 :> <<{"bye"}>>
=============================================================================
