------------------------------ MODULE Promise ------------------------------
(***************************************************************************)
(* What the lifecycle of the controller runtime promises: a start brings   *)
(* up one crew of background threads, no thread leaves before a stop is    *)
(* asked for, and the runtime is down only once the whole crew is gone.    *)
(***************************************************************************)
EXTENDS Naturals

CONSTANT Kinds      \* the kinds of background threads

VARIABLES
    on,         \* the runtime is started
    ending,     \* a stop has been asked for since the last start
    gen,        \* starts so far
    crew        \* background threads that have not ended

vars == <<on, ending, gen, crew>>

Init == on = FALSE /\ ending = FALSE /\ gen = 0 /\ crew = {}

Up ==
    /\ ~on /\ on' = TRUE /\ ending' = FALSE
    /\ gen' = gen + 1
    /\ crew = {} /\ crew' = Kinds \X {gen + 1}

\* A start that is refused.
Refused == ~on /\ ending' = FALSE /\ UNCHANGED <<on, gen, crew>>

Ask == on /\ ending' = TRUE /\ UNCHANGED <<on, gen, crew>>

Leave == ending /\ \E t \in crew : crew' = crew \ {t} /\ UNCHANGED <<on, ending, gen>>

Down == on /\ ending /\ crew = {} /\ on' = FALSE /\ UNCHANGED <<ending, gen, crew>>

Next == Up \/ Refused \/ Ask \/ Leave \/ Down

Spec == Init /\ [][Next]_vars
=============================================================================
