----------------------------- MODULE Lifecycle -----------------------------
(***************************************************************************)
(* The threads of the controller runtime: callers of start, stop and       *)
(* restart, the sweeper and the compactor, with the locks between them.    *)
(*                                                                         *)
(* A critical section of the writer lock that waits for nothing is one     *)
(* step, taken while the lock is free; start() holds it over two steps     *)
(* because clearing the worker vector joins what is left in it.  What the  *)
(* critical sections do to the fabric and the store is in Controller.      *)
(***************************************************************************)
EXTENDS Naturals

CONSTANTS
    Callers,        \* threads that call start, stop or restart
    Kinds,          \* background threads per start (worker_threads)
    MaxStarts       \* bound of the model: successful starts

ASSUME LifecycleAssumption ==
    Kinds \subseteq {"sweeper", "compactor"} /\ MaxStarts \in Nat

VARIABLES
    started,        \* started_
    stop_requested, \* stop_requested_
    workers,        \* workers_
    asked,          \* threads whose stop token was requested
    gen,            \* starts so far
    at,             \* where each background thread is in its loop
    pc,             \* where each caller is
    again,          \* a caller's stop is followed by a start (restart)
    joining,        \* the threads a caller has swapped out to join
    stop_mutex,     \* holders: {} or one caller
    writer_mutex

vars == <<started, stop_requested, workers, asked, gen, at, pc, again, joining,
          stop_mutex, writer_mutex>>

Threads == Kinds \X (1..MaxStarts)
Stages == {"none", "sleep", "want", "act", "ended"}
Places == {"idle", "start", "starting", "stop", "request", "swap", "join", "close"}
Crew(n) == {t \in Threads : t[2] = n}
Alive == {t \in Threads : at[t] \notin {"none", "ended"}}

TypeOK ==
    /\ started \in BOOLEAN /\ stop_requested \in BOOLEAN
    /\ workers \subseteq Threads /\ asked \subseteq Threads
    /\ gen \in 0..MaxStarts
    /\ at \in [Threads -> Stages]
    /\ pc \in [Callers -> Places] /\ again \in [Callers -> BOOLEAN]
    /\ joining \in [Callers -> SUBSET Threads]
    /\ stop_mutex \subseteq Callers /\ writer_mutex \subseteq Callers

Init ==
    /\ started = FALSE /\ stop_requested = FALSE
    /\ workers = {} /\ asked = {} /\ gen = 0
    /\ at = [t \in Threads |-> "none"]
    /\ pc = [c \in Callers |-> "idle"] /\ again = [c \in Callers |-> FALSE]
    /\ joining = [c \in Callers |-> {}]
    /\ stop_mutex = {} /\ writer_mutex = {}

Goto(c, place) == pc' = [pc EXCEPT ![c] = place]
Free == writer_mutex = {}

-----------------------------------------------------------------------------
(* A caller decides what to do: start, stop, or restart.                   *)

Call(c) ==
    /\ pc[c] = "idle"
    /\ \/ Goto(c, "start") /\ UNCHANGED again
       \/ \E r \in BOOLEAN : Goto(c, "stop") /\ again' = [again EXCEPT ![c] = r]
    /\ UNCHANGED <<started, stop_requested, workers, asked, gen, at, joining,
                   stop_mutex, writer_mutex>>

-----------------------------------------------------------------------------
(* start().                                                                *)

\* The writer lock is taken; a runtime that is started is left alone.
StartLock(c) ==
    /\ pc[c] = "start" /\ Free
    /\ IF started
       THEN Goto(c, "idle") /\ UNCHANGED <<stop_requested, writer_mutex>>
       ELSE /\ Goto(c, "starting") /\ stop_requested' = FALSE
            /\ writer_mutex' = {c}
    /\ UNCHANGED <<started, workers, asked, gen, at, again, joining, stop_mutex>>

\* Recovery or the new segment fails.
StartFails(c) ==
    /\ pc[c] = "starting"
    /\ Goto(c, "idle") /\ writer_mutex' = {}
    /\ UNCHANGED <<started, stop_requested, workers, asked, gen, at, again, joining,
                   stop_mutex>>

\* start_workers_locked: the vector is cleared, which joins the threads in it,
\* and filled with a new crew.
StartWorkers(c) ==
    /\ pc[c] = "starting" /\ gen < MaxStarts
    /\ \A t \in workers : at[t] = "ended"
    /\ gen' = gen + 1 /\ workers' = Crew(gen + 1)
    /\ at' = [t \in Threads |-> IF t \in Crew(gen + 1) THEN "sleep" ELSE at[t]]
    /\ started' = TRUE
    /\ Goto(c, "idle") /\ writer_mutex' = {}
    /\ UNCHANGED <<stop_requested, asked, again, joining, stop_mutex>>

-----------------------------------------------------------------------------
(* stop(), under stop_mutex_ throughout.                                   *)

StopLock(c) ==
    /\ pc[c] = "stop" /\ stop_mutex = {}
    /\ Goto(c, "request") /\ stop_mutex' = {c}
    /\ UNCHANGED <<started, stop_requested, workers, asked, gen, at, again, joining,
                   writer_mutex>>

\* restart() goes on with start().
Return(c) ==
    /\ Goto(c, IF again[c] THEN "start" ELSE "idle")
    /\ stop_mutex' = {}

StopRequest(c) ==
    /\ pc[c] = "request" /\ Free
    /\ IF ~started /\ workers = {}
       THEN Return(c) /\ UNCHANGED <<stop_requested, asked>>
       ELSE /\ Goto(c, "swap") /\ stop_requested' = TRUE
            /\ asked' = asked \cup workers
            /\ UNCHANGED stop_mutex
    /\ UNCHANGED <<started, workers, gen, at, again, joining, writer_mutex>>

\* Mutation of StopSwap: the vector keeps the threads.
StopCopy(c) ==
    /\ pc[c] = "swap" /\ Free
    /\ joining' = [joining EXCEPT ![c] = workers]
    /\ Goto(c, "join")
    /\ UNCHANGED <<started, stop_requested, workers, asked, gen, at, again, stop_mutex,
                   writer_mutex>>

StopSwap(c) ==
    /\ pc[c] = "swap" /\ Free
    /\ joining' = [joining EXCEPT ![c] = workers] /\ workers' = {}
    /\ Goto(c, "join")
    /\ UNCHANGED <<started, stop_requested, asked, gen, at, again, stop_mutex,
                   writer_mutex>>

\* Mutation of StopJoin: the threads are let go.
StopDetach(c) ==
    /\ pc[c] = "join"
    /\ joining' = [joining EXCEPT ![c] = {}]
    /\ Goto(c, "close")
    /\ UNCHANGED <<started, stop_requested, workers, asked, gen, at, again, stop_mutex,
                   writer_mutex>>

\* No lock is held but stop_mutex_.
StopJoin(c) ==
    /\ pc[c] = "join" /\ \A t \in joining[c] : at[t] = "ended"
    /\ joining' = [joining EXCEPT ![c] = {}]
    /\ Goto(c, "close")
    /\ UNCHANGED <<started, stop_requested, workers, asked, gen, at, again, stop_mutex,
                   writer_mutex>>

\* The lease goes and the store is closed; when that fails, a restart ends here.
StopClose(c) ==
    /\ pc[c] = "close" /\ Free
    /\ started' = FALSE
    /\ Return(c) \/ (Goto(c, "idle") /\ stop_mutex' = {})
    /\ UNCHANGED <<stop_requested, workers, asked, gen, at, again, joining, writer_mutex>>

-----------------------------------------------------------------------------
(* sweeper_loop and compactor_loop.                                        *)

Move(t, stage) ==
    /\ at' = [at EXCEPT ![t] = stage]
    /\ UNCHANGED <<started, stop_requested, workers, asked, gen, pc, again, joining,
                   stop_mutex, writer_mutex>>

\* Mutation of Wake: only the sweeper's look under the lock ends a thread.
WakeAnyway(t) == at[t] = "sleep" /\ Move(t, "want")

\* After a sleep the thread looks whether it is to stop.
Wake(t) ==
    /\ at[t] = "sleep"
    /\ Move(t, IF t \in asked \/ stop_requested THEN "ended" ELSE "want")

\* The sweeper looks again under the lock; the compactor reads its counter there,
\* and goes on to compact when there is enough to do.
Enter(t) ==
    /\ at[t] = "want" /\ Free
    /\ IF t[1] = "sweeper"
       THEN Move(t, IF ~started \/ stop_requested THEN "ended" ELSE "act")
       ELSE \E stage \in {"act", "sleep"} : Move(t, stage)

\* Mutation of Act: a compaction is a compactor's last.
ActOnce(t) ==
    /\ at[t] = "act" /\ (t[1] = "compactor" => Free)
    /\ Move(t, IF t[1] = "compactor" THEN "ended" ELSE "sleep")

\* The sweeper publishes its report; the compactor takes the lock again and
\* writes a snapshot unless the runtime is not started.
Act(t) ==
    /\ at[t] = "act" /\ (t[1] = "compactor" => Free)
    /\ Move(t, "sleep")

-----------------------------------------------------------------------------
Caller(c) ==
    \/ StartLock(c) \/ StartFails(c) \/ StartWorkers(c)
    \/ StopLock(c) \/ StopRequest(c) \/ StopSwap(c) \/ StopJoin(c) \/ StopClose(c)
Thread(t) == Wake(t) \/ Enter(t) \/ Act(t)

Next == (\E c \in Callers : Call(c) \/ Caller(c)) \/ (\E t \in Threads : Thread(t))

Spec == Init /\ [][Next]_vars

\* Every thread runs on, and a lock that is free again and again is got: its
\* holders sleep, or return to their callers, between two sections.
FairSpec ==
    /\ Spec
    /\ \A c \in Callers : SF_vars(Caller(c))
    /\ \A t \in Threads : WF_vars(Thread(t))

-----------------------------------------------------------------------------
(* Properties.                                                             *)

\* When start() comes to clear the worker vector it is empty, so that no thread
\* is joined under the writer lock, which the thread may be waiting for.
NoJoinUnderLock == \A c \in Callers : pc[c] = "starting" => workers = {}

\* Every background thread that lives is in the worker vector or in the hands of
\* the one stop that is joining it.
NoOrphans ==
    \A t \in Alive : t \in workers \/ \E c \in stop_mutex : t \in joining[c]

\* A stop, and the start of a restart, come to an end.
CallsReturn == \A c \in Callers : pc[c] = "stop" ~> pc[c] = "idle"

\* start, stop and restart, called from any threads, keep the promise: one crew
\* per start, nobody leaves unasked, and down means everybody has left.
Promised ==
    INSTANCE Promise WITH on <- started, ending <- stop_requested, crew <- Alive

KeepsPromise == Promised!Spec
=============================================================================
