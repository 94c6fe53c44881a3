-------------------------- MODULE LifecycleProofs --------------------------
(***************************************************************************)
(* The lifecycle of the runtime keeps its promise, for any number of       *)
(* callers and starts.                                                     *)
(*                                                                         *)
(* LifeInv is the inductive invariant.  Each lock has one holder, and the  *)
(* places of the callers say who.  A start in progress finds the runtime   *)
(* not started and no stop asked for; a stop past its request finds it     *)
(* started, so that the two exclude each other though they hold different  *)
(* locks.  A runtime that is not started has no threads.                   *)
(***************************************************************************)
EXTENDS Lifecycle, TLAPS

\* Leaves go to Zenon unless they cite another prover.
USE Zenon

Stopping == {"request", "swap", "join", "close"}

\* One holder per lock, at the places where the lock is held.
LockInv ==
    /\ \A c \in Callers : pc[c] \in Stopping <=> c \in stop_mutex
    /\ \A c, d \in stop_mutex : c = d
    /\ \A c \in Callers : pc[c] = "starting" <=> c \in writer_mutex
    /\ \A c, d \in writer_mutex : c = d

\* What a start and a stop know of the runtime on their way.
PlaceInv ==
    /\ \A c \in Callers : pc[c] = "starting" => ~started /\ ~stop_requested
    /\ \A c \in Callers : pc[c] \in {"swap", "join", "close"} => started /\ stop_requested
    /\ \A c \in Callers : pc[c] \in {"join", "close"} => workers = {}
    /\ \A c \in Callers : pc[c] # "join" => joining[c] = {}

\* Where the threads are.
CrewInv ==
    /\ NoOrphans
    /\ ~started => workers = {} /\ Alive = {}
    /\ \A c \in Callers : pc[c] = "close" => Alive = {}
    /\ \A t \in asked \cap Alive : stop_requested
    /\ \A t \in asked \cup workers : t[2] <= gen

LifeInv == TypeOK /\ LockInv /\ PlaceInv /\ CrewInv

-----------------------------------------------------------------------------
(* Every step keeps LifeInv: one lemma per step.                           *)

USE LifecycleAssumption

\* A caller that sets out holds nothing.
LEMMA CallKeeps ==
    ASSUME LifeInv, NEW c \in Callers, Call(c)
    PROVE  LifeInv'
<1>1. TypeOK'
  BY DEF LifeInv, TypeOK, Call, Goto, Places, Stages
<1>2. LockInv'
  BY DEF LifeInv, TypeOK, LockInv, Stopping, Call, Goto
<1>3. PlaceInv'
  BY SMT DEF LifeInv, TypeOK, LockInv, Stopping, PlaceInv, CrewInv, Call, Goto
<1>4. CrewInv'
  BY SMT DEF LifeInv, TypeOK, LockInv, Stopping, PlaceInv, CrewInv, NoOrphans, Alive, Call, Goto
<1> QED
  BY <1>1, <1>2, <1>3, <1>4 DEF LifeInv

\* A start takes the writer lock, and goes on only when the runtime is not started.
LEMMA StartLockKeeps ==
    ASSUME LifeInv, NEW c \in Callers, StartLock(c)
    PROVE  LifeInv'
<1>1. TypeOK'
  BY DEF LifeInv, TypeOK, StartLock, Goto, Free, Places, Stages
<1>2. LockInv'
  BY SMT DEF LifeInv, TypeOK, LockInv, Stopping, StartLock, Goto, Free
<1>3. PlaceInv'
  BY SMT DEF LifeInv, TypeOK, LockInv, Stopping, PlaceInv, CrewInv, StartLock, Goto, Free
<1>4. CrewInv'
  BY SMT DEF LifeInv, TypeOK, LockInv, Stopping, PlaceInv, CrewInv, NoOrphans, Alive, StartLock, Goto, Free
<1> QED
  BY <1>1, <1>2, <1>3, <1>4 DEF LifeInv

\* A start that fails leaves the runtime as it was.
LEMMA StartFailsKeeps ==
    ASSUME LifeInv, NEW c \in Callers, StartFails(c)
    PROVE  LifeInv'
<1>1. TypeOK'
  BY DEF LifeInv, TypeOK, StartFails, Goto, Places, Stages
<1>2. LockInv'
  BY DEF LifeInv, TypeOK, LockInv, Stopping, StartFails, Goto
<1>3. PlaceInv'
  BY DEF LifeInv, TypeOK, LockInv, Stopping, PlaceInv, CrewInv, StartFails, Goto
<1>4. CrewInv'
  BY DEF LifeInv, TypeOK, LockInv, Stopping, PlaceInv, CrewInv, NoOrphans, Alive, StartFails, Goto
<1> QED
  BY <1>1, <1>2, <1>3, <1>4 DEF LifeInv

\* A start brings up a crew nobody has asked to stop.
LEMMA StartWorkersKeeps ==
    ASSUME LifeInv, NEW c \in Callers, StartWorkers(c)
    PROVE  LifeInv'
<1>1. TypeOK'
  BY SMT DEF LifeInv, TypeOK, StartWorkers, Goto, Crew, Threads, Places, Stages
<1>2. LockInv'
  BY DEF LifeInv, TypeOK, LockInv, Stopping, StartWorkers, Goto
<1>3. PlaceInv'
  BY SMT DEF LifeInv, TypeOK, LockInv, Stopping, PlaceInv, CrewInv, StartWorkers, Goto
<1>4. CrewInv'
  BY SMT DEF LifeInv, TypeOK, LockInv, Stopping, PlaceInv, CrewInv, NoOrphans, Alive, StartWorkers, Goto, Crew, Threads
<1> QED
  BY <1>1, <1>2, <1>3, <1>4 DEF LifeInv

\* A stop takes stop_mutex_.
LEMMA StopLockKeeps ==
    ASSUME LifeInv, NEW c \in Callers, StopLock(c)
    PROVE  LifeInv'
<1>1. TypeOK'
  BY DEF LifeInv, TypeOK, StopLock, Goto, Places, Stages
<1>2. LockInv'
  BY DEF LifeInv, TypeOK, LockInv, Stopping, StopLock, Goto
<1>3. PlaceInv'
  BY DEF LifeInv, TypeOK, LockInv, Stopping, PlaceInv, CrewInv, StopLock, Goto
<1>4. CrewInv'
  BY DEF LifeInv, TypeOK, LockInv, Stopping, PlaceInv, CrewInv, NoOrphans, Alive, StopLock, Goto
<1> QED
  BY <1>1, <1>2, <1>3, <1>4 DEF LifeInv

\* A stop has nothing to do, or asks the threads of a started runtime to end.
LEMMA StopRequestKeeps ==
    ASSUME LifeInv, NEW c \in Callers, StopRequest(c)
    PROVE  LifeInv'
<1>1. TypeOK'
  BY DEF LifeInv, TypeOK, StopRequest, Goto, Free, Return, Places, Stages
<1>2. LockInv'
  BY SMT DEF LifeInv, TypeOK, LockInv, Stopping, StopRequest, Goto, Free, Return
<1>3. PlaceInv'
  BY SMT DEF LifeInv, TypeOK, LockInv, Stopping, PlaceInv, CrewInv, StopRequest, Goto, Free, Return
<1>4. CrewInv'
  BY SMT DEF LifeInv, TypeOK, LockInv, Stopping, PlaceInv, CrewInv, NoOrphans, Alive, StopRequest, Goto, Free, Return
<1> QED
  BY <1>1, <1>2, <1>3, <1>4 DEF LifeInv

\* The threads pass from the worker vector to the stop.
LEMMA StopSwapKeeps ==
    ASSUME LifeInv, NEW c \in Callers, StopSwap(c)
    PROVE  LifeInv'
<1>1. TypeOK'
  BY DEF LifeInv, TypeOK, StopSwap, Goto, Free, Places, Stages
<1>2. LockInv'
  BY DEF LifeInv, TypeOK, LockInv, Stopping, StopSwap, Goto, Free
<1>3. PlaceInv'
  BY DEF LifeInv, TypeOK, LockInv, Stopping, PlaceInv, CrewInv, StopSwap, Goto, Free
<1>4. CrewInv'
  BY DEF LifeInv, TypeOK, LockInv, Stopping, PlaceInv, CrewInv, NoOrphans, Alive, StopSwap, Goto, Free
<1> QED
  BY <1>1, <1>2, <1>3, <1>4 DEF LifeInv

\* Nobody lives after the join.
LEMMA StopJoinKeeps ==
    ASSUME LifeInv, NEW c \in Callers, StopJoin(c)
    PROVE  LifeInv'
<1>1. TypeOK'
  BY DEF LifeInv, TypeOK, StopJoin, Goto, Places, Stages
<1>2. LockInv'
  BY DEF LifeInv, TypeOK, LockInv, Stopping, StopJoin, Goto
<1>3. PlaceInv'
  BY SMT DEF LifeInv, TypeOK, LockInv, Stopping, PlaceInv, CrewInv, StopJoin, Goto
<1>4. CrewInv'
  BY SMT DEF LifeInv, TypeOK, LockInv, Stopping, PlaceInv, CrewInv, NoOrphans, Alive, StopJoin, Goto
<1> QED
  BY <1>1, <1>2, <1>3, <1>4 DEF LifeInv

\* The runtime is down, and has no threads.
LEMMA StopCloseKeeps ==
    ASSUME LifeInv, NEW c \in Callers, StopClose(c)
    PROVE  LifeInv'
<1>1. TypeOK'
  BY DEF LifeInv, TypeOK, StopClose, Goto, Free, Return, Places, Stages
<1>2. LockInv'
  BY SMT DEF LifeInv, TypeOK, LockInv, Stopping, StopClose, Goto, Free, Return
<1>3. PlaceInv'
  BY SMT DEF LifeInv, TypeOK, LockInv, Stopping, PlaceInv, CrewInv, StopClose, Goto, Free, Return
<1>4. CrewInv'
  BY DEF LifeInv, TypeOK, LockInv, Stopping, PlaceInv, CrewInv, NoOrphans, Alive, StopClose, Goto, Free, Return
<1> QED
  BY <1>1, <1>2, <1>3, <1>4 DEF LifeInv

\* A background thread moves: it lives on, or ends.
LEMMA ThreadKeeps ==
    ASSUME LifeInv, NEW t \in Threads, Thread(t)
    PROVE  LifeInv'
<1>1. PICK stage \in Stages : at[t] \notin {"none", "ended"} /\ Move(t, stage)
  BY DEF Thread, Wake, Enter, Act, Stages
<1>2. Alive' \subseteq Alive
  BY <1>1 DEF LifeInv, TypeOK, Alive, Move
<1>3. TypeOK'
  BY <1>1 DEF LifeInv, TypeOK, Move
<1>4. LockInv' /\ PlaceInv'
  BY <1>1 DEF LifeInv, LockInv, PlaceInv, Move
<1>5. CrewInv'
  BY <1>1, <1>2 DEF LifeInv, CrewInv, NoOrphans, Move
<1> QED
  BY <1>3, <1>4, <1>5 DEF LifeInv

\* Nothing has happened yet.
LEMMA LifeInvInitially == Init => LifeInv
<1> SUFFICES ASSUME Init PROVE LifeInv
  OBVIOUS
<1>1. TypeOK
  <2>1. again \in [Callers -> BOOLEAN] /\ joining \in [Callers -> SUBSET Threads]
    BY DEF Init
  <2>2. at \in [Threads -> Stages] /\ pc \in [Callers -> Places]
    BY DEF Init, Stages, Places
  <2>3. gen \in 0..MaxStarts
    BY SMT DEF Init
  <2>4. started \in BOOLEAN /\ stop_requested \in BOOLEAN
    BY DEF Init
  <2>5. workers \subseteq Threads /\ asked \subseteq Threads /\ stop_mutex \subseteq Callers
        /\ writer_mutex \subseteq Callers
    BY DEF Init
  <2> QED
    BY <2>1, <2>2, <2>3, <2>4, <2>5 DEF TypeOK
<1>2. Alive = {}
  BY DEF Init, Alive
<1>3. LockInv /\ PlaceInv
  BY DEF Init, LockInv, PlaceInv, Stopping
<1>4. CrewInv
  BY <1>2 DEF Init, CrewInv, NoOrphans
<1> QED
  BY <1>1, <1>3, <1>4 DEF LifeInv

\* LifeInv holds throughout.
THEOREM LifecycleInvariant == Spec => []LifeInv
<1>1. LifeInv /\ [Next]_vars => LifeInv'
  <2> SUFFICES ASSUME LifeInv, [Next]_vars
               PROVE  LifeInv'
    OBVIOUS
  <2>1. CASE UNCHANGED vars
    BY <2>1 DEF vars, LifeInv, TypeOK, LockInv, PlaceInv, CrewInv, NoOrphans, Alive
  <2>2. ASSUME NEW c \in Callers, Call(c) \/ Caller(c)
        PROVE  LifeInv'
    BY <2>2, CallKeeps, StartLockKeeps, StartFailsKeeps, StartWorkersKeeps, StopLockKeeps,
       StopRequestKeeps, StopSwapKeeps, StopJoinKeeps, StopCloseKeeps DEF Caller
  <2>3. ASSUME NEW t \in Threads, Thread(t)
        PROVE  LifeInv'
    BY <2>3, ThreadKeeps
  <2> QED
    BY <2>1, <2>2, <2>3 DEF Next
<1> QED
  BY <1>1, LifeInvInitially, PTL DEF Spec

\* No thread is joined under the writer lock.
THEOREM JoinsWithoutLock == Spec => []NoJoinUnderLock
<1>1. LifeInv => NoJoinUnderLock
  BY DEF LifeInv, PlaceInv, CrewInv, NoJoinUnderLock
<1> QED
  BY <1>1, LifecycleInvariant, PTL

\* Every thread that lives is in the worker vector or being joined.
THEOREM ThreadsAreHeld == Spec => []NoOrphans
<1>1. LifeInv => NoOrphans
  BY DEF LifeInv, CrewInv
<1> QED
  BY <1>1, LifecycleInvariant, PTL

-----------------------------------------------------------------------------
(* The refinement: each step is a step of the promise, or changes nothing  *)
(* the promise speaks of.                                                  *)

\* A thread ends only after a stop was asked for.
LEMMA ThreadRefines ==
    ASSUME LifeInv, NEW t \in Threads, Thread(t)
    PROVE  [Promised!Next]_(Promised!vars)
<1>1. UNCHANGED <<started, stop_requested, gen>>
  BY DEF Thread, Wake, Enter, Act, Move
<1>2. t \in Alive
  BY DEF Thread, Wake, Enter, Act, Alive
<1>3. CASE \E stage \in {"sleep", "want", "act"} : Move(t, stage)
  <2>1. Alive' = Alive
    BY <1>2, <1>3 DEF LifeInv, TypeOK, Alive, Move
  <2> QED
    BY <1>1, <2>1 DEF Promised!vars
<1>4. CASE Move(t, "ended")
  <2>1. Alive' = Alive \ {t}
    BY <1>4 DEF LifeInv, TypeOK, Alive, Move
  <2>2. started
    BY <1>2 DEF LifeInv, CrewInv
  <2>3. stop_requested
    BY <1>2, <1>4, <2>2 DEF LifeInv, TypeOK, CrewInv, Thread, Wake, Enter, Act, Move
  <2>4. Promised!Leave
    BY <1>1, <1>2, <2>1, <2>3 DEF Promised!Leave
  <2> QED
    BY <2>4 DEF Promised!Next
<1> QED
  BY <1>3, <1>4 DEF Thread, Wake, Enter, Act

\* A caller starts, is refused, asks, or takes the runtime down.
LEMMA CallerRefines ==
    ASSUME LifeInv, NEW c \in Callers, Call(c) \/ Caller(c)
    PROVE  [Promised!Next]_(Promised!vars)
<1>1. CASE Call(c) \/ StartFails(c) \/ StopLock(c) \/ StopSwap(c) \/ StopJoin(c)
  <2>1. UNCHANGED <<started, stop_requested, gen, at>>
    BY <1>1 DEF Call, StartFails, StopLock, StopSwap, StopJoin
  <2> QED
    BY <2>1 DEF Promised!vars, Alive
<1>2. CASE StartLock(c)
  <2>1. CASE started
    BY <1>2, <2>1 DEF StartLock, Promised!vars, Alive
  <2>2. CASE ~started
    <3>1. Promised!Refused
      BY <1>2, <2>2 DEF StartLock, Promised!Refused, Alive
    <3> QED
      BY <3>1 DEF Promised!Next
  <2> QED
    BY <2>1, <2>2
<1>3. CASE StartWorkers(c)
  <2>1. ~started /\ ~stop_requested /\ Alive = {}
    BY <1>3 DEF LifeInv, PlaceInv, CrewInv, StartWorkers
  <2>2. Crew(gen + 1) = Kinds \X {gen + 1}
    BY SMT, <1>3 DEF LifeInv, TypeOK, StartWorkers, Crew, Threads
  <2>3. Alive' = Crew(gen + 1)
    BY <1>3, <2>1 DEF StartWorkers, Alive, Crew
  <2>4. started' = TRUE /\ gen' = gen + 1
    BY <1>3 DEF StartWorkers
  <2>5. stop_requested' = FALSE
    BY <1>3, <2>1 DEF LifeInv, TypeOK, StartWorkers
  <2>6. Promised!Up
    BY <2>1, <2>2, <2>3, <2>4, <2>5 DEF Promised!Up
  <2> QED
    BY <2>6 DEF Promised!Next
<1>4. CASE StopRequest(c)
  <2>1. CASE ~started /\ workers = {}
    BY <1>4, <2>1 DEF StopRequest, Promised!vars, Alive
  <2>2. CASE started \/ workers # {}
    <3>1. started
      BY <2>2 DEF LifeInv, CrewInv
    <3>2. Promised!Ask
      BY <1>4, <3>1 DEF StopRequest, Promised!Ask, Alive
    <3> QED
      BY <3>2 DEF Promised!Next
  <2> QED
    BY <2>1, <2>2
<1>5. CASE StopClose(c)
  <2>1. started /\ stop_requested /\ Alive = {}
    BY <1>5 DEF LifeInv, PlaceInv, CrewInv, StopClose
  <2>2. Promised!Down
    BY <1>5, <2>1 DEF StopClose, Promised!Down, Alive
  <2> QED
    BY <2>2 DEF Promised!Next
<1> QED
  BY <1>1, <1>2, <1>3, <1>4, <1>5 DEF Caller

\* start, stop and restart, called from any threads, keep the promise: one crew
\* per start, nobody leaves unasked, and down means everybody has left.
THEOREM LifecycleKeepsPromise == Spec => KeepsPromise
<1>1. Init => Promised!Init
  BY DEF Init, Promised!Init, Alive
<1>2. LifeInv /\ [Next]_vars => [Promised!Next]_(Promised!vars)
  <2>1. CASE UNCHANGED vars
    BY <2>1 DEF vars, Promised!vars, Alive
  <2>2. LifeInv /\ Next => [Promised!Next]_(Promised!vars)
    BY CallerRefines, ThreadRefines DEF Next
  <2> QED
    BY <2>1, <2>2
<1> QED
  BY <1>1, <1>2, LifecycleInvariant, PTL DEF Spec, KeepsPromise, Promised!Spec
=============================================================================
