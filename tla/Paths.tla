-------------------------------- MODULE Paths --------------------------------
(***************************************************************************)
(* Path authorities: a path is assessed without the writer lock and minted *)
(* under it, while leases lapse, commands and installations change the     *)
(* fabric, the sweeper reports its health and the controller restarts.     *)
(***************************************************************************)
EXTENDS Oracle, FabricCommands

CONSTANTS
    Initial,        \* the fabric a first boot installs
    Installs,       \* fabrics an operator may install over it
    Commands,       \* governed commands
    Questions,      \* [a, b, query] a client may ask authority for
    LeaseTime,      \* lifetime of a lease
    PathTime,       \* lifetime a client may ask for a path authority
    MaxTime, MaxLeases, MaxCommands, MaxInstalls, MaxStarts, MaxCalls

ASSUME TimeAssumption == LeaseTime \in Nat \ {0} /\ PathTime \in Nat \ {0}

ASSUME ContentsAssumption ==
    /\ \A f \in Installs \cup {Initial} : WellFormed(f)
    /\ Commands \subseteq GovernedCommand

VARIABLES
    fabric,     \* fabric_ and the index over it
    me,         \* incarnation_
    epoch,      \* epoch_
    lease,      \* lease_ and the token the holder has; NoLease
    granted,    \* lease_counter_
    call,       \* the authorize_path call under way; NoCall
    issued,     \* path authorities minted so far
    sweep,      \* where the sweeper is in its loop
    report,     \* health_, the last health report
    now,        \* the wall clock
    used        \* commands, installations and calls so far

vars == <<fabric, me, epoch, lease, granted, call, issued, sweep, report, now, used>>

NoLease  == [id |-> 0]
NoCall   == [stage |-> "none"]
Asleep   == [stage |-> "asleep"]

Init ==
    /\ fabric = Initial /\ me = 1 /\ epoch = 1
    /\ lease = NoLease /\ granted = 0 /\ call = NoCall /\ issued = {}
    /\ sweep = Asleep /\ report = "none" /\ now = 0
    /\ used = [commands |-> 0, installs |-> 0, calls |-> 0]

-----------------------------------------------------------------------------
(* Tokens and path authorities.                                            *)

\* The coordinate of the live fabric under the live incarnation.
authority_context == [controller |-> me, epoch |-> epoch, gen |-> fabric.gen,
                      digest |-> TopologyDigest(fabric)]

validate_token(t) ==
    /\ lease.id = t.id
    /\ t.at = authority_context
    /\ now < t.expires

acquire_authority ==
    /\ granted < MaxLeases /\ granted' = granted + 1
    /\ lease' = [id |-> granted + 1, at |-> authority_context, expires |-> now + LeaseTime]
    /\ UNCHANGED <<fabric, me, epoch, call, issued, sweep, report, now, used>>

revoke_authority ==
    /\ lease # NoLease /\ lease' = NoLease
    /\ UNCHANGED <<fabric, me, epoch, granted, call, issued, sweep, report, now, used>>

\* An authority over the spines of an eligible answer that was computed at the
\* coordinate of the token; it carries the token's coordinate.  The token's own
\* expiry is not looked at.
mint_path_authority(answer, ttl) ==
    IF /\ answer.verdict = "eligible" /\ answer.spines # EmptyCounts
       /\ answer.at = lease.at
    THEN {[lease |-> lease.id, at |-> lease.at, from |-> answer.from, to |-> answer.to,
           spines |-> answer.spines,
           expires |-> IF ttl = 0 THEN lease.expires ELSE now + ttl]}
    ELSE {}

\* Mutation of validate_path_authority: digests are not compared.
ValidateCoordinate(a) ==
    /\ [a.at EXCEPT !.digest = 0] = [authority_context EXCEPT !.digest = 0]
    /\ lease.id = a.lease
    /\ now < a.expires

\* The digest of an authority matches its body: authorities are not altered.
validate_path_authority(a) ==
    /\ a.at = authority_context
    /\ lease.id = a.lease
    /\ now < a.expires

-----------------------------------------------------------------------------
(* authorize_path, in three steps: the index is taken, the engine works on *)
(* it with the incarnation it then reads, and the authority is minted      *)
(* under the writer lock.                                                  *)

AuthorizeRead(q) ==
    /\ call = NoCall /\ used.calls < MaxCalls
    /\ call' = [stage |-> "read", index |-> fabric, question |-> q]
    /\ used' = [used EXCEPT !.calls = @ + 1]
    /\ UNCHANGED <<fabric, me, epoch, lease, granted, issued, sweep, report, now>>

AuthorizeAssess ==
    /\ call.stage = "read"
    /\ call' = [stage |-> "assessed", question |-> call.question,
                answer |-> LET q == call.question
                           IN  assess_paths(call.index, q.a, q.b, q.query, me)]
    /\ UNCHANGED <<fabric, me, epoch, lease, granted, issued, sweep, report, now, used>>

AuthorizeMint(ttl) ==
    /\ call.stage = "assessed"
    /\ issued' = issued \cup IF lease = NoLease THEN {} ELSE mint_path_authority(call.answer, ttl)
    /\ call' = NoCall
    /\ UNCHANGED <<fabric, me, epoch, lease, granted, sweep, report, now, used>>

-----------------------------------------------------------------------------
(* Changes of the fabric.                                                  *)

\* Mutation of Refreshed: the token is left alone within a generation.
RefreshedOnChange(new) ==
    IF lease = NoLease THEN lease
    ELSE IF lease.at.gen = new.gen THEN lease
    ELSE [lease EXCEPT !.at.gen = new.gen, !.at.digest = TopologyDigest(new)]

\* The holder's token follows the fabric a command publishes.
Refreshed(new) ==
    IF lease = NoLease THEN lease
    ELSE [lease EXCEPT !.at.gen = new.gen, !.at.digest = TopologyDigest(new)]

\* The holder of the lease has a command applied.
apply(c) ==
    /\ used.commands < MaxCommands /\ used' = [used EXCEPT !.commands = @ + 1]
    /\ lease # NoLease /\ validate_token(lease)
    /\ fabric' \in Validated(fabric, c, epoch, me) /\ lease' = Refreshed(fabric')
    /\ UNCHANGED <<me, epoch, granted, call, issued, sweep, report, now>>

\* An installation does not refresh the holder's token.
install_fabric(f) ==
    /\ used.installs < MaxInstalls /\ used' = [used EXCEPT !.installs = @ + 1]
    /\ fabric' = f
    /\ UNCHANGED <<me, epoch, lease, granted, call, issued, sweep, report, now>>

-----------------------------------------------------------------------------
(* The sweeper: it reads the fabric, then under the writer lock it reports *)
(* the health of the index there is by then under the options it read, and *)
(* drops a lease that has lapsed; the report is published last.            *)

SweepRead ==
    /\ sweep = Asleep
    /\ sweep' = [stage |-> "read", options |-> fabric.options]
    /\ UNCHANGED <<fabric, me, epoch, lease, granted, call, issued, report, now, used>>

\* Mutation of Lapsed: a lease is dropped only with the next one.
NeverLapsed == lease

Lapsed == IF lease # NoLease /\ now >= lease.expires THEN NoLease ELSE lease

SweepWork ==
    /\ sweep.stage = "read"
    /\ sweep' = [stage |-> "done", found |-> health(fabric, defaults_for(sweep.options), me)]
    /\ lease' = Lapsed
    /\ UNCHANGED <<fabric, me, epoch, granted, call, issued, report, now, used>>

\* Mutation of SweepPublish: the first report stays.
PublishFirst ==
    /\ sweep.stage = "done" /\ sweep' = Asleep
    /\ report' = IF report = "none" THEN sweep.found ELSE report
    /\ UNCHANGED <<fabric, me, epoch, lease, granted, call, issued, now, used>>

SweepPublish ==
    /\ sweep.stage = "done" /\ sweep' = Asleep
    /\ report' = sweep.found
    /\ UNCHANGED <<fabric, me, epoch, lease, granted, call, issued, now, used>>

-----------------------------------------------------------------------------
(* Restarts and time.                                                      *)

\* restart(): the sweeper is joined, where it still publishes a report it has
\* computed; a call under way lives on.  The recovered fabric keeps its epoch.
restart ==
    /\ me < MaxStarts /\ me' = me + 1 /\ epoch' = epoch + 1
    /\ lease' = NoLease /\ sweep' = Asleep
    /\ report' = IF sweep.stage = "done" THEN sweep.found ELSE report
    /\ UNCHANGED <<fabric, granted, call, issued, now, used>>

\* The process is killed and started again.
Reboot ==
    /\ me < MaxStarts /\ me' = me + 1 /\ epoch' = epoch + 1
    /\ lease' = NoLease /\ granted' = 0 /\ call' = NoCall
    /\ sweep' = Asleep /\ report' = "none"
    /\ UNCHANGED <<fabric, issued, now, used>>

Tick ==
    /\ now < MaxTime /\ now' = now + 1
    /\ UNCHANGED <<fabric, me, epoch, lease, granted, call, issued, sweep, report, used>>

Next ==
    \/ acquire_authority \/ revoke_authority
    \/ \E q \in Questions : AuthorizeRead(q)
    \/ AuthorizeAssess
    \/ \E ttl \in {0, PathTime} : AuthorizeMint(ttl)
    \/ \E c \in Commands : apply(c)
    \/ \E f \in Installs : install_fabric(f)
    \/ SweepRead \/ SweepWork \/ SweepPublish
    \/ restart \/ Reboot \/ Tick

Spec == Init /\ [][Next]_vars

\* The sweeper is a thread that always runs on: it comes round again and again.
\* Each of its steps can be taken whenever it is the next one, so this is weak
\* fairness of the three.
Fairness == []<>(sweep = Asleep) /\ []<>(sweep # Asleep)

FairSpec == Spec /\ Fairness

-----------------------------------------------------------------------------
(* Properties.                                                             *)

\* A path authority that validates names spines that the configuration of the
\* live fabric allows on every leaf it touches, however assessment, minting,
\* commands, installations and restarts interleaved.
AuthorityStandsOnTopology ==
    \A a \in issued : validate_path_authority(a) =>
      \A k \in {a.from, a.to} : Tier(k) = "leaf" =>
        \A s \in DOMAIN a.spines : link_eligible_config_only(fabric, Index(k), s)

\* Unless a fabric was installed, the token the holder of a lease was last given
\* carries the live coordinate: no command fences the one who issued it.
HolderKeepsAuthority ==
    used.installs = 0 /\ lease # NoLease => lease.at = authority_context

\* A path authority still validates although the lease behind it has lapsed.
Outlives == \E a \in issued : validate_path_authority(a) /\ now >= lease.expires

\* An expired lease stops authorising anything: the sweeper ends every path
\* authority that outlives its lease.
LapsedLeaseEnds == Outlives ~> ~Outlives

\* The health report catches up with the fabric, although the sweeper mixes the
\* options of one fabric with the index of a later one.
HealthConverges ==
    <>[](report = health(fabric, defaults_for(fabric.options), me))

\* Authority is never issued for a path that cannot be proved: whenever one is
\* minted, the same question asked of the live fabric is answered eligible.
MintedIsProven ==
    [][\A a \in issued' \ issued :
         LET q == call.question
         IN  assess_paths(fabric, q.a, q.b, q.query, me).verdict = "eligible"]_vars
=============================================================================
