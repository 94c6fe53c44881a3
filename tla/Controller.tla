----------------------------- MODULE Controller -----------------------------
(***************************************************************************)
(* The controller runtime over its store: recovery and start, leases and   *)
(* tokens, governed commands, installation, compaction, stop, and a kill   *)
(* of the process at any point.  start() is cut into the steps between     *)
(* which a kill leaves a different directory; every other operation holds  *)
(* the writer lock, so it is one step, or two where a kill between the     *)
(* durable commit and the publication is what matters.                     *)
(***************************************************************************)
EXTENDS FabricStore

CONSTANTS
    MaxDedup,       \* max_dedup_entries
    MaxStarts,      \* bound of the model: calls of start()
    MaxInstalls,    \* bound of the model: calls of install_fabric()
    MaxGrants,      \* bound of the model: leases asked for
    Compacting,     \* whether anyone compacts (a request or the compactor)
    Expiring,       \* whether the run lasts longer than a lease
    NoLease, NoPending

VARIABLES
    phase,          \* where the runtime is in its life
    inc,            \* incarnation_ (a fresh one per start)
    epoch,          \* the recovered epoch while scanning, then epoch_
    fabric,         \* recovered_fabric while starting, then fabric_
    cursor,         \* the last record read by the replay
    doomed,         \* segments the pruning has still to remove
    lease,          \* the token of the active lease
    expired,        \* the expiry time of the active lease has passed
    leases,         \* lease_counter_, a member of the process
    dedup,          \* the results remembered for the exactly-once window
    pending,        \* the commit that is durable but not yet published
    installs        \* installations so far

\* History: what the clients and the operator have seen so far.
VARIABLES
    issued,         \* tokens handed out, with the grant they belong to
    grants,         \* leases granted
    replies,        \* successful results returned to clients
    observed,       \* <<request, incarnation>> of every durable command
    published,      \* the fabric last shown to readers
    maybe,          \* fabrics whose commit may be durable, not yet shown
    topEpoch,       \* the highest epoch an incarnation was live at
    pruning         \* "no", "removing", or "cut" once a kill cut one short

boot == <<cursor, doomed>>
leaseVars == <<lease, expired, leases>>
window == <<dedup, pending>>
authority == <<issued, grants>>
effects == <<published, maybe, observed>>
lifetime == <<topEpoch, pruning>>
history == <<authority, replies, effects, lifetime>>
vars == <<storeVars, phase, inc, epoch, fabric, boot, leaseVars, window,
          installs, history>>

Starting == {"scan", "prune", "create", "announce", "baseline"}
\* Not running; "refused" when that is start()'s verdict on the directory.
Halted == {"down", "refused"}
Phases == Starting \cup Halted \cup {"up", "commit"}

\* Mutation of Result: the epoch of the commit is not recorded.
ResultWithoutEpoch(r, g, e) == [req |-> r, gen |-> g]

Result(r, g, e) == [req |-> r, gen |-> g, epoch |-> e]
Results == [req: Requests, gen: Nat, epoch: Nat]

\* A commit under way; an installation carries no request.
Commits == [req: Requests \cup {NoRequest}, fab: Fabric]

ASSUME ControllerAssumption ==
    /\ MaxDedup \in Nat /\ MaxStarts \in Nat /\ MaxInstalls \in Nat
    /\ MaxGrants \in Nat /\ Compacting \in BOOLEAN /\ Expiring \in BOOLEAN
    /\ NoLease \notin Tokens /\ NoPending \notin Commits

Init ==
    /\ StoreInit
    /\ phase = "down" /\ inc = 0 /\ epoch = 0 /\ fabric = NoFabric
    /\ cursor = 0 /\ doomed = {}
    /\ lease = NoLease /\ expired = FALSE /\ leases = 0
    /\ dedup = {} /\ pending = NoPending /\ installs = 0
    /\ issued = {} /\ grants = 0 /\ replies = {} /\ observed = {}
    /\ published = NoFabric /\ maybe = {} /\ topEpoch = 0
    /\ pruning = "no"

Rec(type, g, r, f) ==
    [type |-> type, seg |-> seg, inc |-> inc, epoch |-> epoch, gen |-> g,
     req |-> r, fab |-> f]

\* The runtime halts.  What a kill destroys, and start() initialises before it
\* reads it, is cleared; a start that was removing segments stays cut short.
Halt ==
    /\ phase' = "down"
    /\ epoch' = 0 /\ fabric' = NoFabric /\ cursor' = 0 /\ doomed' = {}
    /\ lease' = NoLease /\ expired' = FALSE
    /\ dedup' = {} /\ pending' = NoPending
    /\ seg' = 0 /\ last' = 0 /\ poisoned' = FALSE
    /\ pruning' = IF pruning = "removing" THEN "cut" ELSE pruning
    /\ UNCHANGED <<inc, installs, authority, replies, topEpoch>>

-----------------------------------------------------------------------------
(* start(): recovery.                                                      *)

FatalStatuses == {"Corrupt", "ChainBroken"}

\* start() begins: a fresh incarnation, an empty exactly-once window, and the
\* directory is listed, classified and its snapshot loaded.  It is a start of
\* the same object, whose lease counter goes on, or of a new process.
StartRecovery ==
    /\ phase \in Halted /\ inc < MaxStarts
    /\ inc' = inc + 1 /\ epoch' = 0 /\ cursor' = 0 /\ dedup' = {}
    /\ phase' = IF Status \in FatalStatuses THEN "refused" ELSE "scan"
    /\ fabric' = IF snapshot = NoSnapshot THEN NoFabric ELSE snapshot.fab
    /\ last' = Watermark
    /\ \/ DOMAIN tails = {} /\ seg' = 1
       \/ \E g \in DOMAIN tails : IsNewest(g, DOMAIN tails) /\ seg' = g + 1
    /\ leases' \in {0, leases}
    /\ UNCHANGED <<disk, poisoned, faults, doomed, lease, expired, pending,
                   installs, history>>

Larger(a, b) == IF a > b THEN a ELSE b

\* Mutation of Remember: a replay does not fill the window.
RememberNothing(d, rec) == d

\* The exactly-once window is filled from the commits, up to its bound.
Remember(d, rec) ==
    IF Cardinality(d) < MaxDedup
    THEN d \cup {Result(rec.req, rec.gen, rec.epoch)} ELSE d

\* Mutation of Replayed: observations are attributed to the incarnation that
\* replays them.
ReplayedByReader(f, rec) ==
    CASE rec.type = "FabricSnapshot" -> rec.fab
      [] rec.type = "CommandCommit" /\ f # NoFabric ->
           ApplyCommand(f, rec.req, rec.gen, rec.epoch, inc)
      [] OTHER -> f

\* What replaying one record makes of the recovered fabric.
Replayed(f, rec) ==
    CASE rec.type = "FabricSnapshot" -> rec.fab
      [] rec.type = "CommandCommit" /\ f # NoFabric ->
           ApplyCommand(f, rec.req, rec.gen, rec.epoch, rec.inc)
      [] OTHER -> f

\* Mutation of NextRecord: the replay does not get past a record.
SameRecord(s) == s >= cursor /\ \A t \in DOMAIN log : t >= cursor => s <= t

\* Records are read in the order of their numbers.
NextRecord(s) == s > cursor /\ \A t \in DOMAIN log : t > cursor => s <= t

\* One record is read: it counts for the epoch and the numbering even when
\* the snapshot covers it, and is replayed when the snapshot does not.
ScanRecord(s) ==
    /\ phase = "scan" /\ NextRecord(s)
    /\ cursor' = s
    /\ epoch' = Larger(epoch, log[s].epoch)
    /\ last' = Larger(last, s)
    /\ fabric' = IF Covered(s) THEN fabric ELSE Replayed(fabric, log[s])
    /\ dedup' = IF Covered(s) \/ log[s].type # "CommandCommit" THEN dedup
                ELSE Remember(dedup, log[s])
    /\ UNCHANGED <<disk, seg, poisoned, faults, phase, inc, doomed,
                   leaseVars, pending, installs, history>>

Scanned == phase = "scan" /\ \A t \in DOMAIN log : t <= cursor

\* Another segment would exceed the bound, and there is a state to snapshot.
AtBound ==
    /\ fabric # NoFabric /\ DOMAIN tails # {}
    /\ Cardinality(DOMAIN tails) + 1 > MaxSegments

\* The recovered state is snapshotted, covering what the newest segment holds,
\* before the segments are removed.
Prune ==
    /\ Scanned /\ AtBound
    /\ \E g \in DOMAIN tails, w \in {0} \cup DOMAIN log :
         /\ IsNewest(g, DOMAIN tails) /\ IsLastSequence(w, g)
         /\ WriteSnapshot(fabric, w)
    /\ phase' = "prune" /\ doomed' = DOMAIN tails /\ cursor' = 0
    /\ UNCHANGED <<log, tails, writer, faults, inc, epoch, fabric, leaseVars, window, installs, history>>

\* The snapshot cannot be written: start() gives up.
PruneFails ==
    /\ Scanned /\ AtBound /\ Fault
    /\ Halt
    /\ UNCHANGED <<disk, leases, effects>>

NoPrune ==
    /\ Scanned /\ ~AtBound
    /\ phase' = "create" /\ cursor' = 0
    /\ UNCHANGED <<storeVars, inc, epoch, fabric, doomed, leaseVars, window,
                   installs, history>>

\* Segments are removed oldest first.
NextDoomed(g) == \A h \in doomed : g <= h

\* One segment is removed; a failure to remove it is ignored.
RemoveSegment(g) ==
    /\ phase = "prune" /\ NextDoomed(g)
    /\ doomed' = doomed \ {g}
    /\ phase' = IF doomed' = {} THEN "create" ELSE "prune"
    /\ \/ /\ RemoveFile(g)
          /\ pruning' = IF pruning = "cut" THEN "cut" ELSE "removing"
          /\ UNCHANGED faults
       \/ RemovalsFail /\ Fault /\ UNCHANGED <<log, tails, pruning>>
    /\ UNCHANGED <<snapshot, writer, inc, epoch, fabric, cursor,
                   leaseVars, window, installs, authority, replies, effects,
                   topEpoch>>

-----------------------------------------------------------------------------
(* start(): the new segment.                                               *)

\* Mutation of RestartEpoch: the restart goes on at the recovered epoch.
SameEpoch(e) == e

\* The epoch a restart runs at, from the highest one in the journal.
RestartEpoch(e) == e + 1

\* The segment file is created; without a recovered fabric the runtime begins
\* with an empty one.
CreateSegment ==
    /\ phase = "create"
    /\ tails' = Extended(tails, seg, "open") /\ poisoned' = FALSE
    /\ phase' = "announce"
    /\ epoch' = RestartEpoch(epoch)
    /\ fabric' = IF fabric = NoFabric THEN EmptyFabric ELSE fabric
    /\ UNCHANGED <<log, snapshot, seg, last, faults, inc, boot, leaseVars, window,
                   installs, history>>

\* A file whose header could not be flushed is removed; one whose header could
\* not be written stays, with nothing, a part or all of the header.
CreateFails ==
    /\ phase = "create" /\ Fault
    /\ \/ UNCHANGED tails
       \/ \E t \in {"empty", "mangled", "open"} : tails' = Extended(tails, seg, t)
    /\ Halt
    /\ UNCHANGED <<log, snapshot, leases, effects>>

\* The IncarnationStart record makes the new epoch durable.
StartRecord == Rec("IncarnationStart", fabric.gen, NoRequest, NoFabric)

Announce ==
    /\ phase = "announce" /\ AppendOk(StartRecord)
    /\ phase' = "baseline"
    /\ pruning' = IF pruning = "removing" THEN "no" ELSE pruning
    /\ UNCHANGED <<inc, epoch, fabric, boot, leaseVars, window, installs,
                   authority, replies, effects, topEpoch>>

\* The FabricSnapshot record, and the runtime is up.
FabricRecord(f) == Rec("FabricSnapshot", f.gen, NoRequest, f)

Baseline ==
    /\ phase = "baseline" /\ AppendOk(FabricRecord(fabric))
    /\ phase' = "up" /\ lease' = NoLease /\ expired' = FALSE
    /\ published' = fabric /\ maybe' = {}
    /\ topEpoch' = Larger(topEpoch, epoch)
    /\ UNCHANGED <<inc, epoch, fabric, boot, leases, window, installs,
                   authority, replies, observed, pruning>>

\* Either record cannot be written: start() returns the error, and the segment
\* file stays as it is.
StartAppendFails ==
    /\ \/ phase = "announce" /\ NotAppended(StartRecord) /\ UNCHANGED maybe
       \/ /\ phase = "baseline" /\ NotAppended(FabricRecord(fabric))
          /\ maybe' = IF log' = log THEN maybe ELSE maybe \cup {fabric}
    /\ Halt
    /\ UNCHANGED <<leases, published, observed>>

-----------------------------------------------------------------------------
(* Leases and tokens.                                                      *)

\* validate_token against the live coordinate; a token carries the expiry of
\* the lease that minted it.
Valid(t) ==
    /\ lease # NoLease /\ lease.lease = t.lease /\ ~expired
    /\ t.inc = inc
    /\ t.epoch = epoch
    /\ t.gen = fabric.gen
    /\ t.digest = Digest(fabric)

\* Mutation of NewLeaseId: the counter is not advanced.
SameLeaseId == leases

\* lease_counter_ only counts within the life of the process.
NewLeaseId == leases + 1

FenceRecord == Rec("Fence", fabric.gen, NoRequest, NoFabric)

\* acquire_authority: the new lease supersedes the active one before its Fence
\* record is written, and no lease is left when that write fails.
AcquireAuthority ==
    /\ phase = "up" /\ grants < MaxGrants
    /\ AppendOk(FenceRecord)
    /\ leases' = NewLeaseId
    /\ lease' = Token(inc, epoch, fabric, leases') /\ expired' = FALSE
    /\ grants' = grants + 1
    /\ issued' = issued \cup {[tok |-> lease', grant |-> grants']}
    /\ UNCHANGED <<phase, inc, epoch, fabric, boot, window, installs, replies,
                   effects, lifetime>>

AcquireFails ==
    /\ phase = "up" /\ leases < MaxGrants
    /\ AppendFails(FenceRecord)
    /\ leases' = NewLeaseId
    /\ lease' = NoLease /\ expired' = FALSE
    /\ UNCHANGED <<phase, inc, epoch, fabric, boot, window, installs, history>>

\* revoke_authority: the lease is gone whether or not its record is written.
RevokeAuthority ==
    /\ phase = "up" /\ lease # NoLease
    /\ AppendOk(FenceRecord) \/ AppendFails(FenceRecord)
    /\ lease' = NoLease /\ expired' = FALSE
    /\ UNCHANGED <<phase, inc, epoch, fabric, boot, leases, window, installs,
                   history>>

\* Time passes the expiry of the active lease.
Expire ==
    /\ lease # NoLease /\ ~expired /\ Expiring
    /\ expired' = TRUE
    /\ UNCHANGED <<storeVars, phase, inc, epoch, fabric, boot, lease, leases,
                   window, installs, history>>

\* Mutation of SweepLease: the expiry is forgotten, the lease is not.
SweepExpiryOnly ==
    /\ phase = "up" /\ lease # NoLease /\ expired
    /\ expired' = FALSE
    /\ UNCHANGED <<storeVars, phase, inc, epoch, fabric, boot, lease, leases,
                   window, installs, history>>

\* The sweeper drops an expired lease.
SweepLease ==
    /\ phase = "up" /\ lease # NoLease /\ expired
    /\ lease' = NoLease /\ expired' = FALSE
    /\ UNCHANGED <<storeVars, phase, inc, epoch, fabric, boot, leases, window,
                   installs, history>>

-----------------------------------------------------------------------------
(* Commands.                                                               *)

Remembered(r) == \E d \in dedup : d.req = r

\* apply_locked up to the commit: not seen before, room in the window, a token
\* that validates, and the coordinate the client expects is the live one.
\* A command refused here changes nothing.
Admitted(r, t, want) ==
    /\ phase = "up"
    /\ ~Remembered(r)
    /\ Cardinality(dedup) < MaxDedup
    /\ Valid(t)
    /\ want = [gen |-> fabric.gen, epoch |-> epoch]

\* The state the command leads to, and the record that commits it.
Applied(r) ==
    ApplyCommand(fabric, r, TargetGeneration(fabric, r), epoch, inc)
CommitRecord(r) ==
    Rec("CommandCommit", TargetGeneration(fabric, r), r, NoFabric)

ApplyCommit(r, t, want) ==
    /\ Admitted(r, t, want) /\ AppendOk(CommitRecord(r))
    /\ phase' = "commit"
    /\ pending' = [req |-> r, fab |-> Applied(r)]
    /\ maybe' = {Applied(r)}
    /\ observed' = observed \cup {<<r, inc>>}
    /\ UNCHANGED <<inc, epoch, fabric, boot, leaseVars, dedup, installs,
                   authority, replies, published, lifetime>>

\* The commit record cannot be written: the client is told so.
ApplyFails(r, t, want) ==
    /\ Admitted(r, t, want) /\ AppendFails(CommitRecord(r))
    /\ maybe' = IF log' = log THEN maybe ELSE {Applied(r)}
    /\ observed' = IF log' = log THEN observed ELSE observed \cup {<<r, inc>>}
    /\ UNCHANGED <<phase, inc, epoch, fabric, boot, leaseVars, window, installs,
                   authority, replies, published, lifetime>>

\* The committed state is published, the active lease is moved to it, the
\* result is remembered and returned with the refreshed token.
ApplyPublish ==
    /\ phase = "commit" /\ pending.req # NoRequest
    /\ fabric' = pending.fab
    /\ lease' = IF lease = NoLease THEN NoLease
                ELSE [lease EXCEPT !.gen = pending.fab.gen,
                                   !.digest = Digest(pending.fab)]
    /\ issued' = IF lease = NoLease THEN issued
                 ELSE issued \cup {[tok |-> lease', grant |-> grants]}
    /\ LET res == Result(pending.req, pending.fab.gen, epoch)
       IN  dedup' = dedup \cup {res} /\ replies' = replies \cup {res}
    /\ phase' = "up" /\ pending' = NoPending
    /\ published' = pending.fab /\ maybe' = {}
    /\ UNCHANGED <<storeVars, inc, epoch, boot, expired, leases, installs,
                   grants, observed, lifetime>>

\* A request id seen before is answered with its recorded result; no token is
\* needed for that.
ApplyDuplicate(d) ==
    /\ phase = "up" /\ d \in dedup
    /\ replies' = replies \cup {d}
    /\ UNCHANGED <<storeVars, phase, inc, epoch, fabric, boot, leaseVars,
                   window, installs, authority, effects, lifetime>>

-----------------------------------------------------------------------------
(* Installation and compaction.                                            *)

\* Without replace, only a controller that holds no topology takes one.
MayInstall(replace) == replace \/ fabric.base = EmptyBase

InstallCommit(f, replace) ==
    /\ phase = "up" /\ installs < MaxInstalls /\ MayInstall(replace)
    /\ AppendOk(FabricRecord(f))
    /\ phase' = "commit"
    /\ pending' = [req |-> NoRequest, fab |-> f]
    /\ maybe' = {f} /\ installs' = installs + 1
    /\ UNCHANGED <<inc, epoch, fabric, boot, leaseVars, dedup, authority,
                   replies, published, observed, lifetime>>

InstallFails(f, replace) ==
    /\ phase = "up" /\ installs < MaxInstalls /\ MayInstall(replace)
    /\ AppendFails(FabricRecord(f))
    /\ maybe' = IF log' = log THEN maybe ELSE {f}
    /\ installs' = installs + 1
    /\ UNCHANGED <<phase, inc, epoch, fabric, boot, leaseVars, window, authority,
                   replies, published, observed, lifetime>>

\* The installed fabric is published; the active lease keeps its token.
InstallPublish ==
    /\ phase = "commit" /\ pending.req = NoRequest
    /\ fabric' = pending.fab
    /\ phase' = "up" /\ pending' = NoPending
    /\ published' = pending.fab /\ maybe' = {}
    /\ UNCHANGED <<storeVars, inc, epoch, boot, leaseVars, dedup, installs,
                   authority, replies, observed, lifetime>>

\* compact: a snapshot of the live fabric that covers every record written.
\* A failed write leaves the old snapshot and changes nothing.
Compact ==
    /\ phase = "up" /\ Compacting
    /\ WriteSnapshot(fabric, last)
    /\ UNCHANGED <<log, tails, writer, faults, phase, inc, epoch, fabric, boot,
                   leaseVars, window, installs, history>>

-----------------------------------------------------------------------------
(* The end of a run.                                                       *)

\* stop(): the lease ends, the segment is closed.
Stop ==
    /\ phase = "up"
    /\ Halt
    /\ CloseClean \/ CloseFails
    /\ UNCHANGED <<leases, effects>>

\* What a kill leaves of the file being written: in create() the file may have
\* no header yet, during an append a part of the record may be there.
KilledWriting ==
    \/ UNCHANGED tails
    \/ phase = "create" /\ tails' = Extended(tails, seg, "empty")
    \/ /\ phase \in {"announce", "baseline", "up"} /\ CanAppend
       /\ tails' = [tails EXCEPT ![seg] = "torn"]

\* The process is killed: only the directory survives.
Kill ==
    /\ phase \notin Halted
    /\ KilledWriting
    /\ Halt /\ leases' = 0
    /\ UNCHANGED <<log, snapshot, faults, effects>>

-----------------------------------------------------------------------------

StartStep ==
    \/ \E s \in DOMAIN log : ScanRecord(s)
    \/ Prune \/ PruneFails \/ NoPrune
    \/ \E g \in doomed : RemoveSegment(g)
    \/ CreateSegment \/ CreateFails
    \/ Announce \/ Baseline \/ StartAppendFails

PublishStep == ApplyPublish \/ InstallPublish

Coordinates == {[gen |-> i.tok.gen, epoch |-> i.tok.epoch] : i \in issued}

ClientStep ==
    \/ AcquireAuthority \/ AcquireFails \/ RevokeAuthority
    \/ \E r \in Requests, i \in issued, want \in Coordinates :
         ApplyCommit(r, i.tok, want) \/ ApplyFails(r, i.tok, want)
    \/ \E d \in dedup : ApplyDuplicate(d)
    \/ \E f \in Specs, replace \in BOOLEAN :
         InstallCommit(f, replace) \/ InstallFails(f, replace)

Next ==
    \/ StartRecovery \/ StartStep \/ PublishStep \/ ClientStep
    \/ Expire \/ SweepLease \/ Compact \/ Stop \/ Kill

Spec == Init /\ [][Next]_vars

\* start() runs to its end and a commit is published, unless the process is
\* killed; clients, operators and the clock owe nothing.
FairSpec == Spec /\ WF_vars(StartStep) /\ WF_vars(PublishStep)

-----------------------------------------------------------------------------
(* Properties.                                                             *)

\* Every variable has its type: what the replay in start() rebuilds are fabrics,
\* results and tokens.
TypeOK ==
    /\ StoreTypeOK
    /\ phase \in Phases
    /\ inc \in Nat /\ epoch \in Nat /\ cursor \in Nat /\ leases \in Nat
    /\ installs \in Nat /\ grants \in Nat /\ topEpoch \in Nat
    /\ fabric \in Fabric \cup {NoFabric}
    /\ published \in Fabric \cup {NoFabric}
    /\ maybe \subseteq Fabric
    /\ doomed \subseteq Nat
    /\ expired \in BOOLEAN
    /\ dedup \subseteq Results /\ replies \subseteq Results
    /\ observed \subseteq Requests \X Nat
    /\ pruning \in {"no", "removing", "cut"}
    /\ pending \in Commits \cup {NoPending}
    /\ lease \in Tokens \cup {NoLease}
    /\ issued \subseteq [tok: Tokens, grant: Nat]

\* Recovery neither loses nor invents state: the fabric a start settles on is
\* the one last shown to readers, or the one of the commit that was durable
\* but not yet shown when the run ended (start(): snapshot, replay, prune).
Durable ==
    phase \in {"announce", "baseline"} =>
        \/ fabric \in {published} \cup maybe
        \/ published = NoFabric /\ fabric = EmptyFabric

\* The only directory start() refuses is one beyond a bound of the reader
\* (segments, bytes of a segment, records to replay) or, after an I/O error, one
\* with an unreadable segment: kills, prunes and restarts never break the
\* numbering across segments (recover_store).
RefusedForCause ==
    phase = "refused" => BeyondBounds \/ (Unreadable /\ faults > 0)

\* As long as no snapshot was taken, every command takes effect at most once
\* and all successful replies to one request are the same reply, across kills
\* and restarts (README: exactly-once commands).
OnceUntilSnapshot ==
    snapshot = NoSnapshot =>
        /\ fabric # NoFabric => DuplicateFree(fabric)
        /\ \A a, b \in replies : a.req = b.req => a = b

\* A command takes effect at most once whatever snapshots were taken (README: a
\* retry after a crash replays the recorded result).
ExactlyOnce == fabric # NoFabric => DuplicateFree(fabric)

\* Only tokens of the grant made last validate: neither a restart, with its
\* lease counter back at zero, nor a superseding lease revives an older one.
LeaseExclusive == \A i \in issued : Valid(i.tok) => i.grant = grants

\* A token that has stopped validating (validate_token) never validates again,
\* as long as at most one topology was installed.
FencingIsFinal ==
    [][installs' <= 1 => \A i \in issued : ~Valid(i.tok) => ~Valid(i.tok)']_vars

\* The same however often a topology is installed (AuthorityContext: a topology
\* change fences all previously issued authority).
TopologyChangeFences ==
    [][\A i \in issued : ~Valid(i.tok) => ~Valid(i.tok)']_vars

\* An observation is attributed to the incarnation that made it, also after
\* replays of replays (apply_command_to's observer).
EvidenceAttribution ==
    fabric # NoFabric => \A e \in fabric.evid : <<e.req, e.inc>> \in observed

\* A restart runs at a higher epoch than every live incarnation before it
\* (start(): "A restart always advances the epoch")...
EpochAdvances == phase \in {"announce", "baseline"} => epoch > topEpoch

\* ...and does so unless a start was cut short between removing segments and
\* announcing itself.
EpochAdvancesUncut == pruning # "cut" => EpochAdvances

\* The directory is bounded (start(): "The state directory is bounded").
SegmentBound == ~TooManySegments

\* Nothing is written past a torn record (append: "refused rather than written
\* past a silent hole").
NothingPastHole == ~Unreadable

\* A start comes to a verdict and a durable commit is published, or the process
\* is killed (start(), apply_locked, install_fabric_locked).
NoStall == phase \in Starting \cup {"commit"} ~> phase \in Halted \cup {"up"}
=============================================================================
