----------------------------- MODULE FabricLife -----------------------------
(***************************************************************************)
(* The life of a fabric's contents: governed commands, installation,       *)
(* compaction, and restarts that read the stored fabric back and replay    *)
(* the committed commands.                                                 *)
(*                                                                         *)
(* Authority, the exactly-once window and I/O errors are the subject of    *)
(* Controller; here a command that reaches its preconditions is applied,   *)
(* committed and published in one step.  The journal is the sequence of    *)
(* the fabric and command records of all segments.                         *)
(***************************************************************************)
EXTENDS FabricCommands

CONSTANTS
    Commands,           \* commands a client may send
    Specs,              \* fabrics an operator may install
    DefaultOptions,     \* config_.options
    SnapshotLimits,     \* the default BuilderLimits, which the snapshot's reader has
    MaxSegments,        \* max_segments
    MaxRecordBytes,     \* max_record_bytes, in stored records of a fabric
    MaxSnapshotBytes,   \* max_snapshot_bytes, likewise
    MaxStarts,          \* bound of the model: calls of start()
    MaxCommands         \* bound of the model: commands applied

ASSUME LifeAssumption ==
    /\ MaxSegments \in Nat /\ MaxRecordBytes \in Nat /\ MaxSnapshotBytes \in Nat
    /\ MaxStarts \in Nat /\ MaxCommands \in Nat
    /\ SnapshotLimits \in [LimitNames -> Nat]

\* Commands have the types of the program; installed fabrics and the options of
\* the configuration have passed a builder, the fabrics under limits that need
\* not be the controller's.
ASSUME InputsAssumption ==
    /\ Commands \subseteq GovernedCommand
    /\ \A f \in Specs : /\ FabricShape(f) /\ f = [x \in DOMAIN f |-> f[x]]
                       /\ Rebuilt(f)
    /\ DefaultOptions.minSpines # 0

VARIABLES
    phase,      \* "down", "up", or "refused" when start() gave up
    inc,        \* incarnation_: one per start
    epoch,      \* epoch_, which the directory's records tell
    fabric,     \* fabric_
    journal,    \* fabric and command records on disk, in order
    segs,       \* journal segments on disk
    snapshot,   \* the snapshot file and how many records it covers
    applied,    \* commands applied so far
    shown,      \* history: the fabric last committed
    strayed     \* history: what a committed fabric had that a reader refuses

disk == <<journal, segs, snapshot>>
vars == <<phase, inc, epoch, fabric, disk, applied, shown, strayed>>

\* No snapshot file.
NoSnapshot == [covers |-> 0]

EmptyFabric ==
    [gen |-> 1, epoch |-> 1, state |-> "operational", options |-> DefaultOptions,
     domains |-> <<>>, leaves |-> <<>>, spines |-> <<>>, ports |-> <<>>,
     links |-> <<>>, history |-> <<>>, evidence |-> EmptyCounts]

Init ==
    /\ phase = "down" /\ inc = 0 /\ epoch = 0 /\ fabric = NoFabric
    /\ journal = <<>> /\ segs = 0 /\ snapshot = NoSnapshot
    /\ applied = 0 /\ shown = EmptyFabric /\ strayed = {}

FabricRecord(f) == [type |-> "fabric", fab |-> serialize_fabric(f)]
CommitRecord(c, g) ==
    [type |-> "commit", cmd |-> serialize_command(c), gen |-> g, epoch |-> epoch, inc |-> inc]

\* A link has the identity of a retired link.
Reuses(f) == DOMAIN f.links \cap DOMAIN f.history # {}

\* What a reader of the stored fabric refuses: a reused identity, and contents
\* beyond the limits it reads under.
Strays(f) ==
    {why \in {"reused", "limits", "defaults"} :
       \/ why = "reused" /\ Reuses(f)
       \/ why = "limits" /\ ~Within(f, Limits)
       \/ why = "defaults" /\ ~Within(f, SnapshotLimits)}

\* What is stored of a fabric is within the bound of a record, of a snapshot.
FitsRecord(f)   == StoredBytes(f) <= MaxRecordBytes
FitsSnapshot(f) == StoredBytes(f) <= MaxSnapshotBytes

-----------------------------------------------------------------------------
(* A running controller.                                                   *)

\* A command whose precondition holds and whose outcome validates is committed
\* and published; any other is refused and changes nothing.
Apply(c) ==
    /\ phase = "up" /\ applied < MaxCommands
    /\ fabric' \in Validated(fabric, c, epoch, inc) /\ shown' = fabric'
    /\ strayed' = strayed \cup Strays(fabric')
    /\ journal' = Append(journal, CommitRecord(c, TargetGeneration(fabric, c)))
    /\ applied' = applied + 1
    /\ UNCHANGED <<phase, inc, epoch, segs, snapshot>>

\* An operator's fabric is installed, with replace set or over a fabric that has
\* no leaves; a fabric too large for a record is refused, but the limits are not
\* looked at.
install_fabric(f) ==
    /\ phase = "up" /\ applied < MaxCommands
    /\ FitsRecord(f)
    /\ fabric' = f /\ shown' = f
    /\ strayed' = strayed \cup Strays(f)
    /\ journal' = Append(journal, FabricRecord(f))
    /\ applied' = applied + 1
    /\ UNCHANGED <<phase, inc, epoch, segs, snapshot>>

\* A snapshot of the live fabric covers the records so far.
Snapshot(f, n) == [fab |-> serialize_fabric(f), covers |-> n]

compact ==
    /\ phase = "up" /\ FitsSnapshot(fabric)
    /\ snapshot' = Snapshot(fabric, Len(journal))
    /\ UNCHANGED <<phase, inc, epoch, fabric, journal, segs, applied, shown, strayed>>

\* The process ends, by stop() or by a kill.
Down ==
    /\ phase = "up"
    /\ phase' = "down" /\ fabric' = NoFabric
    /\ UNCHANGED <<inc, epoch, disk, applied, shown, strayed>>

-----------------------------------------------------------------------------
(* start().                                                                *)

\* A snapshot that cannot be read is passed over.  It is read under the default
\* limits, not under those of the configuration.
Loaded ==
    IF snapshot = NoSnapshot THEN NoFabric
    ELSE deserialize_fabric(snapshot.fab, SnapshotLimits)

Covered == IF Loaded = NoFabric THEN 0 ELSE snapshot.covers

\* Mutation of ReplayCommand: observations are attributed to the reader.
ReplayAsReader(f, r) ==
    LET read == apply_command_to(f, deserialize_command(r.cmd), r.gen, r.epoch, inc + 1)
    IN  IF read # {} THEN <<TRUE, CHOOSE o \in read : TRUE>> ELSE <<FALSE, f>>

\* A committed command is applied again, at the recorded coordinates; one that
\* no longer validates ends the recovery.
ReplayCommand(f, r) ==
    LET read == apply_command_to(f, deserialize_command(r.cmd), r.gen, r.epoch, r.inc)
    IN  IF read # {} THEN <<TRUE, CHOOSE o \in read : TRUE>> ELSE <<FALSE, f>>

\* One record: whether it could be used, and the fabric it leads to.
ReplayRecord(f, r) ==
    IF r.type = "fabric"
    THEN LET read == deserialize_fabric(r.fab, Limits) IN <<read # NoFabric, read>>
    ELSE IF ~Decodable(r.cmd) THEN <<FALSE, f>>
    ELSE IF f = NoFabric THEN <<TRUE, f>> ELSE ReplayCommand(f, r)

\* Everything the snapshot does not cover, in order.
Replayed[i \in Covered..Len(journal)] ==
    IF i = Covered THEN <<TRUE, Loaded>>
    ELSE IF Replayed[i - 1][1] THEN ReplayRecord(Replayed[i - 1][2], journal[i])
    ELSE Replayed[i - 1]

Recovered == Replayed[Len(journal)]

\* Another segment would exceed the bound, and there is a state to snapshot.
AtBound(f) == f # NoFabric /\ segs > 0 /\ segs + 1 > MaxSegments

\* The directory after the pruning of start(): a snapshot in place of the
\* segments.
Pruned(f) ==
    IF AtBound(f) THEN [journal |-> <<>>, segs |-> 0, snapshot |-> Snapshot(f, 0)]
    ELSE [journal |-> journal, segs |-> segs, snapshot |-> snapshot]

PruneFits(f) == AtBound(f) => FitsSnapshot(f)

\* A stored fabric or a committed command is refused, or the snapshot that must
\* precede a pruning is too large: start() gives up.
StartRefused(r) ==
    /\ ~r[1] \/ ~PruneFits(r[2])
    /\ phase' = "refused"
    /\ UNCHANGED <<epoch, fabric, disk>>

\* A kill between the pruning and the new segment's first records: no record is
\* left to tell the epoch, so the next start counts from the beginning.
StartCut(r) ==
    /\ r[1] /\ PruneFits(r[2]) /\ AtBound(r[2])
    /\ journal' = Pruned(r[2]).journal /\ segs' = Pruned(r[2]).segs
    /\ snapshot' = Pruned(r[2]).snapshot
    /\ phase' = "down" /\ epoch' = 0
    /\ UNCHANGED fabric

\* The recovered fabric, or an empty one, begins the new segment; when it is
\* too large for a record start() gives up and the segment stays.
StartDone(r) ==
    LET f == IF r[2] = NoFabric THEN EmptyFabric ELSE r[2]
        kept == Pruned(r[2])
        fits == FitsRecord(f)
    IN  /\ r[1] /\ PruneFits(r[2])
        /\ segs' = kept.segs + 1 /\ snapshot' = kept.snapshot
        /\ journal' = IF fits THEN Append(kept.journal, FabricRecord(f))
                      ELSE kept.journal
        /\ phase' = IF fits THEN "up" ELSE "refused"
        /\ fabric' = IF fits THEN f ELSE NoFabric
        /\ epoch' = epoch + 1

start ==
    /\ phase \in {"down", "refused"} /\ inc < MaxStarts
    /\ inc' = inc + 1
    /\ \E r \in {Recovered} : StartRefused(r) \/ StartCut(r) \/ StartDone(r)
    /\ UNCHANGED <<applied, shown, strayed>>

Next ==
    \/ \E c \in Commands : Apply(c)
    \/ \E f \in Specs : install_fabric(f)
    \/ compact
    \/ Down
    \/ start

Spec == Init /\ [][Next]_vars

-----------------------------------------------------------------------------
(* Properties.                                                             *)

\* Recovery produces exactly the fabric that was last committed, whatever mix
\* of snapshot, fabric records and replayed commands it is rebuilt from, also
\* after a start that was cut short behind its pruning or that gave up.
RecoveryExact == phase = "up" => fabric = shown

\* The same, for the controllers that never committed a fabric a reader refuses.
\* The reader of stored fabrics takes links before retired links, the builder of
\* live ones the other way round; a fabric is installed under any limits and
\* snapshots are read under the default ones: this is all they disagree on.
ReadsBack == phase = "up" /\ strayed = {} => fabric = shown

\* start() would rather refuse than lose durable state: when a prune has left the
\* snapshot alone, it holds the fabric last committed.
PruneLosesNothing == journal = <<>> /\ snapshot # NoSnapshot => Loaded = shown

\* A controller that starts is not kept from starting again by what it stored:
\* start() gives up only over a reused identity, an installed fabric beyond the
\* limits of the configuration or a fabric beyond a size bound.  A snapshot
\* beyond the default limits never keeps it from starting.
RefusedOnlyFor ==
    phase = "refused" =>
      \/ strayed \cap {"reused", "limits"} # {}
      \/ ~FitsRecord(shown) \/ ~FitsSnapshot(shown)
=============================================================================
