----------------------------- MODULE FabricStore ----------------------------
(***************************************************************************)
(* The durable store: a directory of journal segments and one snapshot.    *)
(* Sequence numbers run on across segments, so the records of all segments *)
(* form one function, log, from sequence numbers to records; tails says    *)
(* which segment files exist and what follows the last whole record of     *)
(* each.  The process writes only to the segment it created, seg.          *)
(***************************************************************************)
EXTENDS FabricData, Functions

CONSTANTS
    MaxRecords,     \* max_records_per_segment
    MaxSegments,    \* max_segments
    MaxFileRecords, \* max_recovery_bytes, in records
    MaxReplay,      \* records recovery keeps in memory, 1000000 in the code
    MaxFaults,      \* bound of the model: I/O calls that fail
    RemovalsFail,   \* whether remove_file is among the calls that fail
    NoSnapshot

VARIABLES
    log,            \* sequence number -> record, over all segment files
    tails,          \* segment index -> what ends that file
    snapshot,       \* the snapshot file
    seg,            \* the segment the process writes (or will create)
    last,           \* the last sequence number the process knows of
    poisoned,       \* an append to seg failed part-way
    faults          \* I/O calls that have failed

disk == <<log, tails, snapshot>>
writer == <<seg, last, poisoned>>
storeVars == <<log, tails, snapshot, seg, last, poisoned, faults>>

RecordTypes == {"IncarnationStart", "FabricSnapshot", "CommandCommit", "Fence"}

Record == [type: RecordTypes, seg: Nat, inc: Nat, epoch: Nat, gen: Nat,
           req: Requests \cup {NoRequest}, fab: Fabric \cup {NoFabric}]

\* "empty": no header yet; "open": whole records only; "torn": a part of a
\* record; "closed": the clean-shutdown trailer; "mangled": the trailer behind
\* a part of a record, which no reader can take for either.
Tails == {"empty", "open", "torn", "closed", "mangled"}

Snapshot == [fab: Fabric, mark: Nat]

ASSUME StoreAssumption ==
    /\ MaxRecords \in Nat /\ MaxSegments \in Nat /\ MaxFaults \in Nat
    /\ MaxFileRecords \in Nat /\ MaxReplay \in Nat
    /\ RemovalsFail \in BOOLEAN
    /\ NoSnapshot \notin Snapshot

StoreTypeOK ==
    /\ DOMAIN log \subseteq Nat \ {0}
    /\ \A s \in DOMAIN log : log[s] \in Record
    /\ DOMAIN tails \subseteq Nat
    /\ \A g \in DOMAIN tails : tails[g] \in Tails
    /\ snapshot \in Snapshot \cup {NoSnapshot}
    /\ seg \in Nat /\ last \in Nat /\ faults \in Nat
    /\ poisoned \in BOOLEAN

StoreInit ==
    /\ log = [s \in {} |-> 0]
    /\ tails = [g \in {} |-> 0]
    /\ snapshot = NoSnapshot
    /\ seg = 0 /\ last = 0 /\ poisoned = FALSE /\ faults = 0

Extended(f, x, v) == [y \in DOMAIN f \cup {x} |-> IF y = x THEN v ELSE f[y]]

RecordsOf(g) == {s \in DOMAIN log : log[s].seg = g}

\* One of the I/O calls the model may fail does.
Fault == faults < MaxFaults /\ faults' = faults + 1

-----------------------------------------------------------------------------
(* Writing.                                                                *)

\* A poisoned or a full segment takes no record.
CanAppend == ~poisoned /\ Cardinality(RecordsOf(seg)) < MaxRecords

\* Mutation of AppendOk: the sequence counter is advanced twice.
AppendSkipping(rec) ==
    /\ CanAppend
    /\ log' = Extended(log, last + 1, rec)
    /\ last' = last + 2
    /\ UNCHANGED <<tails, snapshot, seg, poisoned, faults>>

\* A record becomes durable.
AppendOk(rec) ==
    /\ CanAppend
    /\ log' = Extended(log, last + 1, rec)
    /\ last' = last + 1
    /\ UNCHANGED <<tails, snapshot, seg, poisoned, faults>>

\* A record is refused, or its write or flush fails and nothing, a part or all
\* of it has reached the file.
NotAppended(rec) ==
    /\ \/ ~CanAppend /\ UNCHANGED <<log, tails, faults>>
       \/ /\ CanAppend /\ Fault
          /\ \/ UNCHANGED <<log, tails>>
             \/ tails' = [tails EXCEPT ![seg] = "torn"] /\ UNCHANGED log
             \/ log' = Extended(log, last + 1, rec) /\ UNCHANGED tails
    /\ UNCHANGED snapshot

\* A failed write poisons the segment: it takes no record any more.
AppendFails(rec) ==
    /\ NotAppended(rec)
    /\ poisoned' = (poisoned \/ CanAppend)
    /\ UNCHANGED <<seg, last>>

\* close_clean writes the trailer whether or not the segment is poisoned.
TrailedTails(t) == IF t = "torn" THEN {"torn", "mangled"} ELSE {"closed"}

CloseClean ==
    /\ \E t \in TrailedTails(tails[seg]) : tails' = [tails EXCEPT ![seg] = t]
    /\ UNCHANGED <<log, snapshot, faults>>

\* Nothing, a part or all of the trailer reaches the file.
CloseFails ==
    /\ Fault
    /\ \E t \in {tails[seg], "torn"} \cup TrailedTails(tails[seg]) :
         tails' = [tails EXCEPT ![seg] = t]
    /\ UNCHANGED <<log, snapshot>>

\* The snapshot is written aside and renamed into place.
WriteSnapshot(f, mark) == snapshot' = [fab |-> f, mark |-> mark]

\* remove_file on one segment.
RemoveFile(g) ==
    /\ tails' = Restrict(tails, DOMAIN tails \ {g})
    /\ log' = Restrict(log, DOMAIN log \ RecordsOf(g))

-----------------------------------------------------------------------------
(* Reading.                                                                *)

\* The sequence number the snapshot covers; 0 without a snapshot.
Watermark == IF snapshot = NoSnapshot THEN 0 ELSE snapshot.mark

\* Mutation of Covered: the record at the watermark is replayed once more.
CoveredBelow(s) == s < Watermark

\* Records the snapshot covers are not replayed.
Covered(s) == s <= Watermark

\* Numbering continues from each segment to the next one with records.
Continuous ==
    \A s, t \in DOMAIN log : \A u \in s..t : u \in DOMAIN log

\* The size of a segment file: whole records, and a trailer or a part of a
\* record, which counts as one more.
FileRecords(g) ==
    Cardinality(RecordsOf(g)) + (IF tails[g] \in {"empty", "open"} THEN 0 ELSE 1)

\* The states of the directory recovery classifies as fatal: a bound on what is
\* read is exceeded, or a segment cannot be understood.  An append is held only
\* to max_records_per_segment, not to the bounds of the reader.
TooManySegments == Cardinality(DOMAIN tails) > MaxSegments
TooLarge == \E g \in DOMAIN tails : FileRecords(g) > MaxFileRecords
TooMuchToReplay ==
    \/ \E g \in DOMAIN tails : Cardinality(RecordsOf(g)) > MaxReplay
    \/ Cardinality({s \in DOMAIN log : ~Covered(s)}) > MaxReplay
BeyondBounds == TooManySegments \/ TooLarge \/ TooMuchToReplay
Unreadable == \E g \in DOMAIN tails : tails[g] = "mangled"

Status ==
    IF TooManySegments THEN "Corrupt"
    ELSE IF DOMAIN tails = {} THEN IF snapshot = NoSnapshot THEN "Missing"
                                   ELSE "Clean"
    ELSE IF Unreadable \/ TooLarge \/ TooMuchToReplay THEN "Corrupt"
    ELSE IF ~Continuous THEN "ChainBroken"
    ELSE IF \A g \in DOMAIN tails : tails[g] = "closed" THEN "Clean"
    ELSE IF \E g \in DOMAIN tails : tails[g] = "torn" THEN "TruncatedTail"
    ELSE IF \E g \in DOMAIN tails : tails[g] = "open" THEN "CrashWithoutTrailer"
    ELSE "Missing"

\* g is the newest segment of a set; w is the last sequence number in it, 0 if
\* the segment holds no record.
IsNewest(g, S) == g \in S /\ \A h \in S : h <= g
IsLastSequence(w, g) ==
    IF RecordsOf(g) = {} THEN w = 0 ELSE IsNewest(w, RecordsOf(g))
=============================================================================
