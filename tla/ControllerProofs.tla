-------------------------- MODULE ControllerProofs --------------------------
(***************************************************************************)
(* The controller, for every value of the constants: its type correctness, *)
(* that a restart advances the epoch, and what recovery may rely on.       *)
(*                                                                         *)
(* Kills, prunes and restarts never make a directory that start() refuses, *)
(* as long as removals succeed; what is left are too many segments and     *)
(* what an I/O error leaves.  Nor do they lose or invent state: the fabric *)
(* a start settles on is the one last shown to readers, or that of a       *)
(* commit that was durable but not yet shown.                              *)
(***************************************************************************)
EXTENDS ControllerInv, TLAPS

\* Leaves go to Zenon unless they cite another prover.
USE Zenon

-----------------------------------------------------------------------------
(* Facts about the values.                                                 *)

\* The generation of a fabric is a number, and the fabric of a first boot and
\* every installable one are fabrics.
LEMMA FabricFacts ==
    /\ \A f \in Fabric : f.gen \in Nat
    /\ EmptyFabric \in Fabric
    /\ \A f \in Specs : f \in Fabric
  <1>1. \A f \in Fabric : f.gen \in Nat
    BY DEF Fabric
  <1>2. EmptyFabric \in Fabric
    <2>1. <<>> \in Seq(Requests)
      BY SMT
    <2> QED BY <2>1 DEF EmptyFabric, Fabric, Bases
  <1> QED BY <1>1, <1>2, SpecAssumption

\* A command applied to a fabric gives a fabric (apply_command_to).
LEMMA ApplyType ==
    ASSUME NEW f \in Fabric, NEW r \in Requests, NEW g \in Nat, NEW e \in Nat,
           NEW o \in Nat
    PROVE  ApplyCommand(f, r, g, e, o) \in Fabric
  <1> DEFINE topo == IF IsTopologyCommand(r) THEN Append(f.topo, r) ELSE f.topo
             new == [req |-> r, inc |-> o, epoch |-> e, gen |-> g]
             evid == CASE Kind[r] = "submit" -> f.evid \cup {new}
                       [] Kind[r] = "clear" -> {}
                       [] OTHER -> f.evid
  <1>1. topo \in Seq(Requests)
    BY SMT DEF Fabric
  <1>2. new \in Evidence
    BY DEF Evidence
  <1>3. evid \in SUBSET Evidence
    <2>1. f.evid \in SUBSET Evidence
      BY DEF Fabric
    <2> QED BY <2>1, <1>2
  <1>4. f.base \in Bases
    BY DEF Fabric
  <1>5. ApplyCommand(f, r, g, e, o)
          = [gen |-> g, epoch |-> e, base |-> f.base, topo |-> topo,
             evid |-> evid]
    BY DEF ApplyCommand
  <1> HIDE DEF topo, evid
  <1> QED BY SMT, <1>1, <1>3, <1>4, <1>5 DEF Fabric

\* The generation a command leads to is a number.
LEMMA TargetType ==
    ASSUME NEW f \in Fabric, NEW r \in Requests
    PROVE  TargetGeneration(f, r) \in Nat
  BY SMT, FabricFacts DEF TargetGeneration, NextGeneration

\* The digest of a fabric, and a token minted for one, have their types.
LEMMA DigestType ==
    ASSUME NEW f \in Fabric
    PROVE  Digest(f) \in Digests
  <1> DEFINE topo == [i \in DOMAIN f.topo |-> Effect[f.topo[i]]]
  <1>1. f.topo \in Seq(Requests) /\ f.gen \in Nat /\ f.epoch \in Nat
          /\ f.base \in Bases
    BY DEF Fabric
  <1>2. topo \in Seq({Effect[r] : r \in Requests})
    <2>1. DOMAIN f.topo = 1..Len(f.topo) /\ Len(f.topo) \in Nat
      BY SMT, <1>1
    <2>2. \A i \in 1..Len(f.topo) : f.topo[i] \in Requests
      BY SMT, <1>1
    <2>3. topo \in [1..Len(f.topo) -> {Effect[r] : r \in Requests}]
      BY <2>1, <2>2
    <2> QED BY SMT, <2>1, <2>3
  <1> HIDE DEF topo
  <1>3. Digest(f) = [gen |-> f.gen, epoch |-> f.epoch, base |-> f.base,
                     topo |-> topo]
    BY DEF Digest, topo
  <1> QED BY SMT, <1>1, <1>2, <1>3 DEF Digests

\* A token carries the coordinate and the lease it is made of.
LEMMA MintType ==
    ASSUME NEW i \in Nat, NEW e \in Nat, NEW f \in Fabric, NEW l \in Nat
    PROVE  /\ Token(i, e, f, l) \in Tokens
           /\ Token(i, e, f, l).inc = i /\ Token(i, e, f, l).lease = l
  BY DigestType, FabricFacts DEF Token, Tokens

\* What the replay of a record makes of the recovered fabric is a fabric, or
\* none as long as none was found (the replay loop of start()).
LEMMA ReplayType ==
    ASSUME NEW f \in Fabric \cup {NoFabric}, NEW rec \in Record,
           rec.type = "CommandCommit" => rec.req \in Requests
    PROVE  Replayed(f, rec) \in Fabric \cup {NoFabric}
  <1>1. rec.fab \in Fabric \cup {NoFabric} /\ rec.gen \in Nat
          /\ rec.epoch \in Nat /\ rec.inc \in Nat
    BY DEF Record
  <1>2. CASE rec.type = "FabricSnapshot"
    BY <1>1, <1>2 DEF Replayed
  <1>3. CASE rec.type = "CommandCommit" /\ f # NoFabric
    <2>1. f \in Fabric /\ rec.req \in Requests /\ rec.type # "FabricSnapshot"
      BY <1>3
    <2>2. ApplyCommand(f, rec.req, rec.gen, rec.epoch, rec.inc) \in Fabric
      BY <1>1, <2>1, ApplyType
    <2> QED BY <1>3, <2>1, <2>2 DEF Replayed
  <1>4. CASE rec.type # "FabricSnapshot"
               /\ ~(rec.type = "CommandCommit" /\ f # NoFabric)
    BY <1>4 DEF Replayed
  <1> QED BY <1>2, <1>3, <1>4

\* A record written by a live incarnation has its type.
LEMMA RecType ==
    ASSUME TypeOK, NEW type \in RecordTypes, NEW g \in Nat,
           NEW r \in Requests \cup {NoRequest},
           NEW f \in Fabric \cup {NoFabric}
    PROVE  Rec(type, g, r, f) \in Record
  BY DEF TypeOK, StoreTypeOK, Rec, Record

\* The records of a start and of a fence, a fabric and a command.
LEMMA RecordsType ==
    ASSUME TypeOK, fabric \in Fabric
    PROVE  /\ StartRecord \in Record /\ StartRecord.type = "IncarnationStart"
           /\ FenceRecord \in Record /\ FenceRecord.type = "Fence"
           /\ \A f \in Fabric : /\ FabricRecord(f) \in Record
                                /\ FabricRecord(f).type = "FabricSnapshot"
           /\ \A r \in Requests : /\ CommitRecord(r) \in Record
                                  /\ CommitRecord(r).req = r
  <1>1. StartRecord \in Record /\ FenceRecord \in Record
    BY RecType, FabricFacts DEF StartRecord, FenceRecord, RecordTypes
  <1>2. \A f \in Fabric : FabricRecord(f) \in Record
    BY RecType, FabricFacts DEF FabricRecord, RecordTypes
  <1>3. \A r \in Requests : CommitRecord(r) \in Record
    BY RecType, TargetType DEF CommitRecord, RecordTypes
  <1> QED
    BY <1>1, <1>2, <1>3 DEF StartRecord, FenceRecord, FabricRecord, CommitRecord, Rec

-----------------------------------------------------------------------------
(* Type correctness.                                                       *)

\* The part of the typing that a step of the store can disturb.
DiskOK ==
    /\ DOMAIN log \subseteq Nat \ {0}
    /\ \A s \in DOMAIN log : log[s] \in Record
    /\ \A s \in DOMAIN log :
         log[s].type = "CommandCommit" => log[s].req \in Requests
    /\ DOMAIN tails \subseteq Nat
    /\ \A g \in DOMAIN tails : tails[g] \in Tails
    /\ snapshot \in Snapshot \cup {NoSnapshot}
    /\ faults \in Nat

\* Appending a record of the right type keeps the store well typed.
LEMMA AppendOkType ==
    ASSUME DiskOK, last \in Nat, NEW rec \in Record,
           rec.type = "CommandCommit" => rec.req \in Requests,
           AppendOk(rec)
    PROVE  DiskOK' /\ last' \in Nat
  BY SMT DEF DiskOK, AppendOk, Extended

\* So does an append that fails.
LEMMA NotAppendedType ==
    ASSUME DiskOK, last \in Nat, NEW rec \in Record,
           rec.type = "CommandCommit" => rec.req \in Requests,
           NotAppended(rec)
    PROVE  DiskOK'
  <1>1. CASE UNCHANGED <<log, tails, snapshot, faults>>
    BY <1>1 DEF DiskOK
  <1>2. CASE Fault /\ UNCHANGED <<log, tails, snapshot>>
    BY SMT, <1>2 DEF DiskOK, Fault
  <1>3. CASE /\ Fault /\ tails' = [tails EXCEPT ![seg] = "torn"]
             /\ UNCHANGED <<log, snapshot>>
    BY SMT, <1>3 DEF DiskOK, Fault, Tails
  <1>4. CASE /\ Fault /\ log' = Extended(log, last + 1, rec)
             /\ UNCHANGED <<tails, snapshot>>
    BY SMT, <1>4 DEF DiskOK, Fault, Extended
  <1> QED BY <1>1, <1>2, <1>3, <1>4 DEF NotAppended

\* The rest: the memory of the runtime and the history.
MemoryOK ==
    /\ seg \in Nat /\ last \in Nat /\ poisoned \in BOOLEAN
    /\ phase \in Phases
    /\ inc \in Nat /\ epoch \in Nat /\ cursor \in Nat /\ leases \in Nat
    /\ installs \in Nat /\ grants \in Nat /\ topEpoch \in Nat
    /\ fabric \in Fabric \cup {NoFabric}
    /\ published \in Fabric \cup {NoFabric}
    /\ maybe \subseteq Fabric
    /\ doomed \subseteq Nat
    /\ expired \in BOOLEAN
    /\ dedup \subseteq Results /\ replies \subseteq Results
    /\ observed \subseteq Requests \X Nat
    /\ pruning \in {"no", "removing", "cut"}
    /\ pending \in Commits \cup {NoPending}
    /\ lease \in Tokens \cup {NoLease}
    /\ issued \subseteq [tok: Tokens, grant: Nat]
    /\ phase \in Live => fabric \in Fabric
    /\ phase = "commit" => pending # NoPending

TInv == TypeOK /\ ShapeInv

\* The type invariant is about the disk and about the memory.
LEMMA TInvParts == (TInv <=> DiskOK /\ MemoryOK) /\ (TInv' <=> DiskOK' /\ MemoryOK')
  BY DEF TInv, TypeOK, StoreTypeOK, ShapeInv, DiskOK, MemoryOK

\* A halt clears the memory; what it leaves to the action is typed by it.
LEMMA HaltType ==
    ASSUME MemoryOK, Halt,
           (leases \in Nat)',
           (published \in Fabric \cup {NoFabric} /\ maybe \subseteq Fabric)',
           (observed \subseteq Requests \X Nat)'
    PROVE  MemoryOK'
  BY DEF MemoryOK, Halt, Phases, Halted, Starting, Live, authority

\* The steps of start() keep every variable well typed.
LEMMA StartType ==
    ASSUME TInv, StartRecovery \/ StartStep
    PROVE  TInv'
  <1> USE TInvParts
  <1>0. DiskOK /\ MemoryOK
    OBVIOUS
  <1>1. CASE StartRecovery
    <2>1. DiskOK'
      BY <1>0, <1>1 DEF StartRecovery, DiskOK, disk
    <2>2. Watermark \in Nat
            /\ (snapshot = NoSnapshot \/ snapshot.fab \in Fabric)
      BY <1>0 DEF DiskOK, Watermark, Snapshot
    <2>3. seg' \in Nat
      BY SMT, <1>0, <1>1 DEF StartRecovery, DiskOK
    <2> QED
      BY SMT, <1>0, <1>1, <2>1, <2>2, <2>3
      DEF StartRecovery, MemoryOK, Phases, Starting, Halted, Live, history,
          authority, effects, lifetime, leaseVars
  <1>2. ASSUME NEW s \in DOMAIN log, ScanRecord(s)
        PROVE  TInv'
    <2>1. DiskOK'
      BY <1>0, <1>2 DEF ScanRecord, DiskOK, disk
    <2>2. s \in Nat /\ log[s] \in Record /\ log[s].epoch \in Nat
            /\ log[s].gen \in Nat
            /\ (log[s].type = "CommandCommit" => log[s].req \in Requests)
      BY <1>0 DEF DiskOK, Record
    <2>3. fabric' \in Fabric \cup {NoFabric}
      BY <1>0, <1>2, <2>2, ReplayType DEF ScanRecord, MemoryOK
    <2>4. dedup' \subseteq Results
      BY SMT, <1>0, <1>2, <2>2 DEF ScanRecord, MemoryOK, Remember, Result, Results
    <2> QED
      BY <1>0, <1>2, <2>1, <2>2, <2>3, <2>4
      DEF ScanRecord, MemoryOK, Phases, Starting, Halted, Live, history,
          authority, effects, lifetime, leaseVars, Larger
  <1>3. CASE Prune
    <2>1. DiskOK'
      BY SMT, <1>0, <1>3
      DEF Prune, DiskOK, MemoryOK, AtBound, WriteSnapshot, Snapshot
    <2> QED
      BY <1>0, <1>3, <2>1
      DEF Prune, MemoryOK, DiskOK, Phases, Starting, Halted, Live, history,
          authority, effects, lifetime, leaseVars, writer, window
  <1>4. CASE PruneFails
    <2>1. DiskOK'
      BY SMT, <1>0, <1>4 DEF PruneFails, DiskOK, Fault, disk
    <2> QED
      BY <1>0, <1>4, <2>1, HaltType DEF PruneFails, MemoryOK, effects
  <1>5. CASE NoPrune
    <2>1. DiskOK'
      BY <1>0, <1>5 DEF NoPrune, DiskOK, storeVars
    <2> QED
      BY <1>0, <1>5, <2>1
      DEF NoPrune, MemoryOK, Phases, Starting, Halted, Live, history,
          authority, effects, lifetime, leaseVars, storeVars, window
  <1>6. ASSUME NEW g \in doomed, RemoveSegment(g)
        PROVE  TInv'
    <2>1. DiskOK'
      BY SMT, <1>0, <1>6
      DEF RemoveSegment, DiskOK, RemoveFile, Restrict, Fault
    <2> QED
      BY <1>0, <1>6, <2>1
      DEF RemoveSegment, MemoryOK, Phases, Starting, Halted, Live, 
          authority, effects, leaseVars, writer, window
  <1>7. CASE CreateSegment
    <2>1. DiskOK'
      BY <1>0, <1>7 DEF CreateSegment, DiskOK, MemoryOK, Extended, Tails
    <2>2. fabric' \in Fabric /\ epoch' \in Nat
      BY SMT, <1>0, <1>7, FabricFacts DEF CreateSegment, MemoryOK, RestartEpoch
    <2> QED
      BY <1>0, <1>7, <2>1, <2>2
      DEF CreateSegment, MemoryOK, Phases, Starting, Halted, Live, history,
          authority, effects, lifetime, leaseVars, window, boot
  <1>8. CASE CreateFails
    <2>1. DiskOK'
      BY SMT, <1>0, <1>8
      DEF CreateFails, DiskOK, MemoryOK, Fault, Extended, Tails
    <2> QED
      BY <1>0, <1>8, <2>1, HaltType DEF CreateFails, MemoryOK, effects
  <1>9. ASSUME phase \in Live
        PROVE  /\ fabric \in Fabric
               /\ StartRecord \in Record /\ StartRecord.type = "IncarnationStart"
               /\ FabricRecord(fabric) \in Record
               /\ FabricRecord(fabric).type = "FabricSnapshot"
    BY <1>0, <1>9, RecordsType DEF MemoryOK, TInv
  <1>10. CASE Announce
    <2>1. DiskOK' /\ last' \in Nat
      BY <1>0, <1>9, <1>10, AppendOkType DEF Announce, Live, MemoryOK
    <2> QED
      BY <1>0, <1>10, <2>1
      DEF Announce, MemoryOK, AppendOk, Phases, Starting, Halted, Live, 
          authority, effects, leaseVars, window, boot
  <1>11. CASE Baseline
    <2>1. DiskOK' /\ last' \in Nat
      BY <1>0, <1>9, <1>11, AppendOkType DEF Baseline, Live, MemoryOK
    <2> QED
      BY <1>0, <1>9, <1>11, <2>1
      DEF Baseline, MemoryOK, AppendOk, Phases, Starting, Halted, Live, 
          authority, effects, window, boot, Larger
  <1>12. CASE StartAppendFails
    <2>1. DiskOK'
      BY <1>0, <1>9, <1>12, NotAppendedType DEF StartAppendFails, Live, MemoryOK
    <2>2. (maybe \subseteq Fabric)'
      BY <1>0, <1>9, <1>12 DEF StartAppendFails, Live, MemoryOK
    <2> QED
      BY <1>0, <1>12, <2>1, <2>2, HaltType DEF StartAppendFails, MemoryOK
  <1> QED
    BY <1>1, <1>2, <1>3, <1>4, <1>5, <1>6, <1>7, <1>8, <1>10, <1>11, <1>12
    DEF StartStep

\* The operations of a running controller keep every variable well typed.
LEMMA RunType ==
    ASSUME TInv,
           PublishStep \/ ClientStep \/ Expire \/ SweepLease \/ Compact \/ Stop
             \/ Kill
    PROVE  TInv'
  <1> USE TInvParts
  <1>0. DiskOK /\ MemoryOK
    OBVIOUS
  <1>a. ASSUME phase \in Live
        PROVE  /\ fabric \in Fabric
               /\ FenceRecord \in Record /\ FenceRecord.type = "Fence"
               /\ \A f \in Fabric : /\ FabricRecord(f) \in Record
                                    /\ FabricRecord(f).type = "FabricSnapshot"
               /\ \A r \in Requests : /\ CommitRecord(r) \in Record
                                      /\ CommitRecord(r).req = r
                                      /\ Applied(r) \in Fabric
    BY <1>0, <1>a, RecordsType, ApplyType, TargetType
    DEF MemoryOK, TInv, Applied
  <1>b. ASSUME phase = "commit"
        PROVE  /\ pending \in Commits /\ pending.fab \in Fabric
               /\ pending.fab.gen \in Nat /\ Digest(pending.fab) \in Digests
    BY <1>0, <1>b, FabricFacts, DigestType DEF MemoryOK, Commits
  <1>1. CASE ApplyPublish
    <2>1. DiskOK'
      BY <1>0, <1>1 DEF ApplyPublish, DiskOK, storeVars
    <2>2. lease' \in Tokens \cup {NoLease}
      <3>1. CASE lease = NoLease
        BY <1>1, <3>1 DEF ApplyPublish
      <3>2. CASE lease # NoLease
        <4>1. lease \in Tokens
          BY <1>0, <3>2 DEF MemoryOK
        <4>2. lease' = [lease EXCEPT !.gen = pending.fab.gen,
                                     !.digest = Digest(pending.fab)]
          BY <1>1, <3>2 DEF ApplyPublish
        <4>3. pending.fab.gen \in Nat /\ Digest(pending.fab) \in Digests
          BY <1>b, <1>1 DEF ApplyPublish
        <4> QED BY <4>1, <4>2, <4>3 DEF Tokens
      <3> QED BY <3>1, <3>2
    <2>3. issued' \subseteq [tok: Tokens, grant: Nat]
      <3>1. CASE lease = NoLease
        BY <1>0, <1>1, <3>1 DEF ApplyPublish, MemoryOK
      <3>2. CASE lease # NoLease
        <4>1. lease' \in Tokens
          BY <1>0, <1>1, <1>b, <2>2, <3>2 DEF ApplyPublish, MemoryOK, Tokens
        <4> QED BY SMT, <1>0, <1>1, <3>2, <4>1 DEF ApplyPublish, MemoryOK
      <3> QED BY <3>1, <3>2
    <2>4. Result(pending.req, pending.fab.gen, epoch) \in Results
      BY <1>0, <1>b, <1>1 DEF ApplyPublish, Result, Results, Commits, MemoryOK
    <2> QED
      BY <1>0, <1>b, <1>1, <2>1, <2>2, <2>3, <2>4
      DEF ApplyPublish, MemoryOK, Phases, Starting, Halted, Live, lifetime,
          boot, storeVars
  <1>2. CASE InstallPublish
    <2>1. DiskOK'
      BY <1>0, <1>2 DEF InstallPublish, DiskOK, storeVars
    <2> QED
      BY <1>0, <1>b, <1>2, <2>1
      DEF InstallPublish, MemoryOK, Phases, Starting, Halted, Live, lifetime,
          boot, storeVars, leaseVars, authority
  <1>3. CASE AcquireAuthority
    <2>1. DiskOK' /\ last' \in Nat
      BY <1>0, <1>a, <1>3, AppendOkType DEF AcquireAuthority, Live, MemoryOK
    <2>2. lease' \in Tokens /\ leases' \in Nat
      BY SMT, <1>0, <1>a, <1>3, MintType
      DEF AcquireAuthority, Live, MemoryOK, NewLeaseId
    <2>3. grants' \in Nat /\ issued' \subseteq [tok: Tokens, grant: Nat]
      BY SMT, <1>0, <1>3, <2>2 DEF AcquireAuthority, MemoryOK
    <2> QED
      BY <1>0, <1>3, <2>1, <2>2, <2>3
      DEF AcquireAuthority, AppendOk, MemoryOK, Live, effects, lifetime, boot,
          window
  <1>4. CASE AcquireFails
    <2>1. DiskOK'
      BY <1>0, <1>a, <1>4, NotAppendedType
      DEF AcquireFails, AppendFails, Live, MemoryOK
    <2>2. poisoned' \in BOOLEAN /\ seg' \in Nat /\ last' \in Nat
      BY <1>0, <1>4 DEF AcquireFails, AppendFails, MemoryOK
    <2>3. leases' \in Nat
      BY SMT, <1>0, <1>4 DEF AcquireFails, NewLeaseId, MemoryOK
    <2> QED
      BY <1>0, <1>4, <2>1, <2>2, <2>3
      DEF AcquireFails, MemoryOK, Live, history, authority, effects, lifetime,
          boot, window
  <1>5. CASE RevokeAuthority
    <2>1. DiskOK' /\ last' \in Nat /\ seg' \in Nat
      BY <1>0, <1>a, <1>5, NotAppendedType, AppendOkType
      DEF RevokeAuthority, AppendOk, AppendFails, Live, MemoryOK
    <2>2. poisoned' \in BOOLEAN
      BY <1>0, <1>5 DEF RevokeAuthority, AppendOk, AppendFails, MemoryOK
    <2> QED
      BY <1>0, <1>5, <2>1, <2>2
      DEF RevokeAuthority, MemoryOK, Live, history,
          authority, effects, lifetime, boot, window
  <1>6. ASSUME NEW r \in Requests, NEW i \in issued, NEW want \in Coordinates,
               ApplyCommit(r, i.tok, want)
        PROVE  TInv'
    <2>0. phase = "up"
      BY <1>6 DEF ApplyCommit, Admitted
    <2>1. DiskOK' /\ last' \in Nat
      BY <1>0, <1>a, <1>6, <2>0, AppendOkType DEF ApplyCommit, Live, MemoryOK
    <2>2. pending' \in Commits /\ pending' # NoPending /\ maybe' \subseteq Fabric
      BY SMT, <1>0, <1>a, <1>6, <2>0, ControllerAssumption
      DEF ApplyCommit, Live, Commits, MemoryOK
    <2> QED
      BY SMT, <1>0, <1>6, <2>0, <2>1, <2>2
      DEF ApplyCommit, AppendOk, MemoryOK, Live, Phases, authority, lifetime,
          boot, leaseVars
  <1>7. ASSUME NEW r \in Requests, NEW i \in issued, NEW want \in Coordinates,
               ApplyFails(r, i.tok, want)
        PROVE  TInv'
    <2>0. phase = "up"
      BY <1>7 DEF ApplyFails, Admitted
    <2>1. DiskOK'
      BY <1>0, <1>a, <1>7, <2>0, NotAppendedType
      DEF ApplyFails, AppendFails, Live, MemoryOK
    <2>2. maybe' \subseteq Fabric
      BY <1>0, <1>a, <1>7, <2>0 DEF ApplyFails, Live, MemoryOK
    <2> QED
      BY SMT, <1>0, <1>7, <2>1, <2>2
      DEF ApplyFails, AppendFails, MemoryOK, Live, authority, lifetime,
          boot, leaseVars, window, CanAppend
  <1>8. ASSUME NEW d \in dedup, ApplyDuplicate(d)
        PROVE  TInv'
    <2>1. DiskOK'
      BY <1>0, <1>8 DEF ApplyDuplicate, DiskOK, storeVars
    <2> QED
      BY <1>0, <1>8, <2>1
      DEF ApplyDuplicate, MemoryOK, Live, authority, effects, lifetime, boot,
          window, leaseVars, storeVars
  <1>9. ASSUME NEW f \in Specs, NEW replace \in BOOLEAN,
               InstallCommit(f, replace)
        PROVE  TInv'
    <2>0. phase = "up" /\ f \in Fabric
      BY <1>9, FabricFacts DEF InstallCommit
    <2>1. DiskOK' /\ last' \in Nat
      BY <1>0, <1>a, <1>9, <2>0, AppendOkType DEF InstallCommit, Live, MemoryOK
    <2>2. pending' \in Commits /\ pending' # NoPending
      BY SMT, <1>9, <2>0, ControllerAssumption DEF InstallCommit, Commits
    <2> QED
      BY SMTT(30), <1>0, <1>9, <2>0, <2>1, <2>2
      DEF InstallCommit, AppendOk, MemoryOK, Live, Phases, authority, lifetime,
          boot, leaseVars
  <1>10. ASSUME NEW f \in Specs, NEW replace \in BOOLEAN,
                InstallFails(f, replace)
         PROVE  TInv'
    <2>0. phase = "up" /\ f \in Fabric
      BY <1>10, FabricFacts DEF InstallFails
    <2>1. DiskOK'
      BY <1>0, <1>a, <1>10, <2>0, NotAppendedType
      DEF InstallFails, AppendFails, Live, MemoryOK
    <2> QED
      BY SMTT(30), <1>0, <1>10, <2>0, <2>1
      DEF InstallFails, AppendFails, MemoryOK, Live, authority, lifetime,
          boot, leaseVars, window, CanAppend
  <1>11. CASE Expire \/ SweepLease
    <2>1. DiskOK'
      BY <1>0, <1>11 DEF Expire, SweepLease, DiskOK, storeVars
    <2> QED
      BY <1>0, <1>11, <2>1
      DEF Expire, SweepLease, MemoryOK, Live, history, authority, effects,
          lifetime, boot, window, storeVars
  <1>12. CASE Compact
    <2>1. DiskOK'
      BY <1>0, <1>a, <1>12
      DEF Compact, WriteSnapshot, Snapshot, Live, DiskOK, MemoryOK
    <2> QED
      BY <1>0, <1>12, <2>1
      DEF Compact, MemoryOK, Live, history, authority, effects, lifetime, boot,
          window, leaseVars, writer
  <1>13. CASE Stop
    <2>1. /\ DOMAIN tails' = DOMAIN tails
          /\ \A g \in DOMAIN tails : tails'[g] \in Tails
      BY <1>0, <1>13
      DEF Stop, CloseClean, CloseFails, TrailedTails, DiskOK, Tails
    <2>2. faults' \in Nat /\ UNCHANGED <<log, snapshot>>
      BY SMT, <1>0, <1>13 DEF Stop, CloseClean, CloseFails, Fault, DiskOK
    <2>3. DiskOK'
      BY <1>0, <2>1, <2>2 DEF DiskOK
    <2>4. Halt /\ leases' \in Nat /\ UNCHANGED <<published, maybe, observed>>
      BY <1>0, <1>13 DEF Stop, MemoryOK, effects
    <2> QED
      BY <1>0, <2>3, <2>4, HaltType DEF MemoryOK
  <1>14. CASE Kill
    <2>1. DiskOK'
      BY <1>0, <1>14 DEF Kill, KilledWriting, Extended, DiskOK, MemoryOK, Tails
    <2> QED
      BY <1>0, <1>14, <2>1, HaltType DEF Kill, MemoryOK, effects
  <1> QED
    BY <1>1, <1>2, <1>3, <1>4, <1>5, <1>6, <1>7, <1>8, <1>9, <1>10, <1>11,
       <1>12, <1>13, <1>14
    DEF PublishStep, ClientStep

\* An empty directory and a controller that is down are well typed.
LEMMA InitType == Init => TInv
  <1> SUFFICES ASSUME Init PROVE DiskOK /\ MemoryOK
    BY TInvParts
  <1>1. DiskOK
    BY DEF Init, StoreInit, DiskOK
  <1>2. MemoryOK
    BY DEF Init, StoreInit, MemoryOK, Phases, Halted, Live
  <1> QED BY <1>1, <1>2

\* Every step of the controller keeps the types.
LEMMA StepType == TInv /\ [Next]_vars => TInv'
  <1> SUFFICES ASSUME TInv, [Next]_vars PROVE TInv'
    OBVIOUS
  <1>1. CASE UNCHANGED vars
    <2>1. DiskOK' /\ MemoryOK'
      BY <1>1, TInvParts
      DEF DiskOK, MemoryOK, vars, storeVars, boot, leaseVars, window, history,
          authority, effects, lifetime
    <2> QED BY <2>1, TInvParts
  <1>2. CASE Next
    BY <1>2, StartType, RunType DEF Next
  <1> QED BY <1>1, <1>2

\* Every variable of the controller, its store and the history keeps its type
\* in every behaviour: no operation of the runtime, no kill and no failed I/O
\* call leads to a dereference of a missing fabric or commit.
THEOREM TypeCorrect == Spec => []TypeOK
  <1>1. Spec => []TInv
    BY InitType, StepType, PTL DEF Spec
  <1>2. TInv => TypeOK
    BY DEF TInv
  <1> QED BY <1>1, <1>2, PTL

-----------------------------------------------------------------------------
(* A restart advances the epoch, unless a start was killed between the     *)
(* removal of segments and its own announcement.                           *)

\* The record, if any, that a step adds carries the live epoch.
Writes(rec) == log' = log \/ log' = Extended(log, last + 1, rec)

\* The types that comparisons of epochs rely on.
LEMMA EpochTypes ==
    ASSUME TInv
    PROVE  /\ epoch \in Nat /\ topEpoch \in Nat /\ cursor \in Nat /\ last \in Nat
           /\ phase \in Phases /\ pruning \in {"no", "removing", "cut"}
           /\ \A s \in DOMAIN log : s \in Nat /\ s > 0 /\ log[s].epoch \in Nat
  <1>1. /\ epoch \in Nat /\ topEpoch \in Nat /\ cursor \in Nat
        /\ phase \in Phases /\ pruning \in {"no", "removing", "cut"} /\ StoreTypeOK
    BY DEF TInv, TypeOK
  <1>2. /\ last \in Nat /\ DOMAIN log \subseteq Nat \ {0}
        /\ \A s \in DOMAIN log : log[s] \in Record
    BY <1>1 DEF StoreTypeOK
  <1>3. \A r \in Record : r.epoch \in Nat
    BY DEF Record
  <1>4. \A s \in DOMAIN log : s \in Nat /\ s > 0
    BY SMT, <1>2
  <1> QED BY <1>1, <1>2, <1>3, <1>4

\* A record of the live epoch, which is not below the highest live one, keeps
\* that one in the journal, whatever record it may replace.
LEMMA EpochKept ==
    ASSUME TInv, NEW rec, rec.epoch = epoch, Writes(rec),
           log' # log => epoch >= topEpoch,
           topEpoch = 0 \/ \E s \in DOMAIN log : log[s].epoch >= topEpoch
    PROVE  topEpoch = 0 \/ \E s \in DOMAIN log' : log'[s].epoch >= topEpoch
  <1>1. CASE log' = log
    BY <1>1
  <1>2. CASE log' # log
    <2>1. last + 1 \in DOMAIN log' /\ log'[last + 1] = rec
      BY <1>2 DEF Writes, Extended
    <2> QED BY <1>2, <2>1
  <1> QED BY <1>1, <1>2

\* The records of the model carry the live epoch.
LEMMA RecordEpochs ==
    /\ StartRecord.epoch = epoch /\ FenceRecord.epoch = epoch
    /\ \A f : FabricRecord(f).epoch = epoch
    /\ \A r : CommitRecord(r).epoch = epoch
  BY DEF StartRecord, FenceRecord, FabricRecord, CommitRecord, Rec

\* What a running controller does, a restart apart.
LEMMA EpochRunning ==
    ASSUME TInv, EpochInv, NEW rec, rec.epoch = epoch, Writes(rec),
           phase \in {"up", "commit"}, phase' \in {"up", "commit"},
           UNCHANGED <<epoch, topEpoch, pruning>>
    PROVE  EpochInv'
  <1>1. pruning = "no" =>
          topEpoch = 0 \/ \E s \in DOMAIN log' : log'[s].epoch >= topEpoch
    BY EpochKept DEF EpochInv
  <1> QED BY <1>1 DEF EpochInv, EpochAdvancesUncut, EpochAdvances

\* The end of a run or of a start.
LEMMA EpochHalt ==
    ASSUME TInv, EpochInv, Halt, NEW rec, rec.epoch = epoch, Writes(rec),
           log' # log => phase \in {"announce", "baseline"}
    PROVE  EpochInv'
  <1>1. pruning = "no" =>
          topEpoch = 0 \/ \E s \in DOMAIN log' : log'[s].epoch >= topEpoch
    <2>1. pruning = "no" /\ log' # log => epoch >= topEpoch
      BY SMT, EpochTypes DEF EpochInv, EpochAdvancesUncut, EpochAdvances
    <2> QED BY <2>1, EpochKept DEF EpochInv
  <1>2. phase' = "down" /\ topEpoch' = topEpoch
          /\ pruning' = IF pruning = "removing" THEN "cut" ELSE pruning
    BY DEF Halt
  <1>3. pruning' # "removing" /\ (pruning' = "no" => pruning = "no")
    BY <1>2
  <1> QED BY <1>1, <1>2, <1>3 DEF EpochInv, EpochAdvancesUncut, EpochAdvances

\* The steps of start().
LEMMA EpochStart ==
    ASSUME TInv, EpochInv, StartRecovery \/ StartStep
    PROVE  EpochInv'
  <1> USE EpochTypes
  <1>1. CASE StartRecovery
    <2>1. phase \in Halted /\ phase' \in {"refused", "scan"} /\ cursor' = 0
            /\ UNCHANGED <<log, topEpoch, pruning>>
      BY <1>1 DEF StartRecovery, disk, history, lifetime
    <2>2. pruning # "removing"
      BY <2>1 DEF EpochInv, Halted
    <2>3. \A s \in DOMAIN log : ~(s <= 0)
      BY SMT
    <2> QED
      BY <2>1, <2>2, <2>3
      DEF EpochInv, EpochAdvancesUncut, EpochAdvances, Halted
  <1>2. ASSUME NEW s \in DOMAIN log, ScanRecord(s)
        PROVE  EpochInv'
    <2>1. phase = "scan" /\ phase' = "scan" /\ cursor' = s
            /\ epoch' = Larger(epoch, log[s].epoch)
            /\ UNCHANGED <<log, topEpoch, pruning>>
      BY <1>2 DEF ScanRecord, disk, history, lifetime
    <2>2. \A t \in DOMAIN log : t <= s => t <= cursor \/ t = s
      BY SMT, <1>2 DEF ScanRecord, NextRecord
    <2>3. \A t \in DOMAIN log : t <= cursor' => log[t].epoch <= epoch'
      BY SMT, <2>1, <2>2 DEF EpochInv, Larger
    <2> QED BY <2>1, <2>3 DEF EpochInv, EpochAdvancesUncut, EpochAdvances
  <1>3. CASE Prune \/ NoPrune
    <2>1. phase = "scan" /\ (\A t \in DOMAIN log : t <= cursor)
            /\ phase' \in {"prune", "create"}
            /\ UNCHANGED <<log, epoch, topEpoch, pruning>>
      BY <1>3 DEF Prune, NoPrune, Scanned, history, lifetime, storeVars
    <2>2. pruning # "cut" => epoch >= topEpoch
      <3>1. pruning # "cut" => pruning = "no"
        BY <2>1 DEF EpochInv
      <3>2. ASSUME NEW s \in DOMAIN log, log[s].epoch >= topEpoch
            PROVE  epoch >= topEpoch
        BY SMT, <2>1, <3>2 DEF EpochInv
      <3> QED BY SMT, <3>1, <3>2 DEF EpochInv
    <2> QED
      BY <2>1, <2>2 DEF EpochInv, EpochAdvancesUncut, EpochAdvances
  <1>4. CASE PruneFails \/ CreateFails
    <2>1. Halt /\ log' = log
      BY <1>4 DEF PruneFails, CreateFails, disk
    <2> QED BY <2>1, RecordEpochs, EpochHalt DEF Writes
  <1>5. ASSUME NEW g \in doomed, RemoveSegment(g)
        PROVE  EpochInv'
    <2>1. phase = "prune" /\ phase' \in {"prune", "create"}
            /\ UNCHANGED <<epoch, topEpoch>>
      BY <1>5 DEF RemoveSegment
    <2>2. \/ UNCHANGED <<log, pruning>>
          \/ pruning' = IF pruning = "cut" THEN "cut" ELSE "removing"
      BY <1>5 DEF RemoveSegment
    <2> QED
      BY <2>1, <2>2 DEF EpochInv, EpochAdvancesUncut, EpochAdvances
  <1>6. CASE CreateSegment
    <2>1. phase = "create" /\ phase' = "announce" /\ epoch' = epoch + 1
            /\ UNCHANGED <<log, topEpoch, pruning>>
      BY <1>6 DEF CreateSegment, RestartEpoch, history, lifetime
    <2> QED
      BY SMT, <2>1 DEF EpochInv, EpochAdvancesUncut, EpochAdvances
  <1>7. CASE Announce
    <2>1. phase = "announce" /\ phase' = "baseline"
            /\ UNCHANGED <<epoch, topEpoch>>
            /\ pruning' = IF pruning = "removing" THEN "no" ELSE pruning
      BY <1>7 DEF Announce
    <2>2. last + 1 \in DOMAIN log' /\ log'[last + 1].epoch = epoch
      BY <1>7, RecordEpochs DEF Announce, AppendOk, Extended
    <2>3. pruning # "cut" => epoch > topEpoch
      BY <2>1 DEF EpochInv, EpochAdvancesUncut, EpochAdvances
    <2> QED
      BY SMT, <2>1, <2>2, <2>3 DEF EpochInv, EpochAdvancesUncut, EpochAdvances
  <1>8. CASE Baseline
    <2>1. phase = "baseline" /\ phase' = "up" /\ UNCHANGED <<epoch, pruning>>
            /\ topEpoch' = Larger(topEpoch, epoch)
      BY <1>8 DEF Baseline
    <2>2. last + 1 \in DOMAIN log' /\ log'[last + 1].epoch = epoch
      BY <1>8, RecordEpochs DEF Baseline, AppendOk, Extended
    <2>3. pruning # "cut" => epoch > topEpoch
      BY <2>1 DEF EpochInv, EpochAdvancesUncut, EpochAdvances
    <2> QED
      BY SMT, <2>1, <2>2, <2>3
      DEF EpochInv, EpochAdvancesUncut, EpochAdvances, Larger
  <1>9. CASE StartAppendFails
    <2>1. Halt /\ phase \in {"announce", "baseline"}
      BY <1>9 DEF StartAppendFails
    <2>2. Writes(StartRecord) \/ Writes(FabricRecord(fabric))
      BY <1>9 DEF StartAppendFails, NotAppended, Writes
    <2> QED BY <2>1, <2>2, RecordEpochs, EpochHalt
  <1> QED
    BY <1>1, <1>2, <1>3, <1>4, <1>5, <1>6, <1>7, <1>8, <1>9 DEF StartStep

\* Every step keeps the highest live epoch on record, unless a pruning is under
\* way.
LEMMA EpochStep == TInv /\ EpochInv /\ [Next]_vars => EpochInv'
  <1> SUFFICES ASSUME TInv, EpochInv, [Next]_vars PROVE EpochInv'
    OBVIOUS
  <1>1. CASE PublishStep \/ SweepLease \/ Compact
               \/ (\E d \in dedup : ApplyDuplicate(d))
    <2>1. phase \in {"up", "commit"} /\ phase' \in {"up", "commit"}
            /\ UNCHANGED <<log, epoch, topEpoch, pruning>>
      BY <1>1
      DEF PublishStep, ApplyPublish, InstallPublish, SweepLease, Compact,
          ApplyDuplicate, storeVars, history, lifetime
    <2> QED BY <2>1, RecordEpochs, EpochRunning DEF Writes
  <1>2. CASE AcquireAuthority \/ AcquireFails \/ RevokeAuthority
    <2>1. phase = "up" /\ phase' = "up" /\ UNCHANGED <<epoch, topEpoch, pruning>>
      BY <1>2
      DEF AcquireAuthority, AcquireFails, RevokeAuthority, history, lifetime
    <2>2. Writes(FenceRecord)
      BY <1>2
      DEF AcquireAuthority, AcquireFails, RevokeAuthority, AppendOk,
          AppendFails, NotAppended, Writes
    <2> QED BY <2>1, <2>2, RecordEpochs, EpochRunning
  <1>3. ASSUME NEW r \in Requests, NEW i \in issued, NEW want \in Coordinates,
               ApplyCommit(r, i.tok, want) \/ ApplyFails(r, i.tok, want)
        PROVE  EpochInv'
    <2>1. phase = "up" /\ phase' \in {"up", "commit"}
            /\ UNCHANGED <<epoch, topEpoch, pruning>>
      BY <1>3 DEF ApplyCommit, ApplyFails, Admitted, lifetime
    <2>2. Writes(CommitRecord(r))
      BY <1>3
      DEF ApplyCommit, ApplyFails, AppendOk, AppendFails, NotAppended, Writes
    <2> QED BY <2>1, <2>2, RecordEpochs, EpochRunning
  <1>4. ASSUME NEW f \in Specs, NEW replace \in BOOLEAN,
               InstallCommit(f, replace) \/ InstallFails(f, replace)
        PROVE  EpochInv'
    <2>1. phase = "up" /\ phase' \in {"up", "commit"}
            /\ UNCHANGED <<epoch, topEpoch, pruning>>
      BY <1>4 DEF InstallCommit, InstallFails, lifetime
    <2>2. Writes(FabricRecord(f))
      BY <1>4
      DEF InstallCommit, InstallFails, AppendOk, AppendFails, NotAppended, Writes
    <2> QED BY <2>1, <2>2, RecordEpochs, EpochRunning
  <1>5. CASE Expire \/ UNCHANGED vars
    <2>1. UNCHANGED <<log, phase, epoch, topEpoch, pruning, cursor>>
      BY <1>5 DEF Expire, vars, storeVars, boot, history, lifetime
    <2> QED BY <2>1 DEF EpochInv, EpochAdvancesUncut, EpochAdvances
  <1>6. CASE Stop \/ Kill
    <2>1. Halt /\ log' = log
      BY <1>6 DEF Stop, Kill, CloseClean, CloseFails
    <2> QED BY <2>1, RecordEpochs, EpochHalt DEF Writes
  <1> QED
    BY <1>1, <1>2, <1>3, <1>4, <1>5, <1>6, EpochStart DEF Next, ClientStep

\* A restart runs at a higher epoch than every incarnation that was live before
\* it (start(): "A restart always advances the epoch"), as long as no start is
\* killed between the removal of segments and the IncarnationStart record.
THEOREM RestartsAdvance == Spec => []EpochAdvancesUncut
  <1>1. Init => TInv /\ EpochInv
    BY InitType
    DEF Init, StoreInit, EpochInv, EpochAdvancesUncut, EpochAdvances
  <1>2. TInv /\ EpochInv /\ [Next]_vars => TInv' /\ EpochInv'
    BY StepType, EpochStep
  <1>3. EpochInv => EpochAdvancesUncut
    BY DEF EpochInv
  <1> QED BY <1>1, <1>2, <1>3, PTL DEF Spec

-----------------------------------------------------------------------------
(* Recovery.                                                               *)

\* The types recovery relies on.
LEMMA RecoveryTypes ==
    ASSUME TInv
    PROVE  /\ seg \in Nat /\ last \in Nat /\ cursor \in Nat /\ faults \in Nat
           /\ Watermark \in Nat /\ phase \in Phases /\ poisoned \in BOOLEAN
           /\ DOMAIN tails \subseteq Nat
           /\ \A s \in DOMAIN log : s \in Nat /\ s > 0 /\ log[s].seg \in Nat
  BY SMT DEF TInv, TypeOK, StoreTypeOK, Record, Snapshot, Watermark

-----------------------------------------------------------------------------
(* What one more record does to the journal.                               *)

\* The records of the model are written to the open segment.
LEMMA RecordSegments ==
    /\ StartRecord.seg = seg /\ FenceRecord.seg = seg
    /\ \A f : FabricRecord(f).seg = seg
    /\ \A r : CommitRecord(r).seg = seg
  BY DEF StartRecord, FenceRecord, FabricRecord, CommitRecord, Rec

\* What SegmentInv, NumberInv and CauseInv say of the disk alone.
DiskInv ==
    /\ \A s \in DOMAIN log : log[s].seg \in DOMAIN tails
    /\ \A s, t \in DOMAIN log : s < t => log[s].seg <= log[t].seg
    /\ Continuous
    /\ DOMAIN log # {} => \E s \in DOMAIN log : Watermark <= s
    /\ Unreadable => faults > 0

\* The journal ends at last, where a live incarnation appends.
Appending ==
    /\ phase \in {"announce", "baseline", "up"}
    /\ DOMAIN log = {} \/ IsNewest(last, DOMAIN log)
    /\ IsNewest(seg, DOMAIN tails)
    /\ Watermark <= last

\* Where append() is allowed, the journal ends at last in the newest segment.
LEMMA CanAppendHere ==
    ASSUME TInv, RecoveryInv, CanAppend, phase \in {"announce", "baseline", "up"}
    PROVE  DiskInv /\ Appending
  BY DEF RecoveryInv, SegmentInv, NumberInv, CauseInv, DiskInv, Appending,
         CanAppend, Live, Halted, IsNewest

\* One more record keeps the numbering continuous and the segments in order.
LEMMA OneMoreRecord ==
    ASSUME TInv, DiskInv, Appending, NEW rec, rec.seg = seg,
           log' = Extended(log, last + 1, rec),
           DOMAIN tails' = DOMAIN tails, snapshot' = snapshot,
           Unreadable' => faults' > 0
    PROVE  DiskInv' /\ IsNewest(last + 1, DOMAIN log')
  <1> USE RecoveryTypes
  <1>1. DOMAIN log' = DOMAIN log \cup {last + 1} /\ log'[last + 1].seg = seg
          /\ \A s \in DOMAIN log : s # last + 1 => log'[s] = log[s]
    BY DEF Extended
  <1>2. \A s \in DOMAIN log : s <= last
    BY DEF Appending, IsNewest
  <1>3. \A s \in DOMAIN log : log'[s].seg = log[s].seg /\ log[s].seg <= seg
    BY SMT, <1>1, <1>2 DEF DiskInv, Appending, IsNewest
  <1>4. \A s \in DOMAIN log' : log'[s].seg \in DOMAIN tails'
    BY <1>1, <1>3 DEF DiskInv, Appending, IsNewest
  <1>5. \A s, t \in DOMAIN log' : s < t => log'[s].seg <= log'[t].seg
    BY SMT, <1>1, <1>2, <1>3 DEF DiskInv
  <1>6. Continuous'
    <2> SUFFICES ASSUME NEW s \in DOMAIN log', NEW t \in DOMAIN log',
                        NEW u \in s..t
                 PROVE  u \in DOMAIN log'
      BY DEF Continuous
    <2>1. s \in Nat /\ t \in Nat /\ s <= u /\ u <= t /\ u \in Int
      BY SMT, <1>1
    <2>2. CASE u = last + 1
      BY <1>1, <2>2
    <2>3. CASE u # last + 1
      <3>1. u <= last /\ s \in DOMAIN log
        BY SMT, <1>1, <1>2, <2>1, <2>3
      <3>2. last \in DOMAIN log
        BY <3>1 DEF Appending, IsNewest
      <3> QED BY SMT, <1>1, <2>1, <3>1, <3>2 DEF DiskInv, Continuous
    <2> QED BY <2>2, <2>3
  <1>7. Watermark' = Watermark /\ Watermark <= last + 1
    BY SMT DEF Watermark, Appending
  <1> QED BY SMT, <1>1, <1>2, <1>4, <1>5, <1>6, <1>7 DEF DiskInv, IsNewest

-----------------------------------------------------------------------------
(* The steps.                                                              *)

\* What the invariant says of the memory of the runtime.
RuntimeInv ==
    /\ phase \in {"scan", "prune", "create"} => \A g \in DOMAIN tails : g < seg
    /\ phase \in Live => IsNewest(seg, DOMAIN tails)
    /\ poisoned => phase = "up"
    /\ phase \notin Halted => Watermark <= last
    /\ phase = "scan" =>
         cursor \in {0} \cup DOMAIN log /\ last = Larger(Watermark, cursor)
    /\ phase \in {"prune", "create", "announce"} =>
         DOMAIN log = {} \/ IsNewest(last, DOMAIN log)
    /\ phase \in {"baseline", "up", "commit"} =>
         /\ last \in DOMAIN log
         /\ \A s \in DOMAIN log : s <= last \/ (poisoned /\ s = last + 1)
    /\ phase = "prune" =>
         /\ doomed = DOMAIN tails /\ snapshot # NoSnapshot
         /\ \/ Watermark = 0
            \/ /\ Watermark \in DOMAIN log
               /\ IsNewest(log[Watermark].seg, DOMAIN tails)
    /\ phase \in Live /\ tails[seg] = "torn" => faults > 0
    /\ phase = "refused" => BeyondBounds \/ Unreadable

\* The recovery invariant is about the disk and about the runtime.
LEMMA RecoveryParts ==
    /\ RecoveryInv <=> DiskInv /\ RuntimeInv
    /\ RecoveryInv' <=> DiskInv' /\ RuntimeInv'
  BY DEF RecoveryInv, SegmentInv, NumberInv, CauseInv, DiskInv, RuntimeInv

\* A halted runtime relies on the disk alone.
LEMMA HaltRecovery ==
    ASSUME Halt, DiskInv'
    PROVE  RecoveryInv'
  <1>1. RuntimeInv'
    BY DEF Halt, RuntimeInv, Live, Halted
  <1> QED BY <1>1, RecoveryParts

\* A record becomes durable.
LEMMA AppendRecovery ==
    ASSUME TInv, RecoveryInv, NEW rec, rec.seg = seg, AppendOk(rec),
           phase \in {"announce", "baseline", "up"},
           phase' \in {"baseline", "up", "commit"}
    PROVE  RecoveryInv'
  <1> USE RecoveryTypes
  <1>1. DiskInv /\ Appending /\ RuntimeInv
    BY CanAppendHere, RecoveryParts DEF AppendOk
  <1>2. UNCHANGED <<tails, snapshot, seg, poisoned, faults>> /\ ~poisoned
          /\ log' = Extended(log, last + 1, rec) /\ last' = last + 1
    BY DEF AppendOk, CanAppend
  <1>3. Unreadable' => faults' > 0
    BY <1>1, <1>2 DEF DiskInv, Unreadable
  <1>4. DiskInv' /\ IsNewest(last', DOMAIN log')
    BY <1>1, <1>2, <1>3, OneMoreRecord
  <1>5. RuntimeInv'
    BY SMT, <1>1, <1>2, <1>4
    DEF RuntimeInv, Appending, Live, Halted, IsNewest, Watermark
  <1> QED BY <1>4, <1>5, RecoveryParts

\* An append fails: the disk is left with nothing, a part or all of the record.
LEMMA NotAppendedDisk ==
    ASSUME TInv, RecoveryInv, NEW rec, rec.seg = seg, NotAppended(rec),
           phase \in {"announce", "baseline", "up"}
    PROVE  /\ DiskInv' /\ DOMAIN tails' = DOMAIN tails /\ snapshot' = snapshot
           /\ DOMAIN log' \subseteq DOMAIN log \cup {last + 1}
           /\ DOMAIN log \subseteq DOMAIN log'
           /\ DOMAIN log' # DOMAIN log => CanAppend
           /\ tails'[seg] = "torn" => faults' > 0
  <1> USE RecoveryTypes
  <1>0. DiskInv /\ RuntimeInv
    BY RecoveryParts
  <1>1. CASE UNCHANGED <<log, tails, snapshot, faults>>
    BY <1>0, <1>1
    DEF DiskInv, RuntimeInv, Live, Continuous, Watermark, Unreadable
  <1>2. CASE CanAppend /\ Fault /\ UNCHANGED <<log, tails, snapshot>>
    <2>1. faults' > 0
      BY SMT, <1>2 DEF Fault
    <2> QED
      BY <1>0, <1>2, <2>1 DEF DiskInv, Continuous, Watermark, Unreadable
  <1>3. CASE /\ CanAppend /\ Fault /\ tails' = [tails EXCEPT ![seg] = "torn"]
             /\ UNCHANGED <<log, snapshot>>
    <2>1. faults' > 0 /\ DOMAIN tails' = DOMAIN tails
      BY SMT, <1>3 DEF Fault
    <2> QED
      BY <1>0, <1>3, <2>1 DEF DiskInv, Continuous, Watermark
  <1>4. CASE /\ CanAppend /\ Fault /\ log' = Extended(log, last + 1, rec)
             /\ UNCHANGED <<tails, snapshot>>
    <2>1. faults' > 0
      BY SMT, <1>4 DEF Fault
    <2>2. DiskInv'
      BY <1>4, <2>1, CanAppendHere, OneMoreRecord
    <2> QED BY <1>4, <2>1, <2>2 DEF Extended
  <1> QED BY <1>1, <1>2, <1>3, <1>4 DEF NotAppended

\* A failed append may leave a record behind the last, and poisons the segment.
LEMMA AppendFailsRecovery ==
    ASSUME TInv, RecoveryInv, NEW rec, rec.seg = seg, AppendFails(rec),
           phase = "up", phase' = "up"
    PROVE  RecoveryInv'
  <1> USE RecoveryTypes
  <1>1. RuntimeInv
    BY RecoveryParts
  <1>2. /\ DiskInv' /\ DOMAIN tails' = DOMAIN tails /\ snapshot' = snapshot
        /\ DOMAIN log' \subseteq DOMAIN log \cup {last + 1}
        /\ DOMAIN log \subseteq DOMAIN log'
        /\ DOMAIN log' # DOMAIN log => CanAppend
        /\ tails'[seg] = "torn" => faults' > 0
    BY NotAppendedDisk DEF AppendFails
  <1>3. UNCHANGED <<seg, last>> /\ (poisoned \/ CanAppend => poisoned')
    BY DEF AppendFails
  <1>4. \A s \in DOMAIN log' : s <= last \/ (poisoned' /\ s = last + 1)
    BY <1>1, <1>2, <1>3 DEF RuntimeInv
  <1>5. RuntimeInv'
    BY <1>1, <1>2, <1>3, <1>4
    DEF RuntimeInv, Live, Halted, IsNewest, Watermark
  <1> QED BY <1>2, <1>5, RecoveryParts

\* A running controller leaves its store alone.
LEMMA StoreUntouched ==
    ASSUME RecoveryInv, UNCHANGED storeVars, phase \in {"up", "commit"},
           phase' \in {"up", "commit"}, poisoned => phase' = "up"
    PROVE  RecoveryInv'
  <1>1. DiskInv'
    BY RecoveryParts
    DEF DiskInv, storeVars, Continuous, Watermark, Unreadable
  <1>2. RuntimeInv'
    BY RecoveryParts DEF RuntimeInv, storeVars, Live, Halted, Watermark
  <1> QED BY <1>1, <1>2, RecoveryParts

\* The directory a continuous journal leaves is refused for its size or for an
\* unreadable segment only.
LEMMA FatalForCause ==
    ASSUME Continuous, Status \in FatalStatuses
    PROVE  BeyondBounds \/ Unreadable
  BY DEF Status, FatalStatuses, BeyondBounds

\* start() begins above every segment, with nothing read yet.
LEMMA BeginRecovery ==
    ASSUME TInv, RecoveryInv, StartRecovery
    PROVE  RecoveryInv'
  <1> USE RecoveryTypes
  <1>1. DiskInv /\ RuntimeInv
    BY RecoveryParts
  <1>2. /\ phase \in Halted /\ UNCHANGED <<log, tails, snapshot, poisoned, faults>>
        /\ cursor' = 0 /\ last' = Watermark /\ phase' \in {"refused", "scan"}
        /\ phase' = "refused" => Status \in FatalStatuses
    BY DEF StartRecovery, disk
  <1>3. \A g \in DOMAIN tails : g < seg'
    BY SMT DEF StartRecovery, IsNewest
  <1>4. DiskInv' /\ Watermark' = Watermark
          /\ BeyondBounds' = BeyondBounds /\ Unreadable' = Unreadable
    BY <1>1, <1>2
    DEF DiskInv, Continuous, Watermark, Unreadable, BeyondBounds, TooManySegments,
        TooLarge, TooMuchToReplay, FileRecords, RecordsOf, Covered
  <1>5. phase' = "refused" => BeyondBounds' \/ Unreadable'
    BY <1>1, <1>2, <1>4, FatalForCause DEF DiskInv
  <1>6. ~poisoned'
    BY <1>1, <1>2 DEF RuntimeInv, Halted
  <1>7. last' = Larger(Watermark', cursor')
    BY SMT, <1>2, <1>4 DEF Larger
  <1>8. RuntimeInv'
    BY SMT, <1>2, <1>3, <1>4, <1>5, <1>6, <1>7 DEF RuntimeInv, Live, Halted
  <1> QED BY <1>4, <1>8, RecoveryParts

\* Recovery reads the next record in order.
LEMMA ScanRecovery ==
    ASSUME TInv, RecoveryInv, NEW s \in DOMAIN log, ScanRecord(s)
    PROVE  RecoveryInv'
  <1> USE RecoveryTypes
  <1>1. DiskInv /\ RuntimeInv
    BY RecoveryParts
  <1>2. /\ UNCHANGED <<log, tails, snapshot, seg, poisoned, faults>>
        /\ phase = "scan" /\ phase' = "scan" /\ s > cursor /\ cursor' = s
        /\ last' = Larger(last, s)
    BY DEF ScanRecord, NextRecord, disk
  <1>3. DiskInv' /\ Watermark' = Watermark
    BY <1>1, <1>2 DEF DiskInv, Continuous, Watermark, Unreadable
  <1>4. last' = Larger(Watermark, s)
    BY SMT, <1>1, <1>2 DEF RuntimeInv, Larger
  <1>5. RuntimeInv'
    BY SMT, <1>1, <1>2, <1>3, <1>4 DEF RuntimeInv, Live, Halted, Larger
  <1> QED BY <1>3, <1>5, RecoveryParts

\* Once every record was read, the numbering goes on behind the newest one.
LEMMA ScannedLast ==
    ASSUME TInv, RecoveryInv, Scanned
    PROVE  DOMAIN log = {} \/ IsNewest(last, DOMAIN log)
  <1> USE RecoveryTypes
  <1> SUFFICES ASSUME NEW s \in DOMAIN log, Watermark <= s
               PROVE  IsNewest(last, DOMAIN log)
    BY DEF RecoveryInv, NumberInv
  <1>1. s <= cursor /\ cursor \in DOMAIN log
    BY SMT DEF Scanned, RecoveryInv, NumberInv
  <1>2. last = cursor
    BY SMT, <1>1 DEF Scanned, RecoveryInv, NumberInv, Larger
  <1> QED BY <1>1, <1>2 DEF Scanned, IsNewest

\* The snapshot that precedes a pruning covers every record.
LEMMA PruneRecovery ==
    ASSUME TInv, RecoveryInv, Prune
    PROVE  RecoveryInv'
  <1> USE RecoveryTypes
  <1>1. DiskInv /\ RuntimeInv
    BY RecoveryParts
  <1>2. /\ UNCHANGED <<log, tails, seg, last, poisoned, faults>>
        /\ Scanned /\ phase = "scan" /\ phase' = "prune" /\ doomed' = DOMAIN tails
    BY DEF Prune, Scanned, writer
  <1>3. PICK g \in DOMAIN tails, w \in {0} \cup DOMAIN log :
          /\ IsNewest(g, DOMAIN tails) /\ IsLastSequence(w, g)
          /\ snapshot' = [fab |-> fabric, mark |-> w]
    BY DEF Prune, WriteSnapshot
  <1>4. w \in Nat /\ (w = 0 \/ (w \in DOMAIN log /\ log[w].seg = g))
    BY SMT, <1>3 DEF IsLastSequence, IsNewest, RecordsOf
  <1>5. snapshot' # NoSnapshot
    <2>1. fabric \in Fabric
      BY DEF Prune, AtBound, TInv, TypeOK
    <2>2. snapshot' \in Snapshot
      BY <1>3, <1>4, <2>1 DEF Snapshot
    <2> QED BY <2>2, StoreAssumption
  <1>6. Watermark' = w
    BY <1>3, <1>5 DEF Watermark
  <1>7. DOMAIN log = {} \/ IsNewest(last, DOMAIN log)
    BY <1>2, ScannedLast
  <1>8. DiskInv'
    BY SMT, <1>1, <1>2, <1>4, <1>6 DEF DiskInv, Continuous, Unreadable
  <1>9. w <= last
    BY SMT, <1>4, <1>7 DEF IsNewest
  <1>10. RuntimeInv'
    BY <1>1, <1>2, <1>3, <1>4, <1>5, <1>6, <1>7, <1>9
    DEF RuntimeInv, Live, Halted
  <1> QED BY <1>8, <1>10, RecoveryParts

\* The oldest segment is removed: what is left is still continuous, and still
\* reaches the watermark or is empty.
LEMMA RemoveRecovery ==
    ASSUME TInv, RecoveryInv, ~RemovalsFail, NEW g \in doomed, RemoveSegment(g)
    PROVE  RecoveryInv'
  <1> USE RecoveryTypes
  <1>1. DiskInv /\ RuntimeInv
    BY RecoveryParts
  <1>2. /\ phase = "prune" /\ doomed = DOMAIN tails /\ doomed' = doomed \ {g}
        /\ phase' = IF doomed' = {} THEN "create" ELSE "prune"
        /\ g \in DOMAIN tails /\ \A h \in DOMAIN tails : g <= h
        /\ UNCHANGED <<snapshot, seg, last, poisoned, faults>>
    BY <1>1 DEF RemoveSegment, NextDoomed, RuntimeInv, writer
  <1>3. /\ tails' = [h \in DOMAIN tails \ {g} |-> tails[h]]
        /\ log' = [s \in DOMAIN log \ RecordsOf(g) |-> log[s]]
    BY DEF RemoveSegment, RemoveFile, Restrict
  <1>4. /\ DOMAIN tails' = DOMAIN tails \ {g}
        /\ \A h \in DOMAIN tails' : tails'[h] = tails[h]
        /\ \A s : s \in DOMAIN log' <=> s \in DOMAIN log /\ log[s].seg # g
        /\ \A s \in DOMAIN log' : log'[s] = log[s]
    BY <1>3 DEF RecordsOf
  <1>5. \A s \in DOMAIN log : g <= log[s].seg
    BY <1>1, <1>2 DEF DiskInv
  <1>6. \A s, t \in DOMAIN log : s <= t /\ log[s].seg # g => log[t].seg # g
    BY SMT, <1>1, <1>5 DEF DiskInv
  <1>7. Continuous'
    <2> SUFFICES ASSUME NEW s \in DOMAIN log', NEW t \in DOMAIN log',
                        NEW u \in s..t
                 PROVE  u \in DOMAIN log'
      BY DEF Continuous
    <2>1. s \in DOMAIN log /\ t \in DOMAIN log /\ log[s].seg # g
      BY <1>4
    <2>2. u \in DOMAIN log /\ s <= u
      BY SMT, <1>1, <2>1 DEF DiskInv, Continuous
    <2> QED BY <1>4, <1>6, <2>1, <2>2
  <1>8. Watermark' = Watermark
    BY <1>2 DEF Watermark
  <1>9. \/ Watermark = 0 \/ DOMAIN log' = {}
        \/ /\ Watermark \in DOMAIN log'
           /\ IsNewest(log'[Watermark].seg, DOMAIN tails')
    <2> SUFFICES ASSUME Watermark # 0, NEW s \in DOMAIN log'
                 PROVE  /\ Watermark \in DOMAIN log'
                        /\ IsNewest(log'[Watermark].seg, DOMAIN tails')
      OBVIOUS
    <2>1. Watermark \in DOMAIN log /\ IsNewest(log[Watermark].seg, DOMAIN tails)
      BY <1>1, <1>2 DEF RuntimeInv
    <2>2. s \in DOMAIN log /\ log[s].seg # g /\ log[s].seg \in DOMAIN tails
      BY <1>1, <1>4 DEF DiskInv
    <2>3. g < log[s].seg /\ log[s].seg <= log[Watermark].seg
      BY SMT, <1>2, <2>1, <2>2 DEF IsNewest
    <2>4. log[Watermark].seg # g
      BY SMT, <1>2, <2>1, <2>2, <2>3
    <2> QED BY <1>4, <2>1, <2>4 DEF IsNewest
  <1>10. DiskInv'
    <2>1. \A s \in DOMAIN log' : log'[s].seg \in DOMAIN tails'
      BY <1>1, <1>4 DEF DiskInv
    <2>2. \A s, t \in DOMAIN log' : s < t => log'[s].seg <= log'[t].seg
      BY <1>1, <1>4 DEF DiskInv
    <2>3. DOMAIN log' # {} => \E s \in DOMAIN log' : Watermark' <= s
      BY SMT, <1>4, <1>8, <1>9
    <2>4. Unreadable' => faults' > 0
      BY <1>1, <1>2, <1>4 DEF DiskInv, Unreadable
    <2> QED BY <1>7, <2>1, <2>2, <2>3, <2>4 DEF DiskInv
  <1>11. DOMAIN log' = {} \/ IsNewest(last, DOMAIN log')
    <2> SUFFICES ASSUME NEW s \in DOMAIN log' PROVE IsNewest(last, DOMAIN log')
      OBVIOUS
    <2>1. s \in DOMAIN log /\ log[s].seg # g /\ IsNewest(last, DOMAIN log)
      BY <1>1, <1>2, <1>4 DEF RuntimeInv
    <2> QED BY <1>4, <1>6, <2>1 DEF IsNewest
  <1>12. \A h \in DOMAIN tails' : h < seg'
    BY <1>1, <1>2, <1>4 DEF RuntimeInv
  <1>13. phase' = "prune" => Watermark' = 0 \/ DOMAIN log' # {}
    BY SMT, <1>1, <1>2, <1>4, <1>8 DEF RuntimeInv, IsNewest
  <1>14. RuntimeInv'
    BY <1>1, <1>2, <1>4, <1>8, <1>9, <1>11, <1>12, <1>13
    DEF RuntimeInv, Live, Halted
  <1> QED BY <1>10, <1>14, RecoveryParts

\* The new segment is the newest.
LEMMA CreateRecovery ==
    ASSUME TInv, RecoveryInv, CreateSegment
    PROVE  RecoveryInv'
  <1> USE RecoveryTypes
  <1>1. DiskInv /\ RuntimeInv
    BY RecoveryParts
  <1>2. /\ phase = "create" /\ phase' = "announce" /\ ~poisoned'
        /\ UNCHANGED <<log, snapshot, seg, last, faults>>
    BY DEF CreateSegment
  <1>3. /\ DOMAIN tails' = DOMAIN tails \cup {seg} /\ tails'[seg] = "open"
        /\ \A g \in DOMAIN tails : g # seg => tails'[g] = tails[g]
    BY DEF CreateSegment, Extended
  <1>4. Watermark' = Watermark
    BY <1>2 DEF Watermark
  <1>5. DiskInv'
    BY <1>1, <1>2, <1>3, <1>4 DEF DiskInv, Continuous, Unreadable
  <1>6. RuntimeInv'
    BY SMT, <1>1, <1>2, <1>3, <1>4 DEF RuntimeInv, Live, Halted, IsNewest
  <1> QED BY <1>5, <1>6, RecoveryParts

\* No step of start() leaves a directory that the next one cannot read, where
\* removals succeed.
LEMMA StartRecovers ==
    ASSUME TInv, RecoveryInv, ~RemovalsFail, StartStep
    PROVE  RecoveryInv'
  <1> USE RecoveryTypes
  <1>0. DiskInv /\ RuntimeInv
    BY RecoveryParts
  <1>1. CASE PruneFails \/ CreateFails
    <2>1. Halt /\ UNCHANGED <<log, snapshot>> /\ faults' > 0
      BY SMT, <1>1 DEF PruneFails, CreateFails, Fault, disk
    <2>2. DOMAIN tails \subseteq DOMAIN tails'
      BY <1>1 DEF PruneFails, CreateFails, Extended, disk
    <2>3. DiskInv'
      BY <1>0, <2>1, <2>2 DEF DiskInv, Continuous, Watermark
    <2> QED BY <2>1, <2>3, HaltRecovery
  <1>2. CASE NoPrune
    <2>1. UNCHANGED <<log, tails, snapshot, seg, last, poisoned, faults>>
            /\ Scanned /\ phase = "scan" /\ phase' = "create"
      BY <1>2 DEF NoPrune, Scanned, storeVars
    <2>2. DiskInv'
      BY <1>0, <2>1 DEF DiskInv, Continuous, Watermark, Unreadable
    <2>3. RuntimeInv'
      BY <1>0, <2>1, ScannedLast DEF RuntimeInv, Live, Halted, Watermark
    <2> QED BY <2>2, <2>3, RecoveryParts
  <1>3. CASE Announce
    BY <1>3, AppendRecovery, RecordSegments DEF Announce
  <1>4. CASE Baseline
    BY <1>4, AppendRecovery, RecordSegments DEF Baseline
  <1>5. CASE StartAppendFails
    <2>1. Halt
      BY <1>5 DEF StartAppendFails
    <2>2. DiskInv'
      BY <1>5, NotAppendedDisk, RecordSegments DEF StartAppendFails
    <2> QED BY <2>1, <2>2, HaltRecovery
  <1> QED
    BY <1>1, <1>2, <1>3, <1>4, <1>5, ScanRecovery, PruneRecovery,
       RemoveRecovery, CreateRecovery
    DEF StartStep

\* stop() and kill leave a trailer, a part of a record or an empty file; only
\* behind a torn record is the trailer unreadable.
LEMMA EndRecovers ==
    ASSUME TInv, RecoveryInv, Stop \/ Kill
    PROVE  RecoveryInv'
  <1> USE RecoveryTypes
  <1>0. DiskInv /\ RuntimeInv
    BY RecoveryParts
  <1>1. Halt /\ UNCHANGED <<log, snapshot>>
    BY DEF Stop, Kill, CloseClean, CloseFails
  <1>2. DOMAIN tails \subseteq DOMAIN tails'
    BY DEF Stop, Kill, CloseClean, CloseFails, KilledWriting, Extended
  <1>3. Unreadable' => faults' > 0
    <2>1. CASE Stop /\ CloseFails
      BY SMT, <2>1 DEF CloseFails, Fault
    <2>2. CASE Stop /\ CloseClean
      <3>1. faults' = faults /\ (tails[seg] = "torn" => faults > 0)
        BY <1>0, <2>2 DEF Stop, CloseClean, RuntimeInv, Live
      <3>2. tails[seg] # "torn" => tails' = [tails EXCEPT ![seg] = "closed"]
        BY <2>2 DEF CloseClean, TrailedTails
      <3> QED BY <1>0, <3>1, <3>2 DEF DiskInv, Unreadable
    <2>3. CASE Kill
      <3>1. faults' = faults
        BY <2>3 DEF Kill
      <3>2. \A g \in DOMAIN tails' : tails'[g] = "mangled" =>
              g \in DOMAIN tails /\ tails[g] = "mangled"
        BY <2>3 DEF Kill, KilledWriting, Extended
      <3> QED BY <1>0, <3>1, <3>2 DEF DiskInv, Unreadable
    <2> QED BY <2>1, <2>2, <2>3 DEF Stop
  <1>4. DiskInv'
    BY <1>0, <1>1, <1>2, <1>3 DEF DiskInv, Continuous, Watermark
  <1> QED BY <1>1, <1>4, HaltRecovery

\* No step at all does.
LEMMA RecoveryStep ==
    ~RemovalsFail /\ TInv /\ RecoveryInv /\ [Next]_vars => RecoveryInv'
  <1> SUFFICES ASSUME ~RemovalsFail, TInv, RecoveryInv, [Next]_vars
               PROVE  RecoveryInv'
    OBVIOUS
  <1> USE RecoveryTypes
  <1>0. RuntimeInv
    BY RecoveryParts
  <1>1. CASE PublishStep \/ SweepLease \/ (\E d \in dedup : ApplyDuplicate(d))
    <2>1. /\ UNCHANGED storeVars /\ phase \in {"up", "commit"} /\ phase' = "up"
      BY <1>1
      DEF PublishStep, ApplyPublish, InstallPublish, SweepLease, ApplyDuplicate
    <2> QED BY <2>1, StoreUntouched
  <1>2. CASE AcquireAuthority
    BY <1>2, AppendRecovery, RecordSegments DEF AcquireAuthority
  <1>3. CASE AcquireFails
    BY <1>3, AppendFailsRecovery, RecordSegments DEF AcquireFails
  <1>4. CASE RevokeAuthority
    BY <1>4, AppendRecovery, AppendFailsRecovery, RecordSegments
    DEF RevokeAuthority
  <1>5. ASSUME NEW r \in Requests, NEW i \in issued, NEW want \in Coordinates,
               ApplyCommit(r, i.tok, want) \/ ApplyFails(r, i.tok, want)
        PROVE  RecoveryInv'
    <2>1. phase = "up"
      BY <1>5 DEF ApplyCommit, ApplyFails, Admitted
    <2>2. CASE ApplyCommit(r, i.tok, want)
      BY <2>1, <2>2, AppendRecovery, RecordSegments DEF ApplyCommit
    <2>3. CASE ApplyFails(r, i.tok, want)
      BY <2>1, <2>3, AppendFailsRecovery, RecordSegments DEF ApplyFails
    <2> QED BY <1>5, <2>2, <2>3
  <1>6. ASSUME NEW f \in Specs, NEW replace \in BOOLEAN,
               InstallCommit(f, replace) \/ InstallFails(f, replace)
        PROVE  RecoveryInv'
    <2>1. CASE InstallCommit(f, replace)
      BY <2>1, AppendRecovery, RecordSegments DEF InstallCommit
    <2>2. CASE InstallFails(f, replace)
      BY <2>2, AppendFailsRecovery, RecordSegments DEF InstallFails
    <2> QED BY <1>6, <2>1, <2>2
  <1>7. CASE Compact
    <2>1. /\ phase = "up" /\ phase' = "up"
          /\ UNCHANGED <<log, tails, seg, last, poisoned, faults>>
          /\ snapshot' = [fab |-> fabric, mark |-> last]
      BY <1>7 DEF Compact, WriteSnapshot, writer
    <2>2. Watermark' = last
      <3>1. snapshot' \in Snapshot
        BY <2>1 DEF Snapshot, TInv, ShapeInv, Live
      <3> QED BY <2>1, <3>1, StoreAssumption DEF Watermark
    <2>3. DiskInv'
      <3>1. DiskInv
        BY RecoveryParts
      <3>2. last \in DOMAIN log
        BY <1>0, <2>1 DEF RuntimeInv
      <3>3. Continuous' /\ (Unreadable' => faults' > 0)
        BY <2>1, <3>1 DEF DiskInv, Continuous, Unreadable
      <3>4. last <= last
        <4>1. last \in Nat
          BY RecoveryTypes
        <4> QED BY SMT, <4>1
      <3>5. Watermark' <= last /\ last \in DOMAIN log'
        BY <2>1, <2>2, <3>2, <3>4
      <3> QED BY <2>1, <3>1, <3>3, <3>5 DEF DiskInv
    <2>4. RuntimeInv'
      BY SMTT(30), <1>0, <2>1, <2>2 DEF RuntimeInv, Live, Halted
    <2> QED BY <2>3, <2>4, RecoveryParts
  <1>8. CASE Expire \/ UNCHANGED vars
    <2>1. UNCHANGED <<storeVars, phase, cursor, doomed>>
      BY <1>8 DEF Expire, vars, boot
    <2>2. DiskInv'
      BY <2>1, RecoveryParts
      DEF DiskInv, storeVars, Continuous, Watermark, Unreadable
    <2>3. RuntimeInv'
      BY <1>0, <2>1
      DEF RuntimeInv, storeVars, Watermark, Unreadable, BeyondBounds, TooManySegments,
          TooLarge, TooMuchToReplay, FileRecords, RecordsOf, Covered
    <2> QED BY <2>2, <2>3, RecoveryParts
  <1> QED
    BY <1>1, <1>2, <1>3, <1>4, <1>5, <1>6, <1>7, <1>8, BeginRecovery,
       StartRecovers, EndRecovers
    DEF Next, ClientStep

\* However often a controller is killed, pruned and restarted, and wherever an
\* append fails, start() refuses its directory only beyond a bound of the reader
\* (segments, bytes of a segment, records to replay) or for a segment an I/O error
\* left unreadable: the sequence numbers stay continuous across segments
\* (recover_store), provided removals succeed.
THEOREM RefusalsHaveCause == ~RemovalsFail => (Spec => []RefusedForCause)
  <1> SUFFICES ASSUME ~RemovalsFail PROVE Spec => []RefusedForCause
    OBVIOUS
  <1>1. Init => TInv /\ RecoveryInv
    <2> SUFFICES ASSUME Init PROVE DiskInv /\ RuntimeInv
      BY InitType, RecoveryParts
    <2>1. DiskInv
      BY DEF Init, StoreInit, DiskInv, Continuous, Unreadable
    <2>2. RuntimeInv
      BY DEF Init, StoreInit, RuntimeInv, Live, Halted
    <2> QED BY <2>1, <2>2
  <1>2. TInv /\ RecoveryInv /\ [Next]_vars => TInv' /\ RecoveryInv'
    BY StepType, RecoveryStep
  <1>3. RecoveryInv => RefusedForCause
    BY DEF RecoveryInv, CauseInv, RefusedForCause
  <1> QED BY <1>1, <1>2, <1>3, PTL DEF Spec

-----------------------------------------------------------------------------
(* What the journal leads to.                                              *)

\* Neither the snapshot nor a record changes.
LEMMA ReplayUnmoved ==
    ASSUME UNCHANGED <<log, snapshot>>, NEW st, NEW top, Replay(st, top)
    PROVE  Replay(st, top)' /\ Base' = Base /\ Watermark' = Watermark
  BY DEF Replay, Base, Before, Ends, Watermark

\* One more record: the replay goes on from where it ended.
LEMMA ReplayAppended ==
    ASSUME TInv, NEW st, NEW top \in Nat, Replay(st, top), NEW rec, NEW k \in Nat,
           Ends(k), log' = Extended(log, k + 1, rec), snapshot' = snapshot
    PROVE  \E new : /\ Replay(new, k + 1)'
                    /\ \A n \in Nat : n <= k => new[n] = st[n]
                    /\ new[k + 1] = Replayed(st[top], rec)
                    /\ st[k] = st[top]
  <1>0. PICK R : R = Replayed(st[top], rec)
    OBVIOUS
  <1>3. PICK new : \A n \in Nat : new[n] = IF n <= k THEN st[n] ELSE R
    <2>1. \A n \in Nat : [m \in Nat |-> IF m <= k THEN st[m] ELSE R][n]
                           = IF n <= k THEN st[n] ELSE R
      OBVIOUS
    <2> QED BY <2>1
  <1>1. st[k] = st[top]
    BY DEF Replay
  <1>2. /\ DOMAIN log' = DOMAIN log \cup {k + 1} /\ log'[k + 1] = rec
        /\ \A s \in DOMAIN log : s \in Nat /\ s <= k /\ log'[s] = log[s]
    BY SMT, RecoveryTypes DEF Extended, Ends
  <1>5. \A n \in Nat :
          new[n + 1] = IF n + 1 \in DOMAIN log' THEN Replayed(new[n], log'[n + 1])
                       ELSE new[n]
    <2> SUFFICES ASSUME NEW n \in Nat
                 PROVE  new[n + 1] = IF n + 1 \in DOMAIN log'
                                     THEN Replayed(new[n], log'[n + 1])
                                     ELSE new[n]
      OBVIOUS
    <2>1. CASE n + 1 <= k
      <3>1. new[n + 1] = st[n + 1] /\ new[n] = st[n]
        BY SMT, <1>3, <2>1
      <3>2. n + 1 \in DOMAIN log' <=> n + 1 \in DOMAIN log
        BY SMT, <1>2, <2>1
      <3> QED BY <1>2, <3>1, <3>2 DEF Replay
    <2>2. CASE n = k
      <3>1. new[n + 1] = R /\ new[n] = st[top]
        BY SMT, <1>1, <1>3, <2>2
      <3> QED BY <1>0, <1>2, <2>2, <3>1
    <2>3. CASE n > k
      <3>1. new[n + 1] = R /\ new[n] = R /\ n + 1 \notin DOMAIN log'
        BY SMT, <1>2, <1>3, <2>3
      <3> QED BY <3>1
    <2> QED BY SMT, <2>1, <2>2, <2>3
  <1>6. Base' = Base
    BY DEF Base
  <1>7. \A m \in Nat : Before(m)' => new[m] = Base'
    <2> SUFFICES ASSUME NEW m \in Nat, \A s \in DOMAIN log' : m < s
                 PROVE  new[m] = Base
      BY <1>6 DEF Before
    <2>1. m <= k /\ Before(m)
      BY SMT, <1>2 DEF Before
    <2> QED BY <1>3, <2>1 DEF Replay
  <1>8. \A s \in DOMAIN log' : s <= k + 1
    BY SMT, <1>2
  <1>9. \A m \in Nat : Ends(m)' => new[m] = new[k + 1]
    <2> SUFFICES ASSUME NEW m \in Nat, \A s \in DOMAIN log' : s <= m
                 PROVE  new[m] = new[k + 1]
      BY DEF Ends
    <2>1. m > k
      BY SMT, <1>2
    <2> QED BY SMT, <1>3, <2>1
  <1>10. Replay(new, k + 1)'
    BY <1>5, <1>7, <1>8, <1>9 DEF Replay, Ends
  <1> QED BY SMTT(30), <1>0, <1>1, <1>3, <1>10

\* A new snapshot, or the oldest records gone: what the records before the
\* first fabric snapshot of the journal are applied to changes, and as no
\* commit is among them, nothing else does.
LEMMA ReplayRebased ==
    ASSUME TInv, TInv', NEW st, NEW top \in Nat, Replay(st, top), OpenedInv,
           \A s \in DOMAIN log' : s \in DOMAIN log /\ log'[s] = log[s],
           \A s \in DOMAIN log', t \in DOMAIN log :
             s < t \/ log[s].seg = log[t].seg => t \in DOMAIN log'
    PROVE  \E new : /\ Replay(new, top)'
                    /\ \A n \in Nat : new[n] \in {st[n], Base'}
  <1> DEFINE Fixed(n) ==
               \E u \in DOMAIN log' : u <= n /\ log'[u].type = "FabricSnapshot"
  <1>1. PICK new : \A n \in Nat : new[n] = IF Fixed(n) THEN st[n] ELSE Base'
    <2>1. \A n \in Nat : [m \in Nat |-> IF Fixed(m) THEN st[m] ELSE Base'][n]
                           = IF Fixed(n) THEN st[n] ELSE Base'
      OBVIOUS
    <2> QED BY <2>1
  <1>0. \A s \in DOMAIN log' : s \in Nat /\ s > 0
    BY RecoveryTypes
  <1>2. \A n \in Nat :
          new[n + 1] = IF n + 1 \in DOMAIN log' THEN Replayed(new[n], log'[n + 1])
                       ELSE new[n]
    <2> SUFFICES ASSUME NEW n \in Nat
                 PROVE  new[n + 1] = IF n + 1 \in DOMAIN log'
                                     THEN Replayed(new[n], log'[n + 1])
                                     ELSE new[n]
      OBVIOUS
    <2>0. Fixed(n + 1) <=> \/ Fixed(n)
                           \/ n + 1 \in DOMAIN log'
                              /\ log'[n + 1].type = "FabricSnapshot"
      BY SMT, <1>0
    <2>1. CASE Fixed(n)
      <3>1. new[n] = st[n] /\ new[n + 1] = st[n + 1]
        <4> HIDE DEF Fixed
        <4>1. Fixed(n + 1) /\ n + 1 \in Nat
          BY SMT, <2>0, <2>1
        <4> QED BY <1>1, <2>1, <4>1
      <3>2. n + 1 \in DOMAIN log <=> n + 1 \in DOMAIN log'
        <4>1. PICK u \in DOMAIN log' : u <= n
          BY <2>1
        <4>2. u < n + 1
          BY SMT, <1>0, <4>1
        <4> QED BY <4>2
      <3>3. st[n + 1] = IF n + 1 \in DOMAIN log THEN Replayed(st[n], log[n + 1])
                        ELSE st[n]
        BY DEF Replay
      <3> QED BY <3>1, <3>2, <3>3
    <2>2. CASE n + 1 \in DOMAIN log' /\ log'[n + 1].type = "FabricSnapshot"
      <3>1. new[n + 1] = st[n + 1]
        BY SMT, <1>1, <2>0, <2>2
      <3>2. st[n + 1] = Replayed(st[n], log[n + 1]) /\ log'[n + 1] = log[n + 1]
        BY <2>2 DEF Replay
      <3>3. \A f : Replayed(f, log[n + 1]) = log[n + 1].fab
        BY <2>2 DEF Replayed
      <3> QED BY <2>2, <3>1, <3>2, <3>3
    <2>3. CASE ~Fixed(n + 1)
      <3>1. new[n] = Base' /\ new[n + 1] = Base'
        BY SMT, <1>1, <2>0, <2>3
      <3>2. ASSUME n + 1 \in DOMAIN log'
            PROVE  log'[n + 1].type \notin {"FabricSnapshot", "CommandCommit"}
        <4>1. log'[n + 1].type # "FabricSnapshot"
          BY <2>0, <2>3, <3>2
        <4>2. ASSUME log'[n + 1].type = "CommandCommit"
              PROVE  FALSE
          <5>1. PICK u \in DOMAIN log :
                  u < n + 1 /\ log[u].seg = log[n + 1].seg
                    /\ log[u].type = "FabricSnapshot"
            BY <3>2, <4>2 DEF OpenedInv, Opens
          <5>2. u \in DOMAIN log' /\ log'[u] = log[u]
            BY <3>2, <5>1
          <5>3. u <= n + 1
            BY SMT, <1>0, <5>1, <5>2
          <5> QED BY <2>3, <5>1, <5>2, <5>3
        <4> QED BY <4>1, <4>2
      <3>3. n + 1 \in DOMAIN log' => \A f : Replayed(f, log'[n + 1]) = f
        BY <3>2 DEF Replayed
      <3> QED BY <3>1, <3>3
    <2> QED BY <2>0, <2>1, <2>2, <2>3
  <1>3. \A m \in Nat : Before(m)' => new[m] = Base'
    <2> SUFFICES ASSUME NEW m \in Nat, \A s \in DOMAIN log' : m < s
                 PROVE  new[m] = Base'
      BY DEF Before
    <2>1. ~Fixed(m)
      BY SMT, <1>0
    <2> QED BY <1>1, <2>1
  <1>4. \A s \in DOMAIN log' : s <= top
    BY DEF Replay, Ends
  <1>5. \A m \in Nat : Ends(m)' => new[m] = new[top]
    <2> SUFFICES ASSUME NEW m \in Nat, \A s \in DOMAIN log' : s <= m
                 PROVE  new[m] = new[top]
      BY DEF Ends
    <2>1. Fixed(m) <=> Fixed(top)
      BY <1>4
    <2>2. CASE ~Fixed(m)
      BY <1>1, <2>1, <2>2
    <2>3. CASE Fixed(m)
      <3>1. PICK u \in DOMAIN log' : u <= m
        BY <2>3
      <3>2. Ends(m)
        <4> SUFFICES ASSUME NEW t \in DOMAIN log PROVE t <= m
          BY DEF Ends
        <4>1. t \in Nat
          BY RecoveryTypes
        <4>2. CASE t <= u
          BY SMT, <1>0, <3>1, <4>1, <4>2
        <4>3. CASE u < t
          BY <4>3
        <4> QED BY SMT, <1>0, <4>1, <4>2, <4>3
      <3>3. st[m] = st[top]
        BY <3>2 DEF Replay
      <3> QED BY <1>1, <2>1, <2>3, <3>3
    <2> QED BY <2>2, <2>3
  <1>6. Replay(new, top)'
    BY <1>2, <1>3, <1>4, <1>5 DEF Replay, Ends
  <1> QED BY <1>1, <1>6

\* What the phases that append know of the fabric the journal leads to.
Leads(old) ==
    /\ old \in {published} \cup maybe
    /\ phase \in {"announce", "baseline"} =>
         fabric = old \/ (old = NoFabric /\ fabric = EmptyFabric)
    /\ phase = "up" => old = fabric /\ published = fabric

\* Where a record goes, and what the journal leads to before and after it.
LEMMA AppendTold ==
    ASSUME TInv, RecoveryInv, DurableInv, CanAppend, NEW rec,
           phase \in {"announce", "baseline", "up"},
           log' = Extended(log, last + 1, rec), snapshot' = snapshot
    PROVE  \E new, old : \E k \in Nat :
             /\ k = last /\ Replay(new, k + 1)' /\ (new[Watermark] = Base)'
             /\ new[k] = old /\ new[k + 1] = Replayed(old, rec)
             /\ Leads(old)
  <1>1. PICK k \in Nat : k = last
    BY RecoveryTypes
  <1>2. PICK st : \E top \in Nat : Replay(st, top) /\ Told(st, top)
    BY DEF DurableInv
  <1>3. PICK top \in Nat : Replay(st, top) /\ Told(st, top)
    BY <1>2
  <1>4. Appending
    BY CanAppendHere
  <1>5. Ends(k) /\ Watermark <= k /\ Watermark \in Nat
    BY <1>1, <1>4, RecoveryTypes DEF Appending, Ends, IsNewest
  <1>6. PICK new : /\ Replay(new, k + 1)'
                   /\ \A n \in Nat : n <= k => new[n] = st[n]
                   /\ new[k + 1] = Replayed(st[top], rec)
                   /\ st[k] = st[top]
    BY SMTT(30), <1>1, <1>3, <1>5, ReplayAppended
  <1>7. Watermark' = Watermark /\ Base' = Base
    BY DEF Watermark, Base
  <1>8. (new[Watermark] = Base)'
    BY <1>3, <1>5, <1>6, <1>7 DEF Told
  <1>9. new[k] = st[top]
    BY SMT, <1>6
  <1>10. Leads(st[top])
    BY <1>1, <1>3, <1>6 DEF Told, Leads
  <1> QED BY <1>1, <1>6, <1>8, <1>9, <1>10

\* One more record keeps the segments opened by a fabric snapshot.
LEMMA AppendOpened ==
    ASSUME TInv, RecoveryInv, OpenedInv, CanAppend, NEW rec, rec.seg = seg,
           phase \in {"announce", "baseline", "up"},
           log' = Extended(log, last + 1, rec),
           rec.type = "CommandCommit" => phase = "up",
           phase' \in {"up", "commit"} =>
             /\ seg' = seg /\ last' \in {last, last + 1}
             /\ phase = "up" \/ (last' = last + 1 /\ rec.type = "FabricSnapshot")
    PROVE  OpenedInv'
  <1>1. /\ DOMAIN log' = DOMAIN log \cup {last + 1} /\ log'[last + 1] = rec
        /\ \A s \in DOMAIN log : s \in Nat /\ s <= last /\ log'[s] = log[s]
        /\ last \in Nat
    BY SMT, CanAppendHere, RecoveryTypes DEF Extended, Appending, IsNewest
  <1>2. phase = "up" => \E u \in DOMAIN log : u <= last /\ Opens(u, seg)
    BY DEF OpenedInv
  <1>3. \A u \in DOMAIN log : \A g : Opens(u, g) => Opens(u, g)'
    BY <1>1 DEF Opens
  <1>4. ASSUME NEW s \in DOMAIN log', log'[s].type = "CommandCommit"
        PROVE  \E u \in DOMAIN log' : u < s /\ Opens(u, log[s].seg)'
    <2>1. CASE s = last + 1
      <3>1. PICK u \in DOMAIN log : u <= last /\ Opens(u, seg)
        BY <1>1, <1>2, <1>4, <2>1
      <3>2. log'[s].seg = seg /\ u < s /\ u \in DOMAIN log'
        BY SMT, <1>1, <2>1, <3>1
      <3>3. Opens(u, log[s].seg)'
        BY <1>1, <2>1, <3>1, <3>2 DEF Opens
      <3> QED BY <3>2, <3>3
    <2>2. CASE s \in DOMAIN log
      <3>1. PICK u \in DOMAIN log : u < s /\ Opens(u, log[s].seg)
        BY <1>1, <1>4, <2>2 DEF OpenedInv
      <3>2. Opens(u, log[s].seg)'
        BY <1>1, <2>2, <3>1 DEF Opens
      <3> QED BY <1>1, <3>1, <3>2
    <2> QED BY <1>1, <2>1, <2>2
  <1>5. ASSUME phase' \in {"up", "commit"}
        PROVE  \E u \in DOMAIN log' : u <= last' /\ Opens(u, seg)'
    <2>1. CASE phase = "up"
      <3>1. PICK u \in DOMAIN log : u <= last /\ Opens(u, seg)
        BY <1>2, <2>1
      <3>2. u \in DOMAIN log' /\ u <= last' /\ Opens(u, seg)'
        BY SMT, <1>1, <1>5, <3>1 DEF Opens
      <3> QED BY <3>2
    <2>2. CASE last' = last + 1 /\ rec.type = "FabricSnapshot"
      <3>1. PICK u \in DOMAIN log' : u = last + 1
        BY <1>1
      <3>2. u <= last' /\ Opens(u, seg)'
        BY SMT, <1>1, <1>5, <2>2, <3>1 DEF Opens
      <3> QED BY <3>2
    <2> QED BY <1>5, <2>1, <2>2
  <1> QED BY <1>4, <1>5 DEF OpenedInv

\* The journal is left alone.
LEMMA OpenedUnmoved ==
    ASSUME OpenedInv, UNCHANGED log,
           phase' \in {"up", "commit"} =>
             phase \in {"up", "commit"} /\ UNCHANGED <<last, seg>>
    PROVE  OpenedInv'
  BY DEF OpenedInv, Opens

\* What a record does to the recovered fabric.
LEMMA ReplaySteps ==
    /\ \A f : Replayed(f, StartRecord) = f /\ Replayed(f, FenceRecord) = f
    /\ \A f, h : Replayed(f, FabricRecord(h)) = h
    /\ \A r : fabric # NoFabric => Replayed(fabric, CommitRecord(r)) = Applied(r)
  BY DEF Replayed, StartRecord, FenceRecord, FabricRecord, CommitRecord, Rec,
         Applied

\* What each append() of the controller writes.
LEMMA RecordTypesOf ==
    /\ StartRecord.type = "IncarnationStart" /\ FenceRecord.type = "Fence"
    /\ \A f : FabricRecord(f).type = "FabricSnapshot"
    /\ \A r : CommitRecord(r).type = "CommandCommit"
  BY DEF StartRecord, FenceRecord, FabricRecord, CommitRecord, Rec

-----------------------------------------------------------------------------
(* Nothing that was shown is lost.                                         *)

\* A step that leaves the journal and the snapshot alone and halts, or changes
\* nothing that matters here.
LEMMA HaltDurable ==
    ASSUME TInv, DurableInv, UNCHANGED <<log, snapshot, published, maybe>>,
           phase' \in Halted
    PROVE  DurableInv'
  <1>1. PICK st : \E top \in Nat : Replay(st, top) /\ Told(st, top)
    BY DEF DurableInv
  <1>2. PICK top \in Nat : Replay(st, top) /\ Told(st, top)
    BY <1>1
  <1>3. Replay(st, top)' /\ Base' = Base /\ Watermark' = Watermark
    BY <1>2, ReplayUnmoved
  <1>4. Told(st, top)'
    BY <1>2, <1>3 DEF Told, Halted
  <1>5. OpenedInv'
    BY OpenedUnmoved DEF DurableInv, Halted
  <1> QED BY <1>3, <1>4, <1>5 DEF DurableInv

\* A step that changes neither the disk nor the published fabric.
LEMMA QuietDurable ==
    ASSUME DurableInv,
           UNCHANGED <<log, snapshot, published, maybe, phase, fabric, last, seg,
                       cursor, pending>>
    PROVE  DurableInv'
  <1>1. PICK st : \E top \in Nat : Replay(st, top) /\ Told(st, top)
    BY DEF DurableInv
  <1>2. PICK top \in Nat : Replay(st, top) /\ Told(st, top)
    BY <1>1
  <1>3. Replay(st, top)' /\ Base' = Base /\ Watermark' = Watermark
    BY <1>2, ReplayUnmoved
  <1>4. Told(st, top)'
    BY <1>2, <1>3 DEF Told
  <1>5. OpenedInv'
    BY OpenedUnmoved DEF DurableInv
  <1> QED BY <1>3, <1>4, <1>5 DEF DurableInv

\* The directory is read.
LEMMA ScanDurable ==
    ASSUME TInv, RecoveryInv, DurableInv,
           StartRecovery \/ (\E s \in DOMAIN log : ScanRecord(s))
    PROVE  DurableInv'
  <1> USE RecoveryTypes
  <1>1. PICK st : \E top \in Nat : Replay(st, top) /\ Told(st, top)
    BY DEF DurableInv
  <1>2. PICK top \in Nat : Replay(st, top) /\ Told(st, top)
    BY <1>1
  <1>3. UNCHANGED <<log, snapshot, published, maybe>>
          /\ phase' \in {"refused", "scan"}
    BY DEF StartRecovery, ScanRecord, disk, history, effects
  <1>4. Replay(st, top)' /\ Base' = Base /\ Watermark' = Watermark
    BY <1>2, <1>3, ReplayUnmoved
  <1>5. OpenedInv'
    BY <1>3, OpenedUnmoved DEF DurableInv
  <1>6. CASE StartRecovery
    <2>1. cursor' = 0 /\ fabric' = Base
      BY <1>6 DEF StartRecovery, Base
    <2>2. Told(st, top)'
      BY SMTT(30), <1>2, <1>3, <1>4, <2>1 DEF Told
    <2> QED BY <1>4, <1>5, <2>2 DEF DurableInv
  <1>7. CASE \E s \in DOMAIN log : ScanRecord(s)
    <2>1. PICK s \in DOMAIN log : ScanRecord(s)
      BY <1>7
    <2>2. /\ phase = "scan" /\ phase' = "scan" /\ s > cursor /\ cursor' = s
          /\ \A t \in DOMAIN log : t > cursor => s <= t
          /\ fabric' = IF s <= Watermark THEN fabric ELSE Replayed(fabric, log[s])
      BY <2>1 DEF ScanRecord, NextRecord, Covered
    <2>3. cursor \in {0} \cup DOMAIN log /\ Continuous
      BY <2>2 DEF RecoveryInv, NumberInv
    <2>4. fabric = IF cursor <= Watermark THEN Base ELSE st[cursor]
      BY <1>2, <2>2 DEF Told
    <2>5. s \in Nat /\ s > 0 /\ cursor \in Nat
      OBVIOUS
    <2>6. fabric' = IF s <= Watermark THEN Base ELSE st[s]
      <3>1. CASE s <= Watermark
        BY SMT, <2>2, <2>4, <2>5, <3>1
      <3>2. CASE s > Watermark
        <4>1. fabric = st[s - 1]
          <5>1. CASE cursor = 0
            <6>1. Before(s - 1)
              BY SMT, <2>2, <2>5, <5>1 DEF Before
            <6>2. st[s - 1] = Base
              BY SMTT(30), <1>2, <2>5, <6>1 DEF Replay
            <6> QED BY SMT, <2>4, <5>1, <6>2
          <5>2. CASE cursor \in DOMAIN log
            <6>1. cursor + 1 \in DOMAIN log
              BY SMT, <2>2, <2>3, <2>5, <5>2 DEF Continuous
            <6>2. s = cursor + 1
              BY SMT, <2>2, <2>5, <6>1
            <6>3. CASE cursor <= Watermark
              <7>1. cursor = Watermark
                BY SMT, <2>5, <3>2, <6>2, <6>3
              <7> QED BY SMTT(30), <1>2, <2>4, <2>5, <6>2, <6>3, <7>1 DEF Told
            <6>4. CASE cursor > Watermark
              BY SMTT(30), <2>4, <2>5, <6>2, <6>4
            <6> QED BY SMT, <2>5, <6>3, <6>4
          <5> QED BY <2>3, <5>1, <5>2
        <4>2. st[s] = Replayed(st[s - 1], log[s])
          <5>1. PICK n \in Nat : s = n + 1
            BY SMT, <2>5
          <5>2. n + 1 \in DOMAIN log /\ s - 1 = n
            BY SMT, <5>1
          <5> QED BY <1>2, <5>1, <5>2 DEF Replay
        <4> QED BY SMT, <2>2, <2>5, <3>2, <4>1, <4>2
      <3> QED BY SMT, <2>5, <3>1, <3>2
    <2>7. Told(st, top)'
      BY <1>2, <1>3, <1>4, <2>2, <2>6 DEF Told
    <2> QED BY <1>4, <1>5, <2>7 DEF DurableInv
  <1> QED BY <1>6, <1>7

\* Once every record was read, the recovered fabric is what the journal leads to.
LEMMA ScannedFabric ==
    ASSUME TInv, RecoveryInv, Scanned, NEW st, NEW top \in Nat, Replay(st, top),
           Told(st, top)
    PROVE  fabric = st[top]
  <1> USE RecoveryTypes
  <1>1. /\ phase = "scan" /\ cursor \in {0} \cup DOMAIN log
        /\ DOMAIN log # {} => \E s \in DOMAIN log : Watermark <= s
    BY DEF Scanned, RecoveryInv, NumberInv
  <1>2. Ends(cursor)
    BY DEF Scanned, Ends
  <1>3. st[cursor] = st[top]
    BY <1>2 DEF Replay
  <1>4. CASE cursor > Watermark
    BY SMT, <1>1, <1>3, <1>4 DEF Told
  <1>5. CASE cursor <= Watermark
    <2>1. fabric = Base
      BY <1>1, <1>5 DEF Told
    <2>2. CASE DOMAIN log = {}
      <3>1. Before(0) /\ cursor = 0
        BY <1>1, <2>2 DEF Before
      <3> QED BY <1>3, <2>1, <3>1 DEF Replay
    <2>3. CASE DOMAIN log # {}
      <3>1. cursor = Watermark
        BY SMT, <1>1, <1>2, <1>5, <2>3 DEF Ends
      <3> QED BY <1>3, <2>1, <3>1 DEF Told
    <2> QED BY <2>2, <2>3
  <1> QED BY SMTT(30), <1>4, <1>5

\* The snapshot changes, or the oldest segment goes.
LEMMA RebaseDurable ==
    ASSUME TInv, RecoveryInv, DurableInv, ~RemovalsFail, TInv',
           Prune \/ Compact \/ (\E g \in doomed : RemoveSegment(g))
    PROVE  DurableInv'
  <1> USE RecoveryTypes
  <1>1. PICK st : \E top \in Nat : Replay(st, top) /\ Told(st, top)
    BY DEF DurableInv
  <1>2. PICK top \in Nat : Replay(st, top) /\ Told(st, top)
    BY <1>1
  <1>3. CASE Prune
    <2>1. /\ UNCHANGED <<log, fabric, published, maybe>> /\ Scanned
          /\ phase' = "prune"
      BY <1>3 DEF Prune, history, effects
    <2>2. PICK g \in DOMAIN tails, w \in {0} \cup DOMAIN log :
            /\ IsNewest(g, DOMAIN tails) /\ IsLastSequence(w, g)
            /\ snapshot' = [fab |-> fabric, mark |-> w]
      BY <1>3 DEF Prune, WriteSnapshot
    <2>3. fabric = st[top]
      BY <1>2, <2>1, ScannedFabric
    <2>4. snapshot' \in Snapshot
      BY <1>3, <2>2 DEF Snapshot, Prune, AtBound, TInv, TypeOK
    <2>5. Base' = fabric /\ Watermark' = w
      BY <2>2, <2>4, StoreAssumption DEF Base, Watermark
    <2>6. PICK new : /\ Replay(new, top)'
                     /\ \A n \in Nat : new[n] \in {st[n], Base'}
      BY <1>2, <2>1, ReplayRebased DEF DurableInv
    <2>7. new[top] = fabric
      BY <2>3, <2>5, <2>6
    <2>8. new[w] = fabric
      <3>1. CASE w = 0
        <4>1. \A s \in DOMAIN log' : 0 < s
          BY <2>1
        <4>2. Before(0)'
          BY <4>1 DEF Before
        <4> QED BY <2>5, <2>6, <3>1, <4>2 DEF Replay
      <3>2. CASE w \in DOMAIN log
        <4>1. IsNewest(w, RecordsOf(g)) /\ log[w].seg = g
          <5>1. RecordsOf(g) # {}
            BY SMTT(30), <2>2, <3>2 DEF IsLastSequence
          <5> QED BY <2>2, <5>1 DEF IsLastSequence, IsNewest, RecordsOf
        <4>2. \A s \in DOMAIN log : s <= w
          <5> SUFFICES ASSUME NEW s \in DOMAIN log, w < s PROVE FALSE
            BY SMT, <3>2
          <5>1. log[s].seg \in DOMAIN tails /\ g <= log[s].seg
            BY <3>2, <4>1 DEF RecoveryInv, SegmentInv
          <5>2. log[s].seg = g
            BY SMTT(30), <2>2, <5>1 DEF IsNewest
          <5> QED BY SMT, <3>2, <4>1, <5>2 DEF IsNewest, RecordsOf
        <4>3. Ends(w)
          BY <4>2 DEF Ends
        <4>4. st[w] = st[top]
          BY <1>2, <3>2, <4>3 DEF Replay
        <4> QED BY <2>3, <2>5, <2>6, <3>2, <4>4
      <3> QED BY <3>1, <3>2
    <2>9. Told(new, top)'
      BY <1>2, <2>1, <2>3, <2>5, <2>7, <2>8 DEF Told
    <2>10. OpenedInv'
      BY <2>1, OpenedUnmoved DEF DurableInv
    <2> QED BY <2>6, <2>9, <2>10 DEF DurableInv
  <1>4. CASE Compact
    <2>1. /\ UNCHANGED <<log, fabric, published, maybe, last, seg>>
          /\ phase = "up" /\ phase' = "up"
          /\ snapshot' = [fab |-> fabric, mark |-> last]
      BY <1>4 DEF Compact, WriteSnapshot, writer, history, effects
    <2>2. snapshot' \in Snapshot
      BY <2>1 DEF Snapshot, TInv, ShapeInv, Live
    <2>3. Base' = fabric /\ Watermark' = last
      BY <2>1, <2>2, StoreAssumption DEF Base, Watermark
    <2>4. PICK new : /\ Replay(new, top)'
                     /\ \A n \in Nat : new[n] \in {st[n], Base'}
      BY <1>2, <2>1, ReplayRebased DEF DurableInv
    <2>5. st[last] = fabric /\ published = fabric
            /\ st[top] \in {published} \cup maybe
      BY <1>2, <2>1 DEF Told
    <2>6. new[last] = fabric /\ new[top] \in {published} \cup maybe
      BY <2>3, <2>4, <2>5
    <2>7. Told(new, top)'
      BY <2>1, <2>3, <2>5, <2>6 DEF Told
    <2>8. OpenedInv'
      BY <2>1, OpenedUnmoved DEF DurableInv
    <2> QED BY <2>4, <2>7, <2>8 DEF DurableInv
  <1>5. CASE \E g \in doomed : RemoveSegment(g)
    <2>1. PICK g \in doomed : RemoveSegment(g)
      BY <1>5
    <2>2. /\ phase = "prune" /\ phase' \in {"prune", "create"}
          /\ doomed = DOMAIN tails /\ \A h \in DOMAIN tails : g <= h
          /\ UNCHANGED <<snapshot, fabric, published, maybe>>
      BY <2>1
      DEF RemoveSegment, NextDoomed, RecoveryInv, NumberInv, effects
    <2>3. log' = [s \in DOMAIN log \ RecordsOf(g) |-> log[s]]
      BY <2>1 DEF RemoveSegment, RemoveFile, Restrict
    <2>4. /\ \A s : s \in DOMAIN log' <=> s \in DOMAIN log /\ log[s].seg # g
          /\ \A s \in DOMAIN log' : s \in DOMAIN log /\ log'[s] = log[s]
      BY <2>3 DEF RecordsOf
    <2>5. \A s \in DOMAIN log', t \in DOMAIN log :
            s < t \/ log[s].seg = log[t].seg => t \in DOMAIN log'
      <3> SUFFICES ASSUME NEW s \in DOMAIN log', NEW t \in DOMAIN log,
                          s < t \/ log[s].seg = log[t].seg
                   PROVE  log[t].seg # g
        BY <2>4
      <3>1. s \in DOMAIN log /\ log[s].seg # g /\ log[s].seg \in DOMAIN tails
        BY <2>4 DEF RecoveryInv, SegmentInv
      <3>2. g < log[s].seg /\ log[s].seg <= log[t].seg
        BY SMTT(30), <2>2, <3>1 DEF RecoveryInv, SegmentInv
      <3> QED BY SMTT(30), <2>2, <3>1, <3>2
    <2>6. PICK new : /\ Replay(new, top)'
                     /\ \A n \in Nat : new[n] \in {st[n], Base'}
      BY <1>2, <2>4, <2>5, ReplayRebased DEF DurableInv
    <2>7. Base' = Base /\ Watermark' = Watermark
      BY <2>2 DEF Base, Watermark
    <2>8. st[top] = fabric /\ Base = fabric /\ st[Watermark] = Base
            /\ st[top] \in {published} \cup maybe
      BY <1>2, <2>2 DEF Told
    <2>9. new[top] = fabric /\ new[Watermark] = Base
      BY <2>6, <2>7, <2>8
    <2>10. Told(new, top)'
      BY <2>2, <2>7, <2>8, <2>9 DEF Told
    <2>11. OpenedInv'
      <3> SUFFICES ASSUME NEW s \in DOMAIN log', log'[s].type = "CommandCommit"
                   PROVE  \E u \in DOMAIN log' : u < s /\ Opens(u, log[s].seg)'
        BY <2>2 DEF OpenedInv
      <3>1. PICK u \in DOMAIN log : u < s /\ Opens(u, log[s].seg)
        BY <2>4 DEF DurableInv, OpenedInv
      <3>2. u \in DOMAIN log' /\ Opens(u, log[s].seg)'
        BY <2>4, <3>1 DEF Opens
      <3> QED BY <3>1, <3>2
    <2> QED BY <2>6, <2>10, <2>11 DEF DurableInv
  <1> QED BY <1>3, <1>4, <1>5

\* The rest of start(), up to its first record.
LEMMA CreateDurable ==
    ASSUME TInv, RecoveryInv, DurableInv, NoPrune \/ CreateSegment
    PROVE  DurableInv'
  <1>1. PICK st : \E top \in Nat : Replay(st, top) /\ Told(st, top)
    BY DEF DurableInv
  <1>2. PICK top \in Nat : Replay(st, top) /\ Told(st, top)
    BY <1>1
  <1>3. UNCHANGED <<log, snapshot, published, maybe>>
          /\ phase' \in {"create", "announce"}
    BY DEF NoPrune, CreateSegment, storeVars, history, effects
  <1>4. Replay(st, top)' /\ Base' = Base /\ Watermark' = Watermark
    BY <1>2, <1>3, ReplayUnmoved
  <1>5. OpenedInv'
    BY <1>3, OpenedUnmoved DEF DurableInv
  <1>6. CASE NoPrune
    <2>1. fabric' = fabric /\ fabric = st[top] /\ phase' = "create"
      BY <1>2, <1>6, ScannedFabric DEF NoPrune
    <2>2. Told(st, top)'
      BY <1>2, <1>3, <1>4, <2>1 DEF Told
    <2> QED BY <1>4, <1>5, <2>2 DEF DurableInv
  <1>7. CASE CreateSegment
    <2>1. /\ phase = "create" /\ phase' = "announce"
          /\ fabric' = IF fabric = NoFabric THEN EmptyFabric ELSE fabric
      BY <1>7 DEF CreateSegment
    <2>2. fabric = st[top]
      BY <1>2, <2>1 DEF Told
    <2>3. Told(st, top)'
      <3>1. st[Watermark'] = Base' /\ st[top] \in {published'} \cup maybe'
        BY <1>2, <1>3, <1>4 DEF Told
      <3>2. fabric' = st[top] \/ (st[top] = NoFabric /\ fabric' = EmptyFabric)
        BY <2>1, <2>2
      <3> QED BY <2>1, <3>1, <3>2 DEF Told
    <2> QED BY <1>4, <1>5, <2>3 DEF DurableInv
  <1> QED BY <1>6, <1>7

\* A record becomes durable, and the caller learns of it (last is advanced) or
\* does not.
LEMMA AppendDurable ==
    ASSUME TInv, RecoveryInv, DurableInv, CanAppend, NEW rec, rec.seg = seg,
           phase \in {"announce", "baseline", "up"},
           log' = Extended(log, last + 1, rec), snapshot' = snapshot,
           rec.type = "CommandCommit" => phase = "up",
           phase' \in {"up", "commit"} =>
             /\ seg' = seg /\ last' \in {last, last + 1}
             /\ phase = "up" \/ (last' = last + 1 /\ rec.type = "FabricSnapshot"),
           phase' \in {"baseline", "up", "commit", "down"},
           \A old : Leads(old) =>
             /\ Replayed(old, rec) \in {published'} \cup maybe'
             /\ phase' = "baseline" => Replayed(old, rec) = old /\ fabric' = fabric
             /\ phase' = "up" =>
                  /\ fabric' = (IF last' = last THEN old ELSE Replayed(old, rec))
                  /\ published' = fabric'
             /\ phase' = "commit" =>
                  last' = last + 1 /\ pending'.fab = Replayed(old, rec)
    PROVE  DurableInv'
  <1>1. PICK new, old : \E k \in Nat :
             /\ k = last /\ Replay(new, k + 1)' /\ (new[Watermark] = Base)'
             /\ new[k] = old /\ new[k + 1] = Replayed(old, rec) /\ Leads(old)
    BY SMTT(30), AppendTold
  <1>2. PICK k \in Nat :
             /\ k = last /\ Replay(new, k + 1)' /\ (new[Watermark] = Base)'
             /\ new[k] = old /\ new[k + 1] = Replayed(old, rec) /\ Leads(old)
    BY <1>1
  <1>3. /\ Replayed(old, rec) \in {published'} \cup maybe'
        /\ phase' = "baseline" => Replayed(old, rec) = old /\ fabric' = fabric
        /\ phase' = "up" =>
             /\ fabric' = (IF last' = last THEN old ELSE Replayed(old, rec))
             /\ published' = fabric'
        /\ phase' = "commit" =>
             last' = last + 1 /\ pending'.fab = Replayed(old, rec)
    BY <1>2
  <1>4. phase' = "baseline" => fabric = old \/ (old = NoFabric /\ fabric = EmptyFabric)
    BY <1>2 DEF Leads
  <1>5. phase' = "up" => new[last'] = fabric'
    BY <1>2, <1>3
  <1>6. phase' = "commit" => new[last'] = pending'.fab
    BY <1>2, <1>3
  <1>7. Told(new, k + 1)'
    BY <1>2, <1>3, <1>4, <1>5, <1>6 DEF Told
  <1>8. OpenedInv'
    BY AppendOpened DEF DurableInv
  <1>9. k + 1 \in Nat
    BY SMT
  <1>10. (\E top \in Nat : Replay(new, top) /\ Told(new, top))'
    BY ONLY <1>2, <1>7, <1>9, Zenon
  <1> QED BY <1>8, <1>10 DEF DurableInv

\* An append that fails leaves the journal alone or with the whole record.
LEMMA FailedAppend ==
    ASSUME NEW rec, NotAppended(rec)
    PROVE  /\ snapshot' = snapshot
           /\ log' = log \/ (CanAppend /\ log' = Extended(log, last + 1, rec))
  BY DEF NotAppended

\* The first records of a new segment restate the recovered fabric.
LEMMA BootDurable ==
    ASSUME TInv, RecoveryInv, DurableInv, Announce \/ Baseline \/ StartAppendFails
    PROVE  DurableInv'
  <1> USE RecordSegments, RecordTypesOf, ReplaySteps
  <1>1. CASE Announce
    <2>1. /\ phase = "announce" /\ phase' = "baseline" /\ CanAppend
          /\ log' = Extended(log, last + 1, StartRecord)
          /\ UNCHANGED <<snapshot, fabric, published, maybe>>
      BY <1>1 DEF Announce, AppendOk, effects
    <2>2. \A old : Leads(old) => old \in {published} \cup maybe
      BY DEF Leads
    <2> QED BY <2>1, <2>2, AppendDurable
  <1>2. CASE Baseline
    <2>1. /\ phase = "baseline" /\ phase' = "up" /\ CanAppend
          /\ log' = Extended(log, last + 1, FabricRecord(fabric))
          /\ last' = last + 1 /\ UNCHANGED <<snapshot, seg, fabric>>
          /\ published' = fabric
      BY <1>2 DEF Baseline, AppendOk
    <2>2. last + 1 # last
      BY SMTT(30), RecoveryTypes
    <2> QED BY <2>1, <2>2, AppendDurable
  <1>3. CASE StartAppendFails
    <2>1. phase' = "down" /\ published' = published
      BY <1>3 DEF StartAppendFails, Halt
    <2>2. CASE phase = "announce"
      <3>1. NotAppended(StartRecord) /\ maybe' = maybe
        BY <1>3, <2>2 DEF StartAppendFails
      <3>2. CASE log' = log
        BY <2>1, <3>1, <3>2, FailedAppend, HaltDurable DEF Halted
      <3>3. CASE CanAppend /\ log' = Extended(log, last + 1, StartRecord)
        <4>1. \A old : Leads(old) => old \in {published} \cup maybe
          BY DEF Leads
        <4> QED BY <2>1, <2>2, <3>1, <3>3, <4>1, FailedAppend, AppendDurable
      <3> QED BY <3>1, <3>2, <3>3, FailedAppend
    <2>3. CASE phase = "baseline"
      <3>1. /\ NotAppended(FabricRecord(fabric))
            /\ maybe' = IF log' = log THEN maybe ELSE maybe \cup {fabric}
        BY <1>3, <2>3 DEF StartAppendFails
      <3>2. CASE log' = log
        BY <2>1, <3>1, <3>2, FailedAppend, HaltDurable DEF Halted
      <3>3. CASE log' # log
        <4>1. CanAppend /\ log' = Extended(log, last + 1, FabricRecord(fabric))
                /\ snapshot' = snapshot /\ fabric \in maybe'
          BY <3>1, <3>3, FailedAppend
        <4> QED BY <2>1, <2>3, <4>1, AppendDurable
      <3> QED BY <3>2, <3>3
    <2> QED BY <1>3, <2>2, <2>3 DEF StartAppendFails
  <1> QED BY <1>1, <1>2, <1>3

\* The records of leases say nothing of the fabric.
LEMMA LeaseDurable ==
    ASSUME TInv, RecoveryInv, DurableInv,
           AcquireAuthority \/ AcquireFails \/ RevokeAuthority
    PROVE  DurableInv'
  <1> USE RecordSegments, RecordTypesOf, ReplaySteps
  <1>1. /\ phase = "up" /\ phase' = "up"
        /\ UNCHANGED <<fabric, published, maybe, pending, cursor>>
        /\ AppendOk(FenceRecord) \/ AppendFails(FenceRecord)
    BY DEF AcquireAuthority, AcquireFails, RevokeAuthority, window, boot,
           effects, history
  <1>2. \A old : Leads(old) => old = fabric /\ published = fabric
    BY <1>1 DEF Leads
  <1>3. CASE AppendOk(FenceRecord)
    <2>1. /\ CanAppend /\ log' = Extended(log, last + 1, FenceRecord)
          /\ last' = last + 1 /\ UNCHANGED <<snapshot, seg>>
      BY <1>3 DEF AppendOk
    <2> QED BY <1>1, <1>2, <2>1, AppendDurable
  <1>4. CASE AppendFails(FenceRecord)
    <2>1. UNCHANGED <<seg, last>> /\ NotAppended(FenceRecord)
      BY <1>4 DEF AppendFails
    <2>2. CASE log' = log
      BY <1>1, <2>1, <2>2, FailedAppend, QuietDurable
    <2>3. CASE CanAppend /\ log' = Extended(log, last + 1, FenceRecord)
      BY <1>1, <1>2, <2>1, <2>3, FailedAppend, AppendDurable
    <2> QED BY <2>1, <2>2, <2>3, FailedAppend
  <1> QED BY <1>1, <1>3, <1>4

\* A command is published only behind its record; a failed append leaves it
\* possible, not published.
LEMMA CommandDurable ==
    ASSUME TInv, RecoveryInv, DurableInv, NEW r \in Requests, NEW t, NEW want,
           ApplyCommit(r, t, want) \/ ApplyFails(r, t, want)
    PROVE  DurableInv'
  <1> USE RecordSegments, RecordTypesOf
  <1>1. phase = "up" /\ UNCHANGED <<fabric, published, cursor>>
    BY DEF ApplyCommit, ApplyFails, Admitted, boot
  <1>2. fabric # NoFabric
    BY <1>1, SpecAssumption DEF TInv, ShapeInv, Live
  <1>3. \A old : Leads(old) =>
          old = fabric /\ published = fabric
            /\ Replayed(old, CommitRecord(r)) = Applied(r)
    BY <1>1, <1>2, ReplaySteps DEF Leads
  <1>4. CASE ApplyCommit(r, t, want)
    <2>1. /\ CanAppend /\ log' = Extended(log, last + 1, CommitRecord(r))
          /\ last' = last + 1 /\ UNCHANGED <<snapshot, seg>>
          /\ phase' = "commit" /\ pending'.fab = Applied(r)
          /\ maybe' = {Applied(r)}
      BY <1>4 DEF ApplyCommit, AppendOk
    <2> QED BY <1>1, <1>3, <2>1, AppendDurable
  <1>5. CASE ApplyFails(r, t, want)
    <2>1. /\ phase' = phase /\ UNCHANGED <<seg, last, pending>>
          /\ NotAppended(CommitRecord(r))
          /\ maybe' = IF log' = log THEN maybe ELSE {Applied(r)}
      BY <1>5 DEF ApplyFails, AppendFails, window
    <2>2. CASE log' = log
      BY <1>1, <2>1, <2>2, FailedAppend, QuietDurable
    <2>3. CASE log' # log
      <3>1. CanAppend /\ log' = Extended(log, last + 1, CommitRecord(r))
              /\ snapshot' = snapshot /\ maybe' = {Applied(r)}
        BY <2>1, <2>3, FailedAppend
      <3> QED BY <1>1, <1>3, <2>1, <3>1, AppendDurable
    <2> QED BY <2>2, <2>3
  <1> QED BY <1>4, <1>5

\* The same for install_fabric().
LEMMA InstallDurable ==
    ASSUME TInv, RecoveryInv, DurableInv, NEW f \in Specs, NEW replace,
           InstallCommit(f, replace) \/ InstallFails(f, replace)
    PROVE  DurableInv'
  <1> USE RecordSegments, RecordTypesOf
  <1>1. phase = "up" /\ UNCHANGED <<fabric, published, cursor>>
    BY DEF InstallCommit, InstallFails, boot
  <1>2. \A old : Leads(old) =>
          old = fabric /\ published = fabric
            /\ Replayed(old, FabricRecord(f)) = f
    BY <1>1, ReplaySteps DEF Leads
  <1>3. CASE InstallCommit(f, replace)
    <2>1. /\ CanAppend /\ log' = Extended(log, last + 1, FabricRecord(f))
          /\ last' = last + 1 /\ UNCHANGED <<snapshot, seg>>
          /\ phase' = "commit" /\ pending'.fab = f /\ maybe' = {f}
      BY <1>3 DEF InstallCommit, AppendOk
    <2> QED BY <1>1, <1>2, <2>1, AppendDurable
  <1>4. CASE InstallFails(f, replace)
    <2>1. /\ phase' = phase /\ UNCHANGED <<seg, last, pending>>
          /\ NotAppended(FabricRecord(f))
          /\ maybe' = IF log' = log THEN maybe ELSE {f}
      BY <1>4 DEF InstallFails, AppendFails, window
    <2>2. CASE log' = log
      BY <1>1, <2>1, <2>2, FailedAppend, QuietDurable
    <2>3. CASE log' # log
      <3>1. CanAppend /\ log' = Extended(log, last + 1, FabricRecord(f))
              /\ snapshot' = snapshot /\ maybe' = {f}
        BY <2>1, <2>3, FailedAppend
      <3> QED BY <1>1, <1>2, <2>1, <3>1, AppendDurable
    <2> QED BY <2>2, <2>3
  <1> QED BY <1>3, <1>4

\* The committed fabric is published.
LEMMA PublishDurable ==
    ASSUME TInv, RecoveryInv, DurableInv, PublishStep
    PROVE  DurableInv'
  <1>1. PICK st : \E top \in Nat : Replay(st, top) /\ Told(st, top)
    BY DEF DurableInv
  <1>2. PICK top \in Nat : Replay(st, top) /\ Told(st, top)
    BY <1>1
  <1>3. /\ UNCHANGED <<log, snapshot, last, seg>> /\ phase = "commit"
        /\ phase' = "up" /\ fabric' = pending.fab /\ published' = pending.fab
    BY DEF PublishStep, ApplyPublish, InstallPublish, storeVars
  <1>4. Replay(st, top)' /\ Base' = Base /\ Watermark' = Watermark
    BY <1>2, <1>3, ReplayUnmoved
  <1>5. Ends(last) /\ last \in Nat
    BY <1>3, RecoveryTypes DEF RecoveryInv, NumberInv, SegmentInv, Ends
  <1>6. st[last] = st[top] /\ st[last] = pending.fab
    BY <1>2, <1>3, <1>5 DEF Replay, Told
  <1>7. Told(st, top)'
    BY <1>2, <1>3, <1>4, <1>6 DEF Told
  <1>8. OpenedInv'
    BY <1>3, OpenedUnmoved DEF DurableInv
  <1> QED BY <1>4, <1>7, <1>8 DEF DurableInv

\* After every step the directory tells the published fabric.
LEMMA DurableStep ==
    ~RemovalsFail /\ TInv /\ RecoveryInv /\ DurableInv /\ [Next]_vars => DurableInv'
  <1> SUFFICES ASSUME ~RemovalsFail, TInv, RecoveryInv, DurableInv, [Next]_vars
               PROVE  DurableInv'
    OBVIOUS
  <1>0. TInv'
    BY StepType
  <1>1. CASE PruneFails \/ CreateFails \/ Stop \/ Kill
    <2>1. Halt /\ UNCHANGED <<log, snapshot, published, maybe>>
      BY <1>1
      DEF PruneFails, CreateFails, Stop, Kill, CloseClean, CloseFails, disk,
          effects
    <2> QED BY <2>1, HaltDurable DEF Halt, Halted
  <1>2. CASE Expire \/ SweepLease \/ (\E d \in dedup : ApplyDuplicate(d))
               \/ UNCHANGED vars
    <2>1. UNCHANGED <<log, snapshot, published, maybe, phase, fabric, last, seg,
                      cursor, pending>>
      BY <1>2
      DEF Expire, SweepLease, ApplyDuplicate, vars, storeVars, boot, window,
          history, effects
    <2> QED BY <2>1, QuietDurable
  <1>3. CASE StartRecovery \/ StartStep
    BY <1>0, <1>1, <1>3, ScanDurable, RebaseDurable, CreateDurable, BootDurable
    DEF StartStep
  <1>4. CASE ClientStep
    BY <1>2, <1>4, LeaseDurable, CommandDurable, InstallDurable DEF ClientStep
  <1>5. CASE Compact
    BY <1>0, <1>5, RebaseDurable
  <1> QED BY <1>1, <1>2, <1>3, <1>4, <1>5, PublishDurable DEF Next

\* An empty directory can be recovered.
LEMMA RecoveryInit == Init => TInv /\ RecoveryInv
  <1> SUFFICES ASSUME Init PROVE DiskInv /\ RuntimeInv
    BY InitType, RecoveryParts
  <1>1. DiskInv
    BY DEF Init, StoreInit, DiskInv, Continuous, Unreadable
  <1>2. RuntimeInv
    BY DEF Init, StoreInit, RuntimeInv, Live, Halted
  <1> QED BY <1>1, <1>2

\* Nothing is published at first, and nothing stored.
LEMMA DurableInit == Init => DurableInv
  <1> SUFFICES ASSUME Init PROVE DurableInv
    OBVIOUS
  <1>1. DOMAIN log = {} /\ snapshot = NoSnapshot /\ phase = "down"
          /\ published = NoFabric
    BY DEF Init, StoreInit
  <1>2. PICK st : \A n \in Nat : st[n] = NoFabric
    <2>1. \A n \in Nat : [m \in Nat |-> NoFabric][n] = NoFabric
      OBVIOUS
    <2> QED BY <2>1
  <1>3. Replay(st, 0) /\ Told(st, 0)
    BY SMTT(30), <1>1, <1>2 DEF Replay, Told, Base, Ends, Watermark
  <1>4. OpenedInv
    BY <1>1 DEF OpenedInv
  <1> QED BY <1>3, <1>4 DEF DurableInv

\* Recovery neither loses nor invents state (start(): snapshot, replay, prune):
\* after any number of kills, failed appends, compactions and prunes, the fabric
\* a start settles on is the one readers were last shown or the one of the
\* commit that was durable but not yet shown, provided removals succeed.
THEOREM RecoveryDurable == ~RemovalsFail => (Spec => []Durable)
  <1> SUFFICES ASSUME ~RemovalsFail PROVE Spec => []Durable
    OBVIOUS
  <1> DEFINE I == TInv /\ RecoveryInv /\ DurableInv
  <1>1. Init => I
    BY RecoveryInit, DurableInit
  <1>2. I /\ [Next]_vars => I'
    BY StepType, RecoveryStep, DurableStep
  <1>3. I => Durable
    <2> SUFFICES ASSUME TInv, DurableInv, phase \in {"announce", "baseline"}
                 PROVE  \/ fabric \in {published} \cup maybe
                        \/ published = NoFabric /\ fabric = EmptyFabric
      BY DEF Durable
    <2>1. PICK st : \E top \in Nat : Replay(st, top) /\ Told(st, top)
      BY DEF DurableInv
    <2>2. PICK top \in Nat : Told(st, top)
      BY <2>1
    <2>3. NoFabric \notin maybe
      BY SpecAssumption DEF TInv, TypeOK
    <2> QED BY <2>2, <2>3 DEF Told
  <1> HIDE DEF I
  <1> QED BY <1>1, <1>2, <1>3, PTL DEF Spec
=============================================================================
